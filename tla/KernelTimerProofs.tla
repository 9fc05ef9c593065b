-------------------------- MODULE KernelTimerProofs --------------------------
(***************************************************************************)
(* Proofs about KernelTimer, for every size of the table, every range of   *)
(* m_nTicks and every finite set of devices smaller than the table.        *)
(***************************************************************************)
EXTENDS KernelTimer, FiniteSetTheorems, WellFoundedInduction, TLAPS

-----------------------------------------------------------------------------
(* Numbers.                                                                *)

(* A set of natural numbers that is not empty has a least member.          *)
LEMMA LeastMember ==
    ASSUME NEW S \in SUBSET Nat, S # {}
    PROVE  \E x \in S : \A y \in S : x <= y
<1> DEFINE R == OpToRel(<, Nat)
<1>1. IsWellFoundedOn(R, Nat)
  BY NatLessThanWellFounded, Zenon
<1>2. \A x, y \in Nat : <<x, y>> \in R <=> x < y
  BY DEF OpToRel
<1> HIDE DEF R
<1>3. PICK x \in S : \A y \in S : ~(<<y, x>> \in R)
  BY <1>1, WFMin
<1>4. ASSUME NEW y \in S
      PROVE  x <= y
  <2>1. x \in Nat /\ y \in Nat
    OBVIOUS
  <2>2. ~(y < x)
    BY <1>2, <1>3, <2>1
  <2> QED BY <2>1, <2>2
<1> QED BY <1>4

(* What % is on the numbers the timers meet.                               *)
LEMMA ModCases ==
    ASSUME NEW M \in Nat, M > 0, NEW x \in Int
    PROVE  /\ x % M \in 0 .. M - 1
           /\ x \in 0 .. M - 1 => x % M = x
           /\ x \in M .. 2 * M - 1 => x % M = x - M
           /\ x \in -M .. -1 => x % M = x + M
  OBVIOUS

(* A counter that has gone one on is one nearer to the time that was       *)
(* asked for, also when it wraps.                                          *)
LEMMA TickNearer ==
    ASSUME NEW M \in Nat, M > 1, NEW t \in 0 .. M - 1, NEW l \in Int, l >= 0, l < M
    PROVE  (((t + 1) % M) + (l - 1)) % M = (t + l) % M
<1>1. CASE t + 1 < M
  <2>1. (t + 1) % M = t + 1
    BY <1>1, ModCases
  <2> QED BY <2>1
<1>2. CASE t + 1 = M
  <2>1. (t + 1) % M = 0
    BY <1>2, ModCases
  <2>2. CASE l = 0
    <3>1. (t + l) % M = M - 1
      BY <1>2, <2>2, ModCases
    <3>2. (0 + (l - 1)) % M = M - 1
      BY <2>2, ModCases
    <3> QED BY <2>1, <3>1, <3>2
  <2>3. CASE l > 0
    <3>1. (t + l) % M = l - 1
      <4>1. t + l \in M .. 2 * M - 1 /\ t + l - M = l - 1
        BY <1>2, <2>3
      <4> QED BY <4>1, ModCases
    <3>2. (0 + (l - 1)) % M = l - 1
      <4>1. l - 1 \in 0 .. M - 1 /\ 0 + (l - 1) = l - 1
        BY <2>3
      <4> QED BY <4>1, ModCases
    <3> QED BY <2>1, <3>1, <3>2
  <2> QED BY <2>2, <2>3
<1> QED BY <1>1, <1>2

(* The signed difference of the time asked for and the counter is the      *)
(* number of ticks left, as long as this is less than half of the range.   *)
LEMMA DiffIsLeft ==
    ASSUME NEW M \in Nat, M > 1, NEW t \in 0 .. M - 1,
           NEW l \in Int, l >= -1, 2 * l + 2 < M
    PROVE  LET diff == (((t + l) % M) - t) % M
           IN  (diff = 0 \/ 2 * diff >= M) <=> l <= 0
<1>1. CASE t + l < 0
  <2>1. t = 0 /\ l = -1
    BY <1>1
  <2>2. (t + l) % M = M - 1
    BY <2>1, ModCases
  <2>3. ((M - 1) - t) % M = M - 1
    BY <2>1, ModCases
  <2> QED BY <2>1, <2>2, <2>3
<1>2. CASE t + l \in 0 .. M - 1
  <2>1. (t + l) % M = t + l
    BY <1>2, ModCases
  <2>2. (t + l) - t = l
    OBVIOUS
  <2>3. CASE l >= 0
    <3>1. l % M = l
      BY <2>3, ModCases
    <3> QED BY <2>1, <2>2, <2>3, <3>1
  <2>4. CASE l = -1
    <3>1. l % M = M - 1
      BY <2>4, ModCases
    <3> QED BY <2>1, <2>2, <2>4, <3>1
  <2> QED BY <2>3, <2>4
<1>3. CASE t + l >= M
  <2>1. t + l \in M .. 2 * M - 1 /\ l > 0
    BY <1>3
  <2>2. (t + l) % M = t + l - M
    BY <2>1, ModCases
  <2>3. ((t + l - M) - t) \in -M .. -1 /\ ((t + l - M) - t) + M = l
    BY <2>1
  <2>4. ((t + l - M) - t) % M = l
    BY <2>3, ModCases
  <2> QED BY <2>1, <2>2, <2>4
<1> QED BY <1>1, <1>2, <1>3

-----------------------------------------------------------------------------
(* The inductive invariant.                                                *)

HidTimers == {s \in Slots : slots[s].handler = "hid"}
Busy == {h \in Hids : hid[h] = "busy"}

(* The poll has taken a device's timer and not yet served it.              *)
Held == IF handler = "hid" \/ pc = "restart" THEN 1 ELSE 0

(* Where the local variables of the base context are live, that a device's *)
(* timer has its device as its parameter, and that a slot the poll has     *)
(* freed is at most filled with a device's timer before the poll moves on. *)
ControlInv ==
    /\ handler # None <=> pc = "param"
    /\ pc \notin {"scan", "store"} => n = 1
    /\ pc \in {"boot", "idle"} \/ main => k = 1
    /\ main => pc \in {"scan", "store"}
    /\ pc \in {"param", "restart", "eth"} => k \in Slots
    /\ pc \in {"scan", "store"} /\ ~main => k \in Slots
    /\ \A s \in Slots : slots[s].handler = "hid" => slots[s].param \in Hids
    /\ handler = "hid" => slots[k].param \in Hids
    /\ pc \in {"param", "restart"} => k \notin Pending

(* Every device accounts for one timer at most: it is busy, or its timer   *)
(* is in the table or in the hands of the poll, or its timer was lost.     *)
CountInv == Cardinality(HidTimers) + Cardinality(Busy) + Held <= Cardinality(Hids)

(* A slot that the scan has passed is in use and stays in use.             *)
ScanInv ==
    /\ pc = "scan" => \A s \in Slots : s < n => ~Free(s)
    /\ pc = "store" => n \in Slots

(* The time asked for, less than half of the range of m_nTicks away, and   *)
(* late by at most the tick whose poll has not reached the slot.           *)
TimeInv ==
    /\ \A s \in Pending : /\ slots[s].elapses = (ticks + left) % TickMod
                          /\ 2 * left + 2 < TickMod
                          /\ pc = "idle" \/ s < k => left >= 0
    /\ handler = "eth" \/ pc = "eth" => left <= 0

TimerInv == TypeOK /\ ControlInv /\ CountInv /\ ScanInv /\ EthPollKept /\ TimeInv

LEMMA InitTimerInv == Init => TimerInv
<1> SUFFICES ASSUME Init
             PROVE  TimerInv
  OBVIOUS
<1> USE KernelTimerConstants DEF Init, EmptySlot, None, Slots
<1>1. TypeOK
  <2>1. 0 \in 0 .. TickMod - 1 /\ 1 \in 1 .. NumSlots + 1
    <3>1. Cardinality(Hids) \in Nat
      BY FS_CardinalityType
    <3> QED BY <3>1
  <2>2. slots \in [Slots -> [handler : {None, "eth", "hid"}, elapses : 0 .. TickMod - 1,
                              param : Hids \cup {None}]]
    BY <2>1
  <2>3. initialized \in BOOLEAN /\ main \in BOOLEAN
    OBVIOUS
  <2>4. hid \in [Hids -> {"busy", "delay"}]
    OBVIOUS
  <2>5. k \in 1 .. NumSlots + 1 /\ n \in 1 .. NumSlots + 1 /\ ticks \in 0 .. TickMod - 1
    BY <2>1
  <2>6. left \in Int /\ left >= -1
    OBVIOUS
  <2>7. handler \in {None, "eth", "hid"} /\ arg \in Hids \cup {None}
    OBVIOUS
  <2>8. pc = "boot"
    OBVIOUS
  <2> HIDE DEF Init
  <2> QED BY <2>2, <2>3, <2>4, <2>5, <2>6, <2>7, <2>8 DEF TypeOK
<1>2. ControlInv
  BY DEF ControlInv, Pending
<1>3. CountInv
  <2>1. HidTimers = {} /\ Busy = Hids /\ Held = 0
    BY DEF HidTimers, Busy, Held
  <2>2. Cardinality(Hids) \in Nat
    BY FS_CardinalityType
  <2>3. Cardinality({}) = 0
    BY FS_EmptySet
  <2> QED BY <2>1, <2>2, <2>3 DEF CountInv
<1>4. ScanInv /\ EthPollKept /\ TimeInv
  BY DEF ScanInv, EthPollKept, TimeInv, Pending
<1> QED BY <1>1, <1>2, <1>3, <1>4 DEF TimerInv

-----------------------------------------------------------------------------
(* The table.                                                              *)

(* The sets that are counted are finite.                                   *)
LEMMA Counted ==
    /\ IsFiniteSet(Slots) /\ Cardinality(Slots) = NumSlots
    /\ IsFiniteSet(HidTimers) /\ Cardinality(HidTimers) \in Nat
    /\ IsFiniteSet(Busy) /\ Cardinality(Busy) \in Nat
    /\ Cardinality(Hids) \in Nat
<1> USE KernelTimerConstants
<1>1. IsFiniteSet(Slots) /\ Cardinality(Slots) = NumSlots
  BY FS_Interval DEF Slots
<1>2. HidTimers \in SUBSET Slots /\ Busy \in SUBSET Hids
  BY DEF HidTimers, Busy
<1>3. IsFiniteSet(HidTimers) /\ IsFiniteSet(Busy)
  BY <1>1, <1>2, FS_Subset
<1> QED BY <1>1, <1>3, FS_CardinalityType

(* What TimerStartKernelTimer does when nothing comes between and there is *)
(* a free slot: it fills in the first one.                                 *)
LEMMA StartedForShape ==
    ASSUME \E s \in Slots : Free(s), NEW h, NEW d
    PROVE  \E s \in Slots :
             /\ Free(s)
             /\ StartedFor(h, d) =
                  [slots EXCEPT ![s] = [handler |-> "hid", elapses |-> (ticks + d) % TickMod,
                                        param |-> h]]
<1> DEFINE F == {s \in Slots : Free(s)}
           m == CHOOSE s \in Slots : Free(s) /\ \A f \in Slots : Free(f) => s <= f
<1>1. F \in SUBSET Nat /\ F # {}
  BY KernelTimerConstants DEF Slots
<1>2. \E s \in F : \A f \in F : s <= f
  BY <1>1, LeastMember
<1>3. m \in Slots /\ Free(m)
  BY <1>2
<1> QED BY <1>3 DEF StartedFor

(* While the poll's timer is in hand, a table without a free slot would    *)
(* hold more timers of devices than there are devices.                     *)
LEMMA FreeWhileInHand ==
    ASSUME TimerInv, Pending = {}
    PROVE  \E s \in Slots : Free(s)
<1> SUFFICES ASSUME \A s \in Slots : ~Free(s)
             PROVE  FALSE
  OBVIOUS
<1>1. HidTimers = Slots
  BY DEF TimerInv, TypeOK, HidTimers, Pending, Free
<1>2. Cardinality(HidTimers) <= Cardinality(Hids)
  BY Counted DEF TimerInv, CountInv, Held
<1> QED BY <1>1, <1>2, Counted, KernelTimerConstants

(* A device that is busy finds a free slot for its timer.                  *)
LEMMA FreeForBusy ==
    ASSUME TimerInv, NEW h \in Hids, hid[h] = "busy"
    PROVE  \E s \in Slots : Free(s)
<1> SUFFICES ASSUME \A s \in Slots : ~Free(s)
             PROVE  FALSE
  OBVIOUS
<1>1. Slots = HidTimers \cup Pending
  BY DEF TimerInv, TypeOK, HidTimers, Pending, Free
<1>2. Cardinality(Slots) <= Cardinality(HidTimers) + 1
  <2>1. CASE Pending = {}
    BY <1>1, <2>1, Counted
  <2>2. CASE \E s \in Slots : Pending = {s}
    BY <1>1, <2>2, Counted, FS_AddElement
  <2> QED BY <2>1, <2>2 DEF TimerInv, EthPollKept
<1>3. Cardinality(Busy) >= 1
  <2>1. Busy # {}
    BY DEF Busy
  <2> QED BY <2>1, Counted, FS_EmptySet
<1>4. Cardinality(HidTimers) + 1 <= Cardinality(Hids)
  BY <1>3, Counted DEF TimerInv, CountInv, Held
<1> QED BY <1>2, <1>4, Counted, KernelTimerConstants

-----------------------------------------------------------------------------
(* The steps.                                                              *)

(* A step that leaves the table and the devices alone, and holds as many   *)
(* of the devices' timers as before.                                       *)
LEMMA CountKept ==
    ASSUME CountInv, UNCHANGED <<slots, hid>>, Held' = Held
    PROVE  CountInv'
<1>1. HidTimers' = HidTimers /\ Busy' = Busy
  BY DEF HidTimers, Busy
<1> QED BY <1>1 DEF CountInv

(* The FIQ: whatever the base context is doing, a device's new timer goes  *)
(* to a free slot.                                                         *)
LEMMA DelayInv ==
    ASSUME TimerInv, NEW h \in Hids, Delay(h)
    PROVE  TimerInv'
<1> USE KernelTimerConstants
<1>1. PICK d \in HidDelays : slots' = StartedFor(h, d)
  BY DEF Delay
<1>2. d \in Nat
  OBVIOUS
<1>3. PICK s \in Slots :
         /\ Free(s)
         /\ slots' = [slots EXCEPT ![s] = [handler |-> "hid", elapses |-> (ticks + d) % TickMod,
                                           param |-> h]]
  <2>1. \E f \in Slots : Free(f)
    BY FreeForBusy DEF Delay
  <2> QED BY <1>1, <2>1, StartedForShape
<1>4. (ticks + d) % TickMod \in 0 .. TickMod - 1
  BY <1>2, ModCases DEF TimerInv, TypeOK
<1>5. TypeOK'
  <2>1. slots' \in [Slots -> [handler : {None, "eth", "hid"}, elapses : 0 .. TickMod - 1,
                              param : Hids \cup {None}]]
    BY <1>3, <1>4 DEF TimerInv, TypeOK
  <2>2. hid' \in [Hids -> {"busy", "delay"}]
    BY DEF Delay, TimerInv, TypeOK
  <2> QED BY <2>1, <2>2 DEF Delay, TimerInv, TypeOK
<1>6. Pending' = Pending
  BY <1>3 DEF Pending, Free, None, TimerInv, TypeOK
<1>7. ControlInv'
  <2>1. \A t \in Slots : slots[t].param \in Hids => slots'[t].param \in Hids
    BY <1>3 DEF TimerInv, TypeOK
  <2>2. \A t \in Slots : slots'[t].handler = "hid" => slots'[t].param \in Hids
    BY <1>3 DEF TimerInv, TypeOK, ControlInv
  <2>3. handler = "hid" => slots'[k].param \in Hids
    BY <2>1 DEF TimerInv, ControlInv, None
  <2> QED BY <1>6, <2>2, <2>3 DEF Delay, TimerInv, ControlInv
<1>8. CountInv'
  <2>1. HidTimers' = HidTimers \cup {s} /\ s \notin HidTimers
    BY <1>3 DEF HidTimers, Free, None, TimerInv, TypeOK
  <2>2. Busy' = Busy \ {h} /\ h \in Busy
    BY DEF Delay, Busy, TimerInv, TypeOK
  <2>3. Cardinality(HidTimers') = Cardinality(HidTimers) + 1
    BY <2>1, Counted, FS_AddElement
  <2>4. Cardinality(Busy') = Cardinality(Busy) - 1
    BY <2>2, Counted, FS_RemoveElement
  <2>5. Held' = Held /\ Held \in Nat
    BY DEF Held, Delay
  <2> QED BY <2>3, <2>4, <2>5, Counted DEF CountInv, TimerInv
<1>9. ScanInv'
  <2>1. \A t \in Slots : ~Free(t) => ~Free(t)'
    BY <1>3 DEF Free, None, TimerInv, TypeOK
  <2> QED BY <2>1 DEF Delay, TimerInv, ScanInv
<1>10. EthPollKept'
  BY <1>6 DEF Delay, TimerInv, EthPollKept, InHand
<1>11. TimeInv'
  <2>1. \A t \in Pending : slots'[t] = slots[t]
    BY <1>3 DEF Pending, Free, None, TimerInv, TypeOK
  <2> QED BY <1>6, <2>1 DEF Delay, TimerInv, TimeInv
<1> QED BY <1>5, <1>7, <1>8, <1>9, <1>10, <1>11 DEF TimerInv

(* Timer3: the network poll comes one tick nearer.                         *)
LEMMA TickInv ==
    ASSUME TimerInv, Tick
    PROVE  TimerInv'
<1> USE KernelTimerConstants
<1>1. pc = "idle" /\ pc' = "poll" /\ UNCHANGED <<slots, initialized, hid, k, n, handler, arg, main>>
  BY DEF Tick, Goto
<1>2. ticks' = (ticks + 1) % TickMod /\ ticks' \in 0 .. TickMod - 1
  BY ModCases DEF Tick, TimerInv, TypeOK
<1>3. Pending' = Pending /\ k = 1
  BY <1>1 DEF Pending, TimerInv, ControlInv
<1>4. TypeOK'
  <2>1. left' \in Int /\ left' >= -1
    BY DEF Tick, TimerInv, TypeOK
  <2> QED BY <1>1, <1>2, <2>1 DEF TimerInv, TypeOK
<1>5. ControlInv' /\ ScanInv'
  BY <1>1, <1>3 DEF TimerInv, ControlInv, ScanInv
<1>6. CountInv'
  BY <1>1, CountKept DEF TimerInv, Held
<1>7. EthPollKept'
  BY <1>1, <1>3 DEF TimerInv, EthPollKept, InHand
<1>8. TimeInv'
  <2>1. ASSUME NEW s \in Pending
        PROVE  /\ slots'[s].elapses = (ticks' + left') % TickMod
               /\ 2 * left' + 2 < TickMod
               /\ ~(s < k')
    <3>1. left >= 0 /\ 2 * left + 2 < TickMod /\ slots[s].elapses = (ticks + left) % TickMod
      BY <1>1 DEF TimerInv, TimeInv
    <3>2. left \in Int /\ ticks \in 0 .. TickMod - 1
      BY DEF TimerInv, TypeOK
    <3>3. left' = left - 1
      BY <3>1, <3>2 DEF Tick
    <3>4. (ticks' + left') % TickMod = (ticks + left) % TickMod
      BY <1>2, <3>1, <3>2, <3>3, TickNearer
    <3>5. ~(s < 1)
      BY DEF Pending, Slots
    <3> QED BY <1>1, <1>3, <3>1, <3>2, <3>3, <3>4, <3>5
  <2>2. ~(handler' = "eth" \/ pc' = "eth")
    BY <1>1 DEF TimerInv, ControlInv, None
  <2> QED BY <1>1, <1>3, <2>1, <2>2 DEF TimeInv
<1> QED BY <1>4, <1>5, <1>6, <1>7, <1>8 DEF TimerInv

(* The steps of the poll between two slots.                                *)
LEMMA PollSkipsInv ==
    ASSUME TimerInv, PollSkips
    PROVE  TimerInv'
<1> USE KernelTimerConstants
<1>1. /\ pc = "poll" /\ pc' = "poll" /\ k \in Slots /\ k' = k + 1
      /\ UNCHANGED <<slots, ticks, initialized, hid, n, handler, arg, main, left>>
  BY DEF PollSkips, Goto
<1>2. Pending' = Pending
  BY <1>1 DEF Pending
<1>3. TypeOK'
  <2>1. k' \in 1 .. NumSlots + 1
    BY <1>1 DEF Slots
  <2> QED BY <1>1, <2>1 DEF TimerInv, TypeOK
<1>4. handler = None /\ ~main
  BY <1>1 DEF TimerInv, ControlInv
<1>5. ControlInv' /\ ScanInv'
  BY <1>1, <1>4 DEF TimerInv, ControlInv, ScanInv, None
<1>6. CountInv'
  BY <1>1, CountKept DEF TimerInv, Held
<1>7. EthPollKept'
  BY <1>1, <1>2 DEF TimerInv, EthPollKept, InHand
<1>8. TimeInv'
  <2>1. ASSUME NEW s \in Pending, s < k'
        PROVE  left >= 0
    <3>1. CASE s < k
      BY <3>1 DEF TimerInv, TimeInv
    <3>2. CASE s = k
      <4>1. slots[s].elapses = (ticks + left) % TickMod /\ 2 * left + 2 < TickMod
        BY DEF TimerInv, TimeInv
      <4>2. left \in Int /\ left >= -1 /\ ticks \in 0 .. TickMod - 1
        BY DEF TimerInv, TypeOK
      <4>3. ~Elapsed(k)
        BY <3>2 DEF PollSkips, Free, Pending, None
      <4>4. Elapsed(k) <=> left <= 0
        BY <3>2, <4>1, <4>2, DiffIsLeft DEF Elapsed
      <4> QED BY <4>2, <4>3, <4>4
    <3> QED BY <1>1, <2>1, <3>1, <3>2 DEF Pending, Slots
  <2> QED BY <1>1, <1>2, <2>1 DEF TimerInv, TimeInv
<1> QED BY <1>3, <1>5, <1>6, <1>7, <1>8 DEF TimerInv

LEMMA PollTakesInv ==
    ASSUME TimerInv, PollTakes
    PROVE  TimerInv'
<1> USE KernelTimerConstants
<1>1. /\ pc = "poll" /\ pc' = "param" /\ k \in Slots /\ ~Free(k) /\ Elapsed(k)
      /\ handler' = slots[k].handler /\ slots' = [slots EXCEPT ![k].handler = None]
      /\ UNCHANGED <<ticks, initialized, hid, k, n, arg, main, left>>
  BY DEF PollTakes, Goto
<1>2. slots \in [Slots -> [handler : {None, "eth", "hid"}, elapses : 0 .. TickMod - 1,
                           param : Hids \cup {None}]]
  BY DEF TimerInv, TypeOK
<1>3. /\ \A s \in Slots : s # k => slots'[s] = slots[s]
      /\ slots'[k].handler = None /\ slots'[k].param = slots[k].param
      /\ slots'[k].elapses = slots[k].elapses
  BY <1>1, <1>2
<1>4. handler' \in {"eth", "hid"} /\ handler = None /\ ~main
  BY <1>1, <1>2 DEF Free, TimerInv, ControlInv
<1>5. TypeOK'
  <2>1. slots' \in [Slots -> [handler : {None, "eth", "hid"}, elapses : 0 .. TickMod - 1,
                              param : Hids \cup {None}]]
    BY <1>1, <1>2
  <2> QED BY <1>1, <1>4, <2>1 DEF TimerInv, TypeOK
<1>6. Pending' = Pending \ {k}
  BY <1>1, <1>3 DEF Pending, None
<1>7. ControlInv'
  <2>1. \A s \in Slots : slots'[s].handler = "hid" => slots'[s].param \in Hids
    BY <1>3 DEF None, TimerInv, ControlInv
  <2>2. handler' = "hid" => slots'[k].param \in Hids
    BY <1>1, <1>3 DEF TimerInv, ControlInv
  <2> QED BY <1>1, <1>4, <1>6, <2>1, <2>2 DEF TimerInv, ControlInv, None
<1>8. CountInv'
  <2>1. HidTimers' = HidTimers \ {k}
    BY <1>1, <1>3 DEF HidTimers, None
  <2>2. Busy' = Busy /\ Held = 0
    BY <1>1, <1>4 DEF Busy, Held, None
  <2>3. CASE handler' = "hid"
    <3>1. k \in HidTimers /\ Held' = 1
      BY <1>1, <2>3 DEF HidTimers, Held
    <3>2. Cardinality(HidTimers') = Cardinality(HidTimers) - 1
      BY <2>1, <3>1, Counted, FS_RemoveElement
    <3> QED BY <2>2, <3>1, <3>2, Counted DEF CountInv, TimerInv
  <2>4. CASE handler' = "eth"
    <3>1. HidTimers' = HidTimers /\ Held' = 0
      BY <1>1, <2>1, <2>4 DEF HidTimers, Held
    <3> QED BY <2>2, <3>1 DEF CountInv, TimerInv
  <2> QED BY <1>4, <2>3, <2>4
<1>9. ScanInv'
  BY <1>1 DEF ScanInv
<1>10. EthPollKept'
  <2>1. PICK s \in Slots : Pending = {s}
    BY <1>1, <1>4 DEF TimerInv, EthPollKept, InHand, None
  <2>2. handler' = "eth" <=> s = k
    BY <1>1, <2>1 DEF Pending
  <2>3. Pending' = IF s = k THEN {} ELSE {s}
    BY <1>6, <2>1
  <2> QED BY <1>1, <2>2, <2>3 DEF EthPollKept, InHand
<1>11. TimeInv'
  <2>1. \A s \in Pending' : s \in Pending /\ slots'[s].elapses = slots[s].elapses
    BY <1>3, <1>6 DEF Pending
  <2>2. ASSUME handler' = "eth"
        PROVE  left <= 0
    <3>1. slots[k].elapses = (ticks + left) % TickMod /\ 2 * left + 2 < TickMod
      BY <1>1, <2>2 DEF TimerInv, TimeInv, Pending
    <3>2. left \in Int /\ left >= -1 /\ ticks \in 0 .. TickMod - 1
      BY DEF TimerInv, TypeOK
    <3> QED BY <1>1, <3>1, <3>2, DiffIsLeft DEF Elapsed
  <2> QED BY <1>1, <2>1, <2>2 DEF TimerInv, TimeInv
<1> QED BY <1>5, <1>7, <1>8, <1>9, <1>10, <1>11 DEF TimerInv

LEMMA LoadParamInv ==
    ASSUME TimerInv, LoadParam
    PROVE  TimerInv'
<1> USE KernelTimerConstants
<1>1. /\ pc = "param" /\ pc' = (IF handler = "eth" THEN "eth" ELSE "restart")
      /\ arg' = (IF handler = "eth" THEN None ELSE slots[k].param) /\ handler' = None
      /\ UNCHANGED <<slots, ticks, initialized, hid, k, n, main, left>>
  BY DEF LoadParam, Goto
<1>2. handler \in {"eth", "hid"} /\ ~main /\ k \in Slots
  BY <1>1 DEF TimerInv, TypeOK, ControlInv
<1>3. Pending' = Pending
  BY <1>1 DEF Pending
<1>4. arg' \in Hids \cup {None} /\ (handler = "hid" => arg' \in Hids)
  BY <1>1, <1>2 DEF TimerInv, ControlInv
<1>5. TypeOK'
  BY <1>1, <1>2, <1>4 DEF TimerInv, TypeOK
<1>6. ControlInv' /\ ScanInv'
  BY <1>1, <1>2, <1>3 DEF TimerInv, ControlInv, ScanInv, None
<1>7. CountInv'
  BY <1>1, <1>2, CountKept DEF TimerInv, Held, None
<1>8. EthPollKept'
  BY <1>1, <1>2, <1>3 DEF TimerInv, EthPollKept, InHand, None
<1>9. TimeInv'
  BY <1>1, <1>2, <1>3 DEF TimerInv, TimeInv, None
<1> QED BY <1>5, <1>6, <1>7, <1>8, <1>9 DEF TimerInv

(* The restarted request need not be the one whose timer fired: the count  *)
(* holds also when the device of the parameter is busy already.            *)
LEMMA RestartInv ==
    ASSUME TimerInv, Restart
    PROVE  TimerInv'
<1> USE KernelTimerConstants
<1>1. /\ pc = "restart" /\ pc' = "poll" /\ arg' = None /\ k' = k + 1
      /\ hid' = [hid EXCEPT ![arg] = "busy"]
      /\ UNCHANGED <<slots, ticks, initialized, n, handler, main, left>>
  BY DEF Restart, Goto
<1>2. arg \in Hids /\ k \in Slots /\ handler = None /\ ~main
  BY <1>1 DEF TimerInv, TypeOK, ControlInv
<1>3. Pending' = Pending
  BY <1>1 DEF Pending
<1>4. TypeOK'
  <2>1. k' \in 1 .. NumSlots + 1
    BY <1>1, <1>2 DEF Slots
  <2>2. hid' \in [Hids -> {"busy", "delay"}]
    BY <1>1 DEF TimerInv, TypeOK
  <2> QED BY <1>1, <2>1, <2>2 DEF TimerInv, TypeOK
<1>5. ControlInv' /\ ScanInv'
  BY <1>1, <1>2 DEF TimerInv, ControlInv, ScanInv, None
<1>6. CountInv'
  <2>1. Busy' = Busy \cup {arg}
    BY <1>1, <1>2 DEF Busy, TimerInv, TypeOK
  <2>2. Cardinality(Busy') = IF arg \in Busy THEN Cardinality(Busy) ELSE Cardinality(Busy) + 1
    <3>1. IsFiniteSet(Busy)
      BY Counted
    <3> QED BY <2>1, <3>1, FS_AddElement
  <2>3. Cardinality(Busy') <= Cardinality(Busy) + 1 /\ Cardinality(Busy') \in Nat
    BY <2>2, Counted
  <2>4. HidTimers' = HidTimers /\ Held = 1 /\ Held' = 0
    BY <1>1, <1>2 DEF HidTimers, Held, None
  <2> QED BY <2>3, <2>4, Counted DEF CountInv, TimerInv
<1>7. EthPollKept'
  BY <1>1, <1>3 DEF TimerInv, EthPollKept, InHand
<1>8. TimeInv'
  <2>1. \A s \in Pending : s < k + 1 => s < k
    BY <1>1, <1>2 DEF TimerInv, ControlInv, Pending, Slots
  <2> QED BY <1>1, <1>3, <2>1 DEF TimerInv, TimeInv
<1> QED BY <1>4, <1>5, <1>6, <1>7, <1>8 DEF TimerInv

LEMMA PollDoneInv ==
    ASSUME TimerInv, PollDone
    PROVE  TimerInv'
<1> USE KernelTimerConstants
<1>1. /\ pc = "poll" /\ pc' = "idle" /\ k \notin Slots /\ k' = 1
      /\ UNCHANGED <<slots, ticks, initialized, hid, n, handler, arg, main, left>>
  BY DEF PollDone, Goto
<1>2. handler = None /\ ~main
  BY <1>1 DEF TimerInv, ControlInv
<1>3. Pending' = Pending
  BY <1>1 DEF Pending
<1>4. TypeOK'
  <2>1. k' \in 1 .. NumSlots + 1
    BY <1>1
  <2> QED BY <1>1, <2>1 DEF TimerInv, TypeOK
<1>5. ControlInv' /\ ScanInv'
  BY <1>1, <1>2 DEF TimerInv, ControlInv, ScanInv, None
<1>6. CountInv'
  BY <1>1, CountKept DEF TimerInv, Held
<1>7. EthPollKept'
  BY <1>1, <1>3 DEF TimerInv, EthPollKept, InHand
<1>8. TimeInv'
  <2>1. \A s \in Pending : s < k
    BY <1>1 DEF Pending, Slots, TimerInv, TypeOK
  <2> QED BY <1>1, <1>3, <2>1 DEF TimerInv, TimeInv
<1> QED BY <1>4, <1>5, <1>6, <1>7, <1>8 DEF TimerInv

-----------------------------------------------------------------------------
(* The network poll asks for its next timer.                               *)

LEMMA StartsScanInv ==
    ASSUME TimerInv, MainStarts \/ PollEthernet
    PROVE  TimerInv'
<1> USE KernelTimerConstants
<1>1. /\ pc \in {"boot", "eth"} /\ pc' = "scan" /\ (pc = "boot" => main') /\ (pc = "eth" => main' = main)
      /\ initialized' \in BOOLEAN /\ main' \in BOOLEAN
      /\ UNCHANGED <<slots, ticks, hid, k, n, handler, arg, left>>
  BY DEF MainStarts, PollEthernet, Goto, TimerInv, TypeOK
<1>2. handler = None /\ n = 1
  BY <1>1 DEF TimerInv, ControlInv
<1>3. Pending' = Pending /\ Pending = {}
  BY <1>1 DEF Pending, TimerInv, EthPollKept, InHand
<1>4. TypeOK'
  <2>1. 1 \in Slots
    <3>1. NumSlots > 0
      BY Counted
    <3> QED BY <3>1 DEF Slots
  <2> QED BY <1>1, <1>2, <2>1 DEF TimerInv, TypeOK
<1>5. ControlInv'
  BY <1>1, <1>2 DEF TimerInv, ControlInv, None
<1>6. ScanInv'
  <2>1. \A s \in Slots : ~(s < 1)
    BY DEF Slots
  <2> QED BY <1>1, <1>2, <2>1 DEF ScanInv
<1>7. CountInv'
  BY <1>1, CountKept DEF TimerInv, Held
<1>8. EthPollKept' /\ TimeInv'
  BY <1>1, <1>2, <1>3 DEF EthPollKept, InHand, TimeInv, None
<1> QED BY <1>4, <1>5, <1>6, <1>7, <1>8 DEF TimerInv

(* The scan finds a free slot before it leaves the table: the slots that   *)
(* it has passed stay in use, and there is always a free one.              *)
LEMMA ScanSlotInv ==
    ASSUME TimerInv, ScanSlot
    PROVE  TimerInv'
<1> USE KernelTimerConstants
<1>1. /\ pc = "scan" /\ pc' = (IF Free(n) \/ n = NumSlots THEN "store" ELSE "scan")
      /\ n' = (IF Free(n) THEN n ELSE n + 1)
      /\ UNCHANGED <<slots, ticks, initialized, hid, k, handler, arg, main, left>>
  BY DEF ScanSlot, Goto
<1>2. handler = None /\ n \in Slots
  BY <1>1 DEF TimerInv, ControlInv, TypeOK
<1>3. Pending' = Pending /\ Pending = {}
  BY <1>1 DEF Pending, TimerInv, EthPollKept, InHand
<1>4. ~Free(n) => n # NumSlots
  <2>1. PICK s \in Slots : Free(s)
    BY <1>3, FreeWhileInHand
  <2>2. ~(s < n)
    BY <1>1, <2>1 DEF TimerInv, ScanInv
  <2> QED BY <1>2, <2>1, <2>2 DEF Slots
<1>5. n' \in Slots
  BY <1>1, <1>2, <1>4 DEF Slots
<1>6. TypeOK'
  BY <1>1, <1>5 DEF TimerInv, TypeOK, Slots
<1>7. ControlInv'
  BY <1>1, <1>2 DEF TimerInv, ControlInv, None
<1>8. ScanInv'
  <2>1. ASSUME NEW s \in Slots, pc' = "scan", s < n'
        PROVE  ~Free(s)
    <3>1. ~Free(n) /\ n' = n + 1
      BY <1>1, <2>1
    <3>2. s < n \/ s = n
      BY <1>2, <2>1, <3>1 DEF Slots
    <3> QED BY <1>1, <3>1, <3>2 DEF TimerInv, ScanInv
  <2> QED BY <1>1, <1>5, <2>1 DEF ScanInv, Free
<1>9. CountInv'
  BY <1>1, CountKept DEF TimerInv, Held
<1>10. EthPollKept' /\ TimeInv'
  BY <1>1, <1>2, <1>3 DEF EthPollKept, InHand, TimeInv, None
<1> QED BY <1>6, <1>7, <1>8, <1>9, <1>10 DEF TimerInv

(* The store may overwrite the timer that an FIQ has put into the slot     *)
(* after the test: that device's timer is lost, the network poll's is not. *)
LEMMA StoreTimerInv ==
    ASSUME TimerInv, StoreTimer
    PROVE  TimerInv'
<1> USE KernelTimerConstants
<1>1. /\ pc = "store" /\ pc' = (IF main THEN "idle" ELSE "poll")
      /\ k' = (IF main THEN k ELSE k + 1) /\ n' = 1 /\ main' = FALSE
      /\ UNCHANGED <<ticks, initialized, hid, handler, arg>>
  BY DEF StoreTimer, Goto
<1>2. handler = None /\ n \in Slots /\ (main => k = 1) /\ (~main => k \in Slots)
  BY <1>1 DEF TimerInv, ControlInv, ScanInv
<1>3. PICK d \in EthDelays :
         /\ slots' = [slots EXCEPT ![n] = [handler |-> "eth", elapses |-> (ticks + d) % TickMod,
                                           param |-> None]]
         /\ left' = d
  BY <1>2 DEF StoreTimer
<1>4. d \in Nat /\ 2 * d + 2 < TickMod
  OBVIOUS
<1>5. (ticks + d) % TickMod \in 0 .. TickMod - 1
  BY <1>4, ModCases DEF TimerInv, TypeOK
<1>6. slots \in [Slots -> [handler : {None, "eth", "hid"}, elapses : 0 .. TickMod - 1,
                           param : Hids \cup {None}]]
  BY DEF TimerInv, TypeOK
<1>7. /\ slots'[n].handler = "eth" /\ slots'[n].elapses = (ticks + d) % TickMod
      /\ \A s \in Slots : s # n => slots'[s] = slots[s]
  BY <1>2, <1>3, <1>6
<1>8. Pending' = {n}
  <2>1. Pending = {}
    BY <1>1 DEF TimerInv, EthPollKept, InHand
  <2> QED BY <1>2, <1>7, <2>1 DEF Pending
<1>9. TypeOK'
  <2>1. slots' \in [Slots -> [handler : {None, "eth", "hid"}, elapses : 0 .. TickMod - 1,
                              param : Hids \cup {None}]]
    BY <1>3, <1>5, <1>6
  <2>2. n' \in 1 .. NumSlots + 1 /\ k' \in 1 .. NumSlots + 1
    BY <1>1, <1>2 DEF Slots
  <2>3. left' \in Int /\ left' >= -1
    BY <1>3, <1>4
  <2> QED BY <1>1, <2>1, <2>2, <2>3 DEF TimerInv, TypeOK
<1>10. ControlInv'
  <2>1. \A s \in Slots : slots'[s].handler = "hid" => slots'[s].param \in Hids
    BY <1>7 DEF TimerInv, ControlInv
  <2> QED BY <1>1, <1>2, <2>1 DEF ControlInv, None
<1>11. CountInv'
  <2>1. HidTimers' = HidTimers \ {n}
    BY <1>2, <1>7 DEF HidTimers
  <2>2. Cardinality(HidTimers') = IF n \in HidTimers THEN Cardinality(HidTimers) - 1
                                  ELSE Cardinality(HidTimers)
    <3>1. IsFiniteSet(HidTimers)
      BY Counted
    <3> QED BY <2>1, <3>1, FS_RemoveElement
  <2>3. Busy' = Busy /\ Held' = 0 /\ Held = 0
    BY <1>1, <1>2 DEF Busy, Held, None
  <2> QED BY <2>2, <2>3, Counted DEF CountInv, TimerInv
<1>12. ScanInv'
  BY <1>1 DEF ScanInv
<1>13. EthPollKept'
  BY <1>1, <1>2, <1>8 DEF EthPollKept, InHand, None
<1>14. TimeInv'
  BY <1>1, <1>2, <1>3, <1>4, <1>7, <1>8 DEF TimeInv, None
<1> QED BY <1>9, <1>10, <1>11, <1>12, <1>13, <1>14 DEF TimerInv

LEMMA TimerInvStep == TimerInv /\ [Next]_vars => TimerInv'
<1> SUFFICES ASSUME TimerInv, [Next]_vars
             PROVE  TimerInv'
  OBVIOUS
<1>1. CASE BaseStep
  BY <1>1, StartsScanInv, PollSkipsInv, PollTakesInv, LoadParamInv, RestartInv, ScanSlotInv,
     StoreTimerInv, PollDoneInv DEF BaseStep
<1>2. CASE Tick
  BY <1>2, TickInv
<1>3. CASE \E h \in Hids : Delay(h)
  BY <1>3, DelayInv
<1>4. CASE UNCHANGED vars
  BY <1>4 DEF vars, TimerInv, TypeOK, ControlInv, CountInv, ScanInv, EthPollKept, TimeInv,
              HidTimers, Busy, Held, Free, Pending, InHand
<1> QED BY <1>1, <1>2, <1>3, <1>4 DEF Next

-----------------------------------------------------------------------------
(* The theorems.                                                           *)

THEOREM TimerInvHolds == Spec => []TimerInv
  BY InitTimerInv, TimerInvStep, PTL DEF Spec

(* The network poll has exactly one timer, or is being called: a device    *)
(* that starts a timer in an FIQ, between any two accesses that timer.c    *)
(* makes to m_KernelTimer, neither loses it nor doubles it.                *)
THEOREM PollKept == Spec => []EthPollKept
<1>1. TimerInv => EthPollKept
  BY DEF TimerInv
<1> QED BY <1>1, TimerInvHolds, PTL

(* The signed comparison of m_nElapsesAt with m_nTicks lets the network    *)
(* poll come when it was asked for and not before, wherever the counter    *)
(* wraps.                                                                  *)
THEOREM PollOnTime == Spec => []EthOnTime
<1>1. TimerInv => EthOnTime
  <2> SUFFICES ASSUME TimerInv
               PROVE  EthOnTime
    OBVIOUS
  <2>1. left \in Int /\ left >= -1
    BY DEF TimerInv, TypeOK
  <2> QED BY <2>1 DEF TimerInv, TimeInv, EthOnTime
<1> QED BY <1>1, TimerInvHolds, PTL

(* The table has room for every timer that is started, by poll_ethernet or *)
(* for a device, so the results that nobody tests are never a failure.     *)
THEOREM TableHasRoom == Spec => []TimersFit
<1>1. TimerInv => TimersFit
  <2> SUFFICES ASSUME TimerInv
               PROVE  TimersFit
    OBVIOUS
  <2>1. pc = "store" => n \in Slots
    BY DEF TimerInv, ScanInv
  <2> QED BY <2>1, FreeForBusy DEF TimersFit
<1> QED BY <1>1, TimerInvHolds, PTL
=============================================================================
