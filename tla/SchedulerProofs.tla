--------------------------- MODULE SchedulerProofs ---------------------------
(***************************************************************************)
(* Proofs about Scheduler, for every number of cores, tasks, stacks and    *)
(* every set of reset values that holds no pid.                            *)
(***************************************************************************)
EXTENDS Scheduler, SequenceTheorems, FiniteSetTheorems, TLAPS

USE DEF Pids

-----------------------------------------------------------------------------
(* The deque as a sequence.                                                *)

(* remove(i) and push_back keep the length and move the i-th task behind   *)
(* the ones that followed it.                                              *)
LEMMA MoveToBackIndex ==
    ASSUME NEW S, NEW q \in Seq(S), NEW i \in 1 .. Len(q)
    PROVE  /\ MoveToBack(q, i) \in Seq(S)
           /\ Len(MoveToBack(q, i)) = Len(q)
           /\ \A k \in 1 .. Len(q) :
                 MoveToBack(q, i)[k] =
                    IF k < i THEN q[k] ELSE IF k < Len(q) THEN q[k + 1] ELSE q[i]
<1> DEFINE a == SubSeq(q, 1, i - 1)
           b == SubSeq(q, i + 1, Len(q))
<1>1. a \in Seq(S) /\ Len(a) = i - 1 /\ \A k \in 1 .. i - 1 : a[k] = q[k]
  OBVIOUS
<1>2. b \in Seq(S) /\ Len(b) = Len(q) - i /\ \A k \in 1 .. Len(q) - i : b[k] = q[k + i]
  OBVIOUS
<1>3. <<q[i]>> \in Seq(S) /\ Len(<<q[i]>>) = 1 /\ <<q[i]>>[1] = q[i]
  OBVIOUS
<1> HIDE DEF a, b
<1>4. /\ a \o b \in Seq(S)
      /\ Len(a \o b) = Len(q) - 1
      /\ \A k \in 1 .. Len(q) - 1 : (a \o b)[k] = IF k < i THEN q[k] ELSE q[k + 1]
  <2>1. /\ a \o b \in Seq(S)
        /\ Len(a \o b) = Len(a) + Len(b)
        /\ \A k \in 1 .. Len(a) + Len(b) :
              (a \o b)[k] = IF k <= Len(a) THEN a[k] ELSE b[k - Len(a)]
    BY <1>1, <1>2, ConcatProperties
  <2>2. Len(a) + Len(b) = Len(q) - 1
    BY <1>1, <1>2
  <2>3. ASSUME NEW k \in 1 .. Len(q) - 1
        PROVE  (a \o b)[k] = IF k < i THEN q[k] ELSE q[k + 1]
    <3>1. CASE k < i
      BY <1>1, <2>1, <2>2, <3>1
    <3>2. CASE ~(k < i)
      <4>1. k - (i - 1) \in 1 .. Len(q) - i /\ (k - (i - 1)) + i = k + 1
        BY <3>2
      <4>2. b[k - (i - 1)] = q[k + 1]
        BY <1>2, <4>1
      <4>3. Len(a) = i - 1 /\ ~(k <= Len(a))
        BY <1>1, <3>2
      <4>4. (a \o b)[k] = b[k - Len(a)]
        BY <2>1, <2>2, <4>3
      <4> QED BY <3>2, <4>2, <4>3, <4>4
    <3> QED BY <3>1, <3>2
  <2> QED BY <2>1, <2>2, <2>3
<1>5. MoveToBack(q, i) = (a \o b) \o <<q[i]>>
  BY DEF MoveToBack, a, b
<1> HIDE DEF MoveToBack
<1>6. /\ (a \o b) \o <<q[i]>> \in Seq(S)
      /\ Len((a \o b) \o <<q[i]>>) = Len(q)
      /\ \A k \in 1 .. Len(q) : ((a \o b) \o <<q[i]>>)[k] =
            IF k <= Len(q) - 1 THEN (a \o b)[k] ELSE q[i]
  BY <1>3, <1>4, ConcatProperties
<1> QED
  BY <1>4, <1>5, <1>6

(* Taking i - 1 tasks from the front to the end keeps the length and the   *)
(* cyclic order.                                                           *)
LEMMA RotateIndex ==
    ASSUME NEW S, NEW q \in Seq(S), NEW i \in 1 .. Len(q)
    PROVE  /\ Rotate(q, i) \in Seq(S)
           /\ Len(Rotate(q, i)) = Len(q)
           /\ \A k \in 1 .. Len(q) :
                 Rotate(q, i)[k] =
                    IF k <= Len(q) - i + 1 THEN q[k + i - 1] ELSE q[k - (Len(q) - i + 1)]
<1> DEFINE a == SubSeq(q, i, Len(q))
           b == SubSeq(q, 1, i - 1)
<1>1. /\ a \in Seq(S)
      /\ Len(a) = Len(q) - i + 1
      /\ \A k \in 1 .. Len(q) - i + 1 : a[k] = q[k + i - 1]
  OBVIOUS
<1>2. b \in Seq(S) /\ Len(b) = i - 1 /\ \A k \in 1 .. i - 1 : b[k] = q[k]
  OBVIOUS
<1> HIDE DEF a, b
<1>3. Rotate(q, i) = a \o b
  BY DEF Rotate, a, b
<1>4. /\ a \o b \in Seq(S)
      /\ Len(a \o b) = Len(a) + Len(b)
      /\ \A k \in 1 .. Len(a) + Len(b) :
            (a \o b)[k] = IF k <= Len(a) THEN a[k] ELSE b[k - Len(a)]
  BY <1>1, <1>2, ConcatProperties
<1>5. Len(a) + Len(b) = Len(q)
  BY <1>1, <1>2
<1>6. ASSUME NEW k \in 1 .. Len(q)
      PROVE  (a \o b)[k] = IF k <= Len(q) - i + 1 THEN q[k + i - 1] ELSE q[k - (Len(q) - i + 1)]
  <2>1. CASE k <= Len(q) - i + 1
    BY <1>1, <1>4, <1>5, <2>1
  <2>2. CASE ~(k <= Len(q) - i + 1)
    <3>1. (a \o b)[k] = b[k - Len(a)] /\ Len(a) = Len(q) - i + 1
      BY <1>1, <1>4, <1>5, <2>2
    <3>2. k - (Len(q) - i + 1) \in 1 .. i - 1
      BY <2>2
    <3>3. b[k - (Len(q) - i + 1)] = q[k - (Len(q) - i + 1)]
      BY <1>2, <3>2
    <3> QED BY <2>2, <3>1, <3>3
  <2> QED BY <2>1, <2>2
<1> QED BY <1>3, <1>4, <1>5, <1>6

(* The deque q holds the tasks of set T, each once.                        *)
Holds(q, T) ==
    /\ {q[i] : i \in 1 .. Len(q)} = T
    /\ \A i, j \in 1 .. Len(q) : i # j => q[i] # q[j]

(* remove(i) and push_back keep the tasks of the deque, each once.         *)
LEMMA MoveToBackHolds ==
    ASSUME NEW S, NEW q \in Seq(S), NEW i \in 1 .. Len(q), NEW T, Holds(q, T)
    PROVE  Holds(MoveToBack(q, i), T)
<1> DEFINE r == MoveToBack(q, i)
           n == Len(q)
<1>1. /\ Len(r) = n
      /\ n \in Nat
      /\ \A k \in 1 .. n : r[k] = IF k < i THEN q[k] ELSE IF k < n THEN q[k + 1] ELSE q[i]
  BY MoveToBackIndex
<1> HIDE DEF r, n
<1>2. \A k \in 1 .. n : \E m \in 1 .. n : r[k] = q[m]
  BY <1>1 DEF n
<1>3. \A m \in 1 .. n : \E k \in 1 .. n : r[k] = q[m]
  <2> TAKE m \in 1 .. n
  <2>1. CASE m < i
    BY <1>1, <2>1 DEF n
  <2>2. CASE m = i
    <3>1. r[n] = q[m]
      BY <1>1, <2>2 DEF n
    <3> QED BY <1>1, <3>1
  <2>3. CASE m > i
    <3>1. r[m - 1] = q[m] /\ m - 1 \in 1 .. n
      BY <1>1, <2>3 DEF n
    <3> QED BY <3>1
  <2> QED BY <2>1, <2>2, <2>3, <1>1 DEF n
<1>4. \A k, m \in 1 .. n : k # m => r[k] # r[m]
  BY <1>1 DEF Holds, n
<1>5. {r[k] : k \in 1 .. n} = {q[m] : m \in 1 .. n}
  <2>1. \A x \in {r[k] : k \in 1 .. n} : x \in {q[m] : m \in 1 .. n}
    BY <1>2
  <2>2. \A x \in {q[m] : m \in 1 .. n} : x \in {r[k] : k \in 1 .. n}
    BY <1>3
  <2> QED BY <2>1, <2>2
<1> QED
  BY <1>1, <1>4, <1>5 DEF Holds, r, n

(* The rotation of schedule keeps the tasks of the deque, each once.       *)
LEMMA RotateHolds ==
    ASSUME NEW S, NEW q \in Seq(S), NEW i \in 1 .. Len(q), NEW T, Holds(q, T)
    PROVE  Holds(Rotate(q, i), T)
<1> DEFINE r == Rotate(q, i)
           n == Len(q)
           d == n - i + 1
<1>1. /\ Len(r) = n
      /\ n \in Nat
      /\ d \in 1 .. n
      /\ i = n - d + 1
      /\ \A k \in 1 .. n : r[k] = IF k <= d THEN q[k + i - 1] ELSE q[k - d]
  BY RotateIndex
<1> USE DEF Holds
<1>2. \A k, m \in 1 .. n : k # m => q[k] # q[m]
  OBVIOUS
<1> HIDE DEF r, n, d, Holds
<1>3. \A k \in 1 .. n : \E m \in 1 .. n : r[k] = q[m]
  <2> TAKE k \in 1 .. n
  <2>1. CASE k <= d
    BY <1>1, <2>1
  <2>2. CASE k > d
    BY <1>1, <2>2
  <2> QED BY <1>1, <2>1, <2>2
<1>4. \A m \in 1 .. n : \E k \in 1 .. n : r[k] = q[m]
  <2> TAKE m \in 1 .. n
  <2>1. CASE m >= i
    <3>1. m - i + 1 \in 1 .. n /\ m - i + 1 <= d /\ (m - i + 1) + i - 1 = m
      BY <1>1, <2>1
    <3>2. r[m - i + 1] = q[(m - i + 1) + i - 1]
      BY <1>1, <3>1
    <3> QED BY <3>1, <3>2
  <2>2. CASE m < i
    <3>1. m + d \in 1 .. n /\ ~(m + d <= d) /\ (m + d) - d = m
      BY <1>1, <2>2
    <3>2. r[m + d] = q[(m + d) - d]
      BY <1>1, <3>1
    <3> QED BY <3>1, <3>2
  <2> QED BY <2>1, <2>2, <1>1
<1>5. \A k, m \in 1 .. n : k # m => r[k] # r[m]
  <2> SUFFICES ASSUME NEW k \in 1 .. n, NEW m \in 1 .. n, k # m
               PROVE  r[k] # r[m]
    OBVIOUS
  <2> DEFINE src(x) == IF x <= d THEN x + i - 1 ELSE x - d
  <2>1. src(k) \in 1 .. n /\ src(m) \in 1 .. n /\ src(k) # src(m)
    BY <1>1
  <2>2. r[k] = q[src(k)] /\ r[m] = q[src(m)]
    BY <1>1
  <2> HIDE DEF src
  <2> QED BY <1>2, <2>1, <2>2
<1>6. {r[k] : k \in 1 .. n} = {q[m] : m \in 1 .. n}
  <2>1. \A x \in {r[k] : k \in 1 .. n} : x \in {q[m] : m \in 1 .. n}
    BY <1>3
  <2>2. \A x \in {q[m] : m \in 1 .. n} : x \in {r[k] : k \in 1 .. n}
    BY <1>4
  <2> QED BY <2>1, <2>2
<1> QED
  BY <1>1, <1>5, <1>6 DEF Holds, r, n

(* push_back of a new task adds that task and no other.                    *)
LEMMA AppendHolds ==
    ASSUME NEW S, NEW q \in Seq(S), NEW T, NEW p \in S \ T, Holds(q, T)
    PROVE  Append(q, p) \in Seq(S) /\ Holds(Append(q, p), T \cup {p})
<1>1. /\ Append(q, p) \in Seq(S)
      /\ Len(Append(q, p)) = Len(q) + 1
      /\ \A k \in 1 .. Len(q) : Append(q, p)[k] = q[k]
      /\ Append(q, p)[Len(q) + 1] = p
  OBVIOUS
<1>2. \A k \in 1 .. Len(q) : q[k] \in T
  BY DEF Holds
<1>3. \A i, j \in 1 .. Len(q) + 1 : i # j => Append(q, p)[i] # Append(q, p)[j]
  BY <1>1, <1>2 DEF Holds
<1>4. {Append(q, p)[k] : k \in 1 .. Len(q) + 1} = {q[k] : k \in 1 .. Len(q)} \cup {p}
  <2>1. \A k \in 1 .. Len(q) + 1 : k \in 1 .. Len(q) \/ k = Len(q) + 1
    OBVIOUS
  <2>2. \A k \in 1 .. Len(q) : k \in 1 .. Len(q) + 1
    OBVIOUS
  <2>3. Len(q) + 1 \in 1 .. Len(q) + 1
    OBVIOUS
  <2> QED BY <1>1, <2>1, <2>2, <2>3
<1> QED
  BY <1>1, <1>3, <1>4 DEF Holds

-----------------------------------------------------------------------------
(* The inductive invariant.                                                *)

(* The invariant holds before the first task is added.                     *)
LEMMA InitSchedInv == Init => SchedInv
<1> SUFFICES ASSUME Init PROVE SchedInv
  OBVIOUS
<1> USE SchedulerConstants DEF Init
<1>1. PICK reset \in [Cores -> ResetTpidr] : ec = [c \in Cores |-> FreshFrame(reset[c])]
  OBVIOUS
<1>2. \A c \in Cores : ec[c] = FreshFrame(reset[c]) /\ reset[c] \in ResetTpidr
  BY <1>1
<1>3. ec \in [Cores -> Frame]
  <2>1. \A t \in Nat : FreshFrame(t) \in Frame
    BY DEF FreshFrame, Frame
  <2>2. \A c \in Cores : FreshFrame(reset[c]) \in Frame
    BY <1>2, <2>1
  <2> QED BY <1>1, <2>2
<1>4. TypeOK
  BY <1>3 DEF TypeOK, FreshFrame, Frame
<1>5. QueueExact
  BY DEF QueueExact
<1>6. SliceIsOneTick /\ TaskTable
  BY DEF SliceIsOneTick, TaskTable
<1>7. CoreTable /\ OneCorePerTask
  BY <1>2 DEF CoreTable, OneCorePerTask, OnCore, FreshFrame
<1> QED BY <1>4, <1>5, <1>6, <1>7 DEF SchedInv

(* deschedule finds the task that runs on the core and no other: the frame *)
(* of an idle core names no task.                                          *)
LEMMA DescheduleFinds ==
    ASSUME SchedInv, NEW c \in Cores, pc[c] \in {"idle", "run"}
    PROVE  /\ pc[c] = "idle" => \A i \in 1 .. Len(processes) : processes[i] # ec[c].tpidr
           /\ pc[c] = "run" => /\ ec[c].tpidr \in Pids
                               /\ \E i \in 1 .. Len(processes) : processes[i] = ec[c].tpidr
<1>1. \A i \in 1 .. Len(processes) : processes[i] \in Pids
  BY ElementOfSeq DEF SchedInv, TypeOK
<1>2. CASE pc[c] = "idle"
  BY <1>1, <1>2, ResetIsNoPid DEF SchedInv, CoreTable
<1>3. CASE pc[c] = "run"
  <2>1. ec[c].tpidr \in 2 .. last_id
    BY <1>3 DEF SchedInv, CoreTable
  <2>2. ec[c].tpidr \in {processes[i] : i \in 1 .. Len(processes)}
    BY <2>1 DEF SchedInv, QueueExact
  <2> QED BY <1>1, <1>3, <2>2
<1> QED BY <1>2, <1>3

(* One call of deschedule preserves the invariant, whatever the caller     *)
(* stores for the task: a tick, a sleep and an exit differ only in that.   *)
LEMMA DescheduleStep ==
    ASSUME SchedInv,
           NEW c \in Cores, pc[c] \in {"idle", "run"},
           NEW new \in {"READY", "WAITING", "ZOMBIE"},
           NEW frame \in Frame, frame.tpidr = ec[c].tpidr,
           NEW cnt \in [Pids -> 0 .. 1],
           deschedule(c, new, frame, cnt),
           pc[c] = "idle" => cnt = counter,
           ec' \in [Cores -> Frame],
           \A d \in Cores : ec'[d].tpidr = ec[d].tpidr,
           priority' \in [Pids -> 0 .. 1],
           heap' \subseteq Stacks,
           UNCHANGED <<last_id, stack, due, adder>>
    PROVE  SchedInv'
<1> USE SchedulerConstants
<1> DEFINE t == frame.tpidr
<1>a. priority' \in [Pids -> -128 .. 127]
  <2>1. \A k \in 0 .. 1 : k \in -128 .. 127
    OBVIOUS
  <2> QED BY <2>1
<1>b. cnt \in [Pids -> -128 .. 127]
  <2>1. \A k \in 0 .. 1 : k \in -128 .. 127
    OBVIOUS
  <2> QED BY <2>1
<1>1. CASE pc[c] = "idle"
  <2>1. /\ pc' = [pc EXCEPT ![c] = "pick"]
        /\ UNCHANGED <<processes, state, counter, context>>
    BY <1>1, DescheduleFinds DEF deschedule
  <2>2. TypeOK'
    BY <1>a, <2>1 DEF SchedInv, TypeOK
  <2>3. QueueExact' /\ SliceIsOneTick'
    BY <2>1 DEF SchedInv, QueueExact, SliceIsOneTick
  <2>4. TaskTable'
    BY <2>1 DEF SchedInv, TaskTable, NextPid
  <2>5. CoreTable' /\ OneCorePerTask'
    <3>1. \A d \in Cores : pc'[d] = IF d = c THEN "pick" ELSE pc[d]
      BY <2>1 DEF SchedInv, TypeOK
    <3>2. \A d \in Cores, p \in Pids : OnCore(d, p)' => d # c /\ OnCore(d, p)
      BY <3>1 DEF OnCore
    <3>3. CoreTable'
      BY <3>1 DEF SchedInv, CoreTable
    <3>4. OneCorePerTask'
      BY <2>1, <3>1, <3>2 DEF SchedInv, OneCorePerTask
    <3> QED BY <3>3, <3>4
  <2> QED BY <2>2, <2>3, <2>4, <2>5 DEF SchedInv
<1>2. CASE pc[c] = "run"
  <2>1. t \in Pids /\ OnCore(c, t) /\ t \in 2 .. last_id
    BY <1>2, DescheduleFinds DEF OnCore, SchedInv, CoreTable
  <2>2. PICK i \in 1 .. Len(processes) :
           /\ processes[i] = t
           /\ counter' = [cnt EXCEPT ![t] = 1]
           /\ state' = [state EXCEPT ![t] = new]
           /\ context' = [context EXCEPT ![t] = frame]
           /\ processes' = MoveToBack(processes, i)
           /\ pc' = [pc EXCEPT ![c] = "pick"]
    <3>1. ~(cnt[t] - 1 > 0)
      BY <2>1
    <3> QED BY <1>2, <3>1, DescheduleFinds DEF deschedule, Saved
  <2>3. /\ processes' \in Seq(Pids)
        /\ Holds(processes', 2 .. last_id)
    <3>1. processes \in Seq(Pids) /\ Holds(processes, 2 .. last_id)
      BY DEF SchedInv, TypeOK, QueueExact, Holds
    <3> QED BY <2>2, <3>1, MoveToBackIndex, MoveToBackHolds
  <2>4. TypeOK'
    <3>1. counter' \in [Pids -> -128 .. 127]
      BY <1>b, <2>1, <2>2
    <3>2. state' \in [Pids -> {"NONE", "READY", "RUNNING", "WAITING", "ZOMBIE"}]
      BY <2>2 DEF SchedInv, TypeOK
    <3>3. context' \in [Pids -> Frame]
      BY <2>1, <2>2 DEF SchedInv, TypeOK
    <3>4. pc' \in [Cores -> {"idle", "run", "pick", "parked", "wedged", "stuck"}]
      BY <2>2 DEF SchedInv, TypeOK
    <3> QED BY <1>a, <2>3, <3>1, <3>2, <3>3, <3>4 DEF SchedInv, TypeOK
  <2>5. QueueExact'
    BY <2>3 DEF QueueExact, Holds
  <2>6. SliceIsOneTick'
    BY <2>1, <2>2 DEF SliceIsOneTick
  <2>7. TaskTable'
    BY <2>1, <2>2 DEF SchedInv, TypeOK, TaskTable, NextPid
  <2>8. CoreTable'
    BY <2>2 DEF SchedInv, TypeOK, CoreTable
  <2>9. OneCorePerTask'
    <3>1. \A d \in Cores : d # c => ~OnCore(d, t)
      BY <2>1 DEF SchedInv, OneCorePerTask
    <3>2. \A d \in Cores, p \in Pids : OnCore(d, p)' => d # c /\ p # t /\ OnCore(d, p) /\ pc'[d] = pc[d]
      BY <2>2, <3>1 DEF OnCore, SchedInv, TypeOK
    <3>3. \A p \in Pids : p # t => state'[p] = state[p]
      BY <2>2 DEF SchedInv, TypeOK
    <3> QED BY <3>2, <3>3 DEF SchedInv, OneCorePerTask
  <2> QED BY <2>4, <2>5, <2>6, <2>7, <2>8, <2>9 DEF SchedInv
<1> QED BY <1>1, <1>2

(* Passing over sleeping tasks leaves every counter at 0 or 1.             *)
LEMMA PassedOverBound ==
    ASSUME SchedInv, NEW S
    PROVE  /\ PassedOver(S) \in [Pids -> -128 .. 127]
           /\ \A p \in Pids : PassedOver(S)[p] \in 0 .. 1
<1>1. \A p \in Pids : counter[p] \in 0 .. 1 /\ priority[p] \in 0 .. 1
  BY DEF SchedInv, SliceIsOneTick, TaskTable
<1>2. \A k, m \in 0 .. 1 : (k \div 2) + m \in 0 .. 1
  OBVIOUS
<1>3. \A p \in Pids : PassedOver(S)[p] \in 0 .. 1
  BY <1>1, <1>2 DEF PassedOver
<1>4. \A p \in Pids : PassedOver(S)[p] \in -128 .. 127
  BY <1>3
<1>5. PassedOver(S) = [p \in Pids |-> PassedOver(S)[p]]
  BY DEF PassedOver
<1> QED BY <1>3, <1>4, <1>5

(* A step of core 0 preserves the invariant.                               *)
LEMMA AdderStep ==
    ASSUME SchedInv,
           NewTask \/ NewTaskOutOfMemory \/ AddTask \/ AddingDone
    PROVE  SchedInv'
<1> USE SchedulerConstants
<1>1. CASE NewTask
  <2> USE <1>1 DEF NewTask
  <2>1. TypeOK'
    BY DEF SchedInv, TypeOK, coreVars
  <2>2. QueueExact' /\ SliceIsOneTick' /\ TaskTable'
    BY DEF SchedInv, TypeOK, QueueExact, SliceIsOneTick, TaskTable, NextPid, MoreTasks
  <2>3. CoreTable' /\ OneCorePerTask'
    BY DEF SchedInv, CoreTable, OneCorePerTask, OnCore, coreVars
  <2> QED BY <2>1, <2>2, <2>3 DEF SchedInv
<1>2. CASE NewTaskOutOfMemory \/ AddingDone
  <2> USE <1>2 DEF NewTaskOutOfMemory, AddingDone, taskVars, coreVars
  <2>1. TypeOK'
    BY DEF SchedInv, TypeOK
  <2>2. QueueExact' /\ SliceIsOneTick'
    BY DEF SchedInv, QueueExact, SliceIsOneTick
  <2>3. TaskTable'
    BY DEF SchedInv, TaskTable
  <2>4. CoreTable' /\ OneCorePerTask'
    BY DEF SchedInv, CoreTable, OneCorePerTask, OnCore
  <2> QED BY <2>1, <2>2, <2>3, <2>4 DEF SchedInv
<1>3. CASE AddTask
  <2> USE <1>3 DEF AddTask, coreVars
  <2>1. /\ NextPid \in Pids
        /\ NextPid \notin 2 .. last_id
        /\ (2 .. last_id) \cup {NextPid} = 2 .. last_id'
        /\ NextPid = last_id'
    BY DEF SchedInv, TypeOK, TaskTable, NextPid
  <2>2. /\ processes' \in Seq(Pids)
        /\ Holds(processes', 2 .. last_id')
    <3>1. processes \in Seq(Pids) /\ Holds(processes, 2 .. last_id)
      BY DEF SchedInv, TypeOK, QueueExact, Holds
    <3>2. /\ Append(processes, NextPid) \in Seq(Pids)
          /\ Holds(Append(processes, NextPid), (2 .. last_id) \cup {NextPid})
      <4> DEFINE p == NextPid
                 T == 2 .. last_id
      <4>1. p \in Pids \ T /\ Holds(processes, T)
        BY <2>1, <3>1
      <4> HIDE DEF p, T
      <4>2. Append(processes, p) \in Seq(Pids) /\ Holds(Append(processes, p), T \cup {p})
        BY <3>1, <4>1, AppendHolds
      <4> QED BY <4>2 DEF p, T
    <3> QED BY <2>1, <3>2
  <2>3. FreshFrame(NextPid) \in Frame
    BY <2>1 DEF FreshFrame, Frame
  <2>4. TypeOK'
    <3>1. context' \in [Pids -> Frame]
      BY <2>1, <2>3 DEF SchedInv, TypeOK
    <3> QED BY <2>1, <2>2, <3>1 DEF SchedInv, TypeOK
  <2>5. QueueExact' /\ SliceIsOneTick'
    BY <2>2 DEF QueueExact, Holds, SchedInv, SliceIsOneTick
  <2>6. TaskTable'
    <3>1. \A p \in Pids : state'[p] = "NONE" <=> p \notin 2 .. last_id'
      BY <2>1 DEF SchedInv, TypeOK, TaskTable
    <3>2. \A p \in 2 .. last_id' : context'[p].tpidr = p
      <4> SUFFICES ASSUME NEW p \in 2 .. last_id' PROVE context'[p].tpidr = p
        OBVIOUS
      <4>1. CASE p = NextPid
        BY <2>1, <4>1 DEF SchedInv, TypeOK, FreshFrame
      <4>2. CASE p # NextPid
        <5>1. p \in 2 .. last_id /\ p \in Pids
          <6>1. p \in (2 .. last_id) \cup {NextPid}
            BY <2>1
          <6> QED BY <4>2, <6>1 DEF SchedInv, TypeOK
        <5> QED BY <4>2, <5>1 DEF SchedInv, TypeOK, TaskTable
      <4> QED BY <4>1, <4>2
    <3> QED BY <3>1, <3>2 DEF SchedInv, TaskTable
  <2>7. CoreTable'
    BY <2>1 DEF SchedInv, CoreTable
  <2>8. OneCorePerTask'
    <3>1. \A c \in Cores, p \in Pids : OnCore(c, p)' => OnCore(c, p) /\ p # NextPid
      BY <2>1 DEF OnCore, SchedInv, CoreTable
    <3>2. \A p \in Pids : p # NextPid => state'[p] = state[p]
      BY DEF SchedInv, TypeOK
    <3> QED BY <3>1, <3>2 DEF SchedInv, OneCorePerTask
  <2> QED BY <2>4, <2>5, <2>6, <2>7, <2>8 DEF SchedInv
<1> QED BY <1>1, <1>2, <1>3

(* Restoring a task preserves the invariant: it was on no core, because it *)
(* was not RUNNING.                                                        *)
LEMMA ScheduleStep ==
    ASSUME SchedInv, NEW c \in Cores, Schedule(c)
    PROVE  SchedInv'
<1> USE SchedulerConstants
<1>1. PICK i \in 1 .. Len(processes) :
          /\ is_ready(processes[i])
          /\ processes' = Rotate(processes, i)
          /\ counter' = PassedOver({processes[j] : j \in 1 .. i - 1})
          /\ state' = [state EXCEPT ![processes[i]] = "RUNNING"]
          /\ context' = [context EXCEPT ![processes[i]] = Polled(processes[i])]
          /\ ec' = [ec EXCEPT ![c] = Polled(processes[i])]
          /\ due' = due \ {processes[i]}
          /\ pc' = [pc EXCEPT ![c] = IF LoopEnds(ec[c].tpidr) THEN "run" ELSE "pick"]
  BY DEF Schedule
<1> DEFINE t == processes[i]
<1>2. pc[c] = "pick" /\ UNCHANGED <<last_id, priority, stack, heap, adder>>
  BY DEF Schedule
<1>3. /\ processes \in Seq(Pids)
      /\ Holds(processes, 2 .. last_id)
      /\ t \in Pids
      /\ t \in 2 .. last_id
  <2>1. processes \in Seq(Pids) /\ Holds(processes, 2 .. last_id)
    BY DEF SchedInv, TypeOK, QueueExact, Holds
  <2>2. t \in {processes[j] : j \in 1 .. Len(processes)}
    OBVIOUS
  <2> QED BY <2>1, <2>2, ElementOfSeq DEF Holds
<1>4. processes' \in Seq(Pids) /\ Holds(processes', 2 .. last_id')
  BY <1>1, <1>2, <1>3, RotateIndex, RotateHolds
<1>5. Polled(t) \in Frame /\ Polled(t).tpidr = t
  <2>1. context[t] \in Frame /\ context[t].tpidr = t
    BY <1>3 DEF SchedInv, TypeOK, TaskTable
  <2>2. [context[t] EXCEPT !.x = "slept"] \in Frame /\ [context[t] EXCEPT !.x = "slept"].tpidr = t
    BY <2>1 DEF Frame
  <2> QED BY <2>1, <2>2 DEF Polled
<1> HIDE DEF t
<1>6. TypeOK'
  <2>1. counter' \in [Pids -> -128 .. 127]
    BY <1>1, PassedOverBound
  <2>2. state' \in [Pids -> {"NONE", "READY", "RUNNING", "WAITING", "ZOMBIE"}]
    BY <1>1 DEF SchedInv, TypeOK
  <2>3. context' \in [Pids -> Frame] /\ ec' \in [Cores -> Frame]
    BY <1>1, <1>3, <1>5 DEF SchedInv, TypeOK, t
  <2>4. pc' \in [Cores -> {"idle", "run", "pick", "parked", "wedged", "stuck"}]
    BY <1>1 DEF SchedInv, TypeOK
  <2> QED BY <1>1, <1>2, <1>4, <2>1, <2>2, <2>3, <2>4 DEF SchedInv, TypeOK
<1>7. QueueExact'
  BY <1>4 DEF QueueExact, Holds
<1>8. SliceIsOneTick'
  BY <1>1, PassedOverBound DEF SliceIsOneTick
<1>9. TaskTable'
  <2>1. \A p \in Pids : state'[p] = "NONE" <=> p \notin 2 .. last_id'
    BY <1>1, <1>2, <1>3 DEF SchedInv, TypeOK, TaskTable, t
  <2>2. \A p \in 2 .. last_id' : context'[p].tpidr = p
    BY <1>1, <1>2, <1>5 DEF SchedInv, TypeOK, TaskTable, t
  <2> QED BY <1>2, <2>1, <2>2 DEF SchedInv, TaskTable, NextPid
<1>10. \A d \in Cores :
          /\ d # c => ec'[d] = ec[d] /\ pc'[d] = pc[d]
          /\ d = c => ec'[d].tpidr = t /\ pc'[d] \in {"run", "pick"}
  BY <1>1, <1>5 DEF SchedInv, TypeOK, t
<1>11. CoreTable'
  <2> SUFFICES ASSUME NEW d \in Cores
               PROVE  /\ pc'[d] = "idle" => ec'[d].tpidr \in ResetTpidr
                      /\ pc'[d] \in {"run", "parked", "wedged"} => ec'[d].tpidr \in 2 .. last_id'
    BY DEF CoreTable
  <2>1. CASE d = c
    BY <1>2, <1>3, <1>6, <1>10, <2>1 DEF TypeOK
  <2>2. CASE d # c
    BY <1>2, <1>6, <1>10, <2>2 DEF SchedInv, CoreTable, TypeOK
  <2> QED BY <2>1, <2>2
<1>12. OneCorePerTask'
  <2>1. state'[t] = "RUNNING" /\ \A p \in Pids : p # t => state'[p] = state[p]
    BY <1>1, <1>3 DEF SchedInv, TypeOK, t
  <2>2. \A d \in Cores : ~OnCore(d, t)
    BY <1>1, <1>3 DEF SchedInv, OneCorePerTask, is_ready, t
  <2>3. \A d \in Cores, p \in Pids : OnCore(d, p)' =>
           \/ d = c /\ p = t /\ pc'[d] = "run"
           \/ d # c /\ p # t /\ OnCore(d, p) /\ pc'[d] = pc[d]
    <3> SUFFICES ASSUME NEW d \in Cores, NEW p \in Pids, OnCore(d, p)'
                 PROVE  \/ d = c /\ p = t /\ pc'[d] = "run"
                        \/ d # c /\ p # t /\ OnCore(d, p) /\ pc'[d] = pc[d]
      OBVIOUS
    <3>1. CASE d = c
      BY <1>6, <1>10, <3>1 DEF OnCore, TypeOK
    <3>2. CASE d # c
      BY <1>6, <1>10, <2>2, <3>2 DEF OnCore, TypeOK
    <3> QED BY <3>1, <3>2
  <2> QED BY <2>1, <2>3 DEF SchedInv, OneCorePerTask
<1> QED BY <1>6, <1>7, <1>8, <1>9, <1>11, <1>12 DEF SchedInv

(* A step of a core, or of the clock, preserves the invariant.             *)
LEMMA CoreStepInv ==
    ASSUME SchedInv, NEW c \in Cores, CoreStep(c)
    PROVE  SchedInv'
<1> USE SchedulerConstants
<1> DEFINE t == ec[c].tpidr
<1>1. /\ ec \in [Cores -> Frame]
      /\ counter \in [Pids -> 0 .. 1]
      /\ priority \in [Pids -> 0 .. 1]
      /\ heap \subseteq Stacks
  <2>1. /\ \A p \in Pids : counter[p] \in 0 .. 1 /\ priority[p] \in 0 .. 1
        /\ counter = [p \in Pids |-> counter[p]]
        /\ priority = [p \in Pids |-> priority[p]]
    BY DEF SchedInv, SliceIsOneTick, TaskTable, TypeOK
  <2> QED BY <2>1 DEF SchedInv, TypeOK
<1>2. CASE Tick(c)
  BY <1>1, <1>2, DescheduleStep DEF Tick
<1>3. CASE Sleep(c)
  <2> DEFINE frame == [ec[c] EXCEPT !.x = "asked"]
  <2>1. /\ pc[c] = "run"
        /\ ec' = [ec EXCEPT ![c].x = "asked"]
        /\ deschedule(c, "WAITING", frame, counter)
        /\ UNCHANGED <<last_id, priority, stack, heap, due, adder>>
    BY <1>3 DEF Sleep, Calls
  <2>2. frame \in Frame /\ frame.tpidr = ec[c].tpidr
    BY <1>1 DEF Frame
  <2>3. ec' = [ec EXCEPT ![c] = frame]
    BY <2>1
  <2> HIDE DEF frame
  <2>4. ec' \in [Cores -> Frame] /\ \A d \in Cores : ec'[d].tpidr = ec[d].tpidr
    BY <1>1, <2>2, <2>3
  <2> QED BY <1>1, <2>1, <2>2, <2>4, DescheduleStep
<1>4. CASE Exit(c)
  <2> DEFINE cnt == [counter EXCEPT ![t] = 0]
  <2>1. /\ pc[c] = "run"
        /\ heap' = Deallocated(t)
        /\ priority' = [priority EXCEPT ![t] = 0]
        /\ deschedule(c, "ZOMBIE", ec[c], cnt)
        /\ UNCHANGED <<last_id, stack, due, adder, ec>>
    BY <1>4 DEF Exit, Calls
  <2>2. cnt \in [Pids -> 0 .. 1] /\ priority' \in [Pids -> 0 .. 1] /\ heap' \subseteq Stacks
    <3>1. 0 \in 0 .. 1
      OBVIOUS
    <3>2. cnt \in [Pids -> 0 .. 1]
      BY <1>1, <3>1
    <3>3. priority' \in [Pids -> 0 .. 1]
      BY <1>1, <2>1, <3>1
    <3>4. heap' \subseteq Stacks
      BY <1>1, <2>1 DEF Deallocated
    <3> QED BY <3>2, <3>3, <3>4
  <2> HIDE DEF cnt
  <2> QED BY <1>1, <2>1, <2>2, DescheduleStep
<1>5. CASE ExitWedged(c)
  <2> USE <1>5 DEF ExitWedged
  <2>1. pc[c] = "run" /\ t \in Pids /\ t \in 2 .. last_id /\ OnCore(c, t)
    <3>1. pc[c] = "run"
      BY DEF Calls
    <3> QED BY <3>1, DescheduleFinds DEF SchedInv, CoreTable, OnCore
  <2>2. /\ \A p \in Pids : state'[p] = IF p = t THEN "ZOMBIE" ELSE state[p]
        /\ \A d \in Cores : pc'[d] = IF d = c THEN "wedged" ELSE pc[d]
    BY DEF SchedInv, TypeOK
  <2>3. TypeOK'
    <3>1. counter' \in [Pids -> -128 .. 127] /\ priority' \in [Pids -> -128 .. 127]
      <4>1. 0 \in -128 .. 127
        OBVIOUS
      <4>2. counter' \in [Pids -> -128 .. 127]
        BY <4>1 DEF SchedInv, TypeOK
      <4>3. priority' \in [Pids -> -128 .. 127]
        BY <4>1 DEF SchedInv, TypeOK
      <4> QED BY <4>2, <4>3
    <3>2. state' \in [Pids -> {"NONE", "READY", "RUNNING", "WAITING", "ZOMBIE"}]
      BY DEF SchedInv, TypeOK
    <3>3. pc' \in [Cores -> {"idle", "run", "pick", "parked", "wedged", "stuck"}]
      BY DEF SchedInv, TypeOK
    <3> QED BY <3>1, <3>2, <3>3 DEF SchedInv, TypeOK
  <2>4. QueueExact'
    BY DEF SchedInv, QueueExact
  <2>5. SliceIsOneTick'
    BY <1>1 DEF SliceIsOneTick
  <2>6. TaskTable'
    <3>1. \A p \in Pids : priority'[p] \in 0 .. 1
      BY <1>1
    <3>2. \A p \in Pids : state'[p] = "NONE" <=> p \notin 2 .. last_id'
      BY <2>1, <2>2 DEF SchedInv, TaskTable
    <3> QED BY <3>1, <3>2 DEF SchedInv, TaskTable, NextPid
  <2>7. CoreTable'
    BY <2>1, <2>2 DEF SchedInv, CoreTable
  <2>8. OneCorePerTask'
    <3>1. \A d \in Cores : d # c => ~OnCore(d, t)
      BY <2>1 DEF SchedInv, OneCorePerTask
    <3>2. ASSUME NEW d \in Cores, NEW p \in Pids, OnCore(d, p)'
          PROVE  \/ d = c /\ p = t /\ pc'[d] = "wedged"
                 \/ d # c /\ p # t /\ OnCore(d, p) /\ pc'[d] = pc[d]
      BY <2>2, <3>1, <3>2 DEF OnCore
    <3> QED BY <2>2, <3>2 DEF SchedInv, OneCorePerTask
  <2> QED BY <2>3, <2>4, <2>5, <2>6, <2>7, <2>8 DEF SchedInv
<1>6. CASE UnknownSyscall(c) \/ SleepParked(c)
  <2> USE <1>6 DEF UnknownSyscall, SleepParked, taskVars
  <2>1. pc[c] = "run" /\ \A d \in Cores : pc'[d] = IF d = c THEN "parked" ELSE pc[d]
    BY DEF Calls, SchedInv, TypeOK
  <2>2. TypeOK'
    BY DEF SchedInv, TypeOK
  <2>3. QueueExact' /\ SliceIsOneTick' /\ TaskTable'
    BY DEF SchedInv, QueueExact, SliceIsOneTick, TaskTable, NextPid
  <2>4. CoreTable'
    BY <2>1 DEF SchedInv, CoreTable
  <2>5. OneCorePerTask'
    BY <2>1 DEF SchedInv, OneCorePerTask, OnCore
  <2> QED BY <2>2, <2>3, <2>4, <2>5 DEF SchedInv
<1>7. CASE ScheduleNone(c)
  <2> USE <1>7 DEF ScheduleNone, coreVars
  <2>1. TypeOK'
    BY PassedOverBound DEF SchedInv, TypeOK
  <2>2. QueueExact' /\ SliceIsOneTick' /\ TaskTable'
    BY PassedOverBound DEF SchedInv, QueueExact, SliceIsOneTick, TaskTable, NextPid
  <2>3. CoreTable' /\ OneCorePerTask'
    BY DEF SchedInv, CoreTable, OneCorePerTask, OnCore
  <2> QED BY <2>1, <2>2, <2>3 DEF SchedInv
<1>8. CASE Schedule(c)
  BY <1>8, ScheduleStep
<1>9. CASE Execute(c)
  <2> USE <1>9 DEF Execute, taskVars
  <2>1. ec' = [ec EXCEPT ![c] = [ec[c] EXCEPT !.step = @ + 1, !.x = "none"]]
    OBVIOUS
  <2>2. /\ [ec[c] EXCEPT !.step = @ + 1, !.x = "none"] \in Frame
        /\ [ec[c] EXCEPT !.step = @ + 1, !.x = "none"].tpidr = ec[c].tpidr
    <3>1. ec[c] \in Frame /\ ec[c].step + 1 \in 0 .. MaxStep
      BY <1>1 DEF Frame
    <3>2. "none" \in {"none", "asked", "slept"}
      OBVIOUS
    <3> QED BY <3>1, <3>2 DEF Frame
  <2>3. ec' \in [Cores -> Frame] /\ \A d \in Cores : ec'[d].tpidr = ec[d].tpidr
    BY <1>1, <2>1, <2>2
  <2>4. TypeOK'
    BY <2>3 DEF SchedInv, TypeOK
  <2>5. QueueExact' /\ SliceIsOneTick' /\ TaskTable'
    BY DEF SchedInv, QueueExact, SliceIsOneTick, TaskTable, NextPid
  <2>6. CoreTable'
    BY <2>3 DEF SchedInv, CoreTable
  <2>7. OneCorePerTask'
    <3>1. \A d \in Cores, p \in Pids : OnCore(d, p)' <=> OnCore(d, p)
      BY <2>3 DEF OnCore
    <3> QED BY <3>1 DEF SchedInv, OneCorePerTask
  <2> QED BY <2>4, <2>5, <2>6, <2>7 DEF SchedInv
<1>10. CASE ScheduleStuck(c)
  <2> USE <1>10 DEF ScheduleStuck, taskVars
  <2>1. pc[c] = "pick" /\ \A d \in Cores : pc'[d] = IF d = c THEN "stuck" ELSE pc[d]
    BY DEF SchedInv, TypeOK
  <2>2. TypeOK'
    BY DEF SchedInv, TypeOK
  <2>3. QueueExact' /\ SliceIsOneTick' /\ TaskTable'
    BY DEF SchedInv, QueueExact, SliceIsOneTick, TaskTable, NextPid
  <2>4. CoreTable'
    BY <2>1 DEF SchedInv, CoreTable
  <2>5. OneCorePerTask'
    BY <2>1 DEF SchedInv, OneCorePerTask, OnCore
  <2> QED BY <2>2, <2>3, <2>4, <2>5 DEF SchedInv
<1> QED BY <1>2, <1>3, <1>4, <1>5, <1>6, <1>7, <1>8, <1>9, <1>10 DEF CoreStep

(* The passing of a target time preserves the invariant.                   *)
LEMMA ElapseInv ==
    ASSUME SchedInv, NEW p \in Pids, Elapse(p)
    PROVE  SchedInv'
<1> USE DEF Elapse, coreVars
<1>1. TypeOK'
  BY DEF SchedInv, TypeOK
<1>2. QueueExact' /\ SliceIsOneTick' /\ TaskTable'
  BY DEF SchedInv, QueueExact, SliceIsOneTick, TaskTable, NextPid
<1>3. CoreTable' /\ OneCorePerTask'
  BY DEF SchedInv, CoreTable, OneCorePerTask, OnCore
<1> QED BY <1>1, <1>2, <1>3 DEF SchedInv

(* The invariant is about the variables of the specification only.         *)
LEMMA StutterInv ==
    ASSUME SchedInv, UNCHANGED vars
    PROVE  SchedInv'
<1> USE DEF vars, taskVars, coreVars
<1>1. TypeOK' /\ QueueExact'
  BY DEF SchedInv, TypeOK, QueueExact
<1>2. SliceIsOneTick' /\ TaskTable'
  BY DEF SchedInv, SliceIsOneTick, TaskTable, NextPid
<1>3. CoreTable' /\ OneCorePerTask'
  BY DEF SchedInv, CoreTable, OneCorePerTask, OnCore
<1> QED BY <1>1, <1>2, <1>3 DEF SchedInv

(* The invariant is inductive.                                             *)
LEMMA SchedInvStep == SchedInv /\ [Next]_vars => SchedInv'
<1> SUFFICES ASSUME SchedInv, [Next]_vars PROVE SchedInv'
  OBVIOUS
<1>1. CASE NewTask \/ NewTaskOutOfMemory \/ AddTask \/ AddingDone
  BY <1>1, AdderStep
<1>2. CASE \E c \in Cores : CoreStep(c)
  BY <1>2, CoreStepInv
<1>3. CASE \E p \in Pids : Elapse(p)
  BY <1>3, ElapseInv
<1>4. CASE UNCHANGED vars
  BY <1>4, StutterInv
<1> QED BY <1>1, <1>2, <1>3, <1>4 DEF Next

(* The inductive invariant holds in every reachable state.                 *)
THEOREM SchedInvHolds == Spec => []SchedInv
  BY InitSchedInv, SchedInvStep, PTL DEF Spec

(* Every variable of the scheduler keeps its type; in particular the i8    *)
(* counters of deschedule and schedule never leave their range.            *)
THEOREM TypeCorrect == Spec => []TypeOK
<1>1. SchedInv => TypeOK
  BY DEF SchedInv
<1> QED BY <1>1, SchedInvHolds, PTL

(* No task is ever on two cores, although deschedule and schedule are two  *)
(* separate critical sections of switch.                                   *)
THEOREM OneCore == Spec => []OneCorePerTask
<1>1. SchedInv => OneCorePerTask
  BY DEF SchedInv
<1> QED BY <1>1, SchedInvHolds, PTL

(* No task is dropped from the deque, and none is in it twice.             *)
THEOREM QueueIsExact == Spec => []QueueExact
<1>1. SchedInv => QueueExact
  BY DEF SchedInv
<1> QED BY <1>1, SchedInvHolds, PTL

(* No history gives a task a counter that survives a tick: deschedule      *)
(* never takes its `return false`, and priorities have no effect.          *)
THEOREM SliceTheorem == Spec => []SliceIsOneTick
<1>1. SchedInv => SliceIsOneTick
  BY DEF SchedInv
<1> QED BY <1>1, SchedInvHolds, PTL

-----------------------------------------------------------------------------
(***************************************************************************)
(* Scheduler implements TaskPool, for every number of cores and tasks, if  *)
(* no core finds 0 in TPIDR_EL0 at its first tick.  Every step of the      *)
(* scheduler adds a task, gives a task to a core, takes one off a core, or *)
(* changes nothing that the pool sees.                                     *)
(***************************************************************************)

HIDE DEF Pids

(* 0, which stands for no task, is the pid of none.                        *)
LEMMA ZeroIsNoPid == 0 \notin Pids
BY SchedulerConstants DEF Pids

(* The task on each core, as the pool sees it.                             *)
On == [c \in Cores |-> PoolOn(c)]

(* The kinds of step: nothing happens, a task is added, a core takes a     *)
(* task (and keeps it, if the loop around schedule ends), a task leaves    *)
(* its core in state s.                                                    *)
Nothing == state' = state /\ On' = On

Adds(p) ==
    /\ state[p] = "NONE"
    /\ state' = [state EXCEPT ![p] = "READY"]
    /\ On' = On

Takes(c, p) ==
    /\ On[c] = 0
    /\ state[p] \in {"READY", "WAITING"}
    /\ state' = [state EXCEPT ![p] = "RUNNING"]
    /\ On' = [On EXCEPT ![c] = IF LoopEnds(ec[c].tpidr) THEN p ELSE 0]

Stops(c, p, s) ==
    /\ On[c] = p
    /\ state[p] = "RUNNING"
    /\ state' = [state EXCEPT ![p] = s]
    /\ On' = [On EXCEPT ![c] = 0]

(* A call of deschedule takes the task of the core off it, if it has one.  *)
LEMMA DescheduleKind ==
    ASSUME SchedInv,
           NEW c \in Cores, pc[c] \in {"idle", "run"},
           NEW new \in {"READY", "WAITING", "ZOMBIE"},
           NEW frame, frame.tpidr = ec[c].tpidr,
           NEW cnt \in [Pids -> 0 .. 1],
           deschedule(c, new, frame, cnt),
           \A d \in Cores : ec'[d].tpidr = ec[d].tpidr
    PROVE  Nothing \/ \E p \in Pids : Stops(c, p, new)
<1> DEFINE t == frame.tpidr
<1>1. CASE pc[c] = "idle"
  <2>1. pc' = [pc EXCEPT ![c] = "pick"] /\ state' = state
    BY <1>1, DescheduleFinds DEF deschedule
  <2>2. \A d \in Cores : PoolOn(d)' = PoolOn(d)
    BY <1>1, <2>1 DEF PoolOn, SchedInv, TypeOK
  <2> QED BY <2>1, <2>2 DEF Nothing, On
<1>2. CASE pc[c] = "run"
  <2>1. t \in Pids /\ OnCore(c, t) /\ state[t] = "RUNNING"
    BY <1>2, DescheduleFinds DEF OnCore, SchedInv, OneCorePerTask
  <2>2. /\ state' = [state EXCEPT ![t] = new]
        /\ pc' = [pc EXCEPT ![c] = "pick"]
    <3>1. ~(cnt[t] - 1 > 0)
      BY <2>1
    <3> QED BY <1>2, <3>1, DescheduleFinds DEF deschedule
  <2>3. \A d \in Cores : PoolOn(d)' = IF d = c THEN 0 ELSE PoolOn(d)
    BY <2>2 DEF PoolOn, SchedInv, TypeOK
  <2>4. On[c] = t
    BY <1>2 DEF On, PoolOn
  <2>5. On' = [On EXCEPT ![c] = 0]
    BY <2>3 DEF On
  <2> QED BY <2>1, <2>2, <2>4, <2>5 DEF Stops
<1> QED BY <1>1, <1>2

(* schedule gives the core a task that is not RUNNING.                     *)
LEMMA ScheduleKind ==
    ASSUME SchedInv, NEW c \in Cores, Schedule(c)
    PROVE  \E p \in Pids : Takes(c, p)
<1>1. PICK i \in 1 .. Len(processes) :
          /\ is_ready(processes[i])
          /\ state' = [state EXCEPT ![processes[i]] = "RUNNING"]
          /\ ec' = [ec EXCEPT ![c] = Polled(processes[i])]
          /\ pc' = [pc EXCEPT ![c] = IF LoopEnds(ec[c].tpidr) THEN "run" ELSE "pick"]
  BY DEF Schedule
<1> DEFINE t == processes[i]
<1>2. t \in Pids /\ t \in 2 .. last_id
  <2>1. processes \in Seq(Pids)
    BY DEF SchedInv, TypeOK
  <2>2. t \in {processes[j] : j \in 1 .. Len(processes)}
    OBVIOUS
  <2> QED BY <2>1, <2>2, ElementOfSeq DEF SchedInv, QueueExact
<1>3. Polled(t).tpidr = t
  <2>1. context[t] \in Frame /\ context[t].tpidr = t
    BY <1>2 DEF SchedInv, TypeOK, TaskTable
  <2>2. [context[t] EXCEPT !.x = "slept"].tpidr = t
    BY <2>1 DEF Frame
  <2> QED BY <2>1, <2>2 DEF Polled
<1>4. state[t] \in {"READY", "WAITING"}
  BY <1>1 DEF is_ready
<1> HIDE DEF t
<1>5. pc[c] = "pick"
  BY DEF Schedule
<1>6. On[c] = 0
  BY <1>5 DEF On, PoolOn
<1>7. \A d \in Cores : PoolOn(d)' = IF d = c THEN IF LoopEnds(ec[c].tpidr) THEN t ELSE 0 ELSE PoolOn(d)
  <2> SUFFICES ASSUME NEW d \in Cores
               PROVE  PoolOn(d)' = IF d = c THEN IF LoopEnds(ec[c].tpidr) THEN t ELSE 0 ELSE PoolOn(d)
    OBVIOUS
  <2>1. CASE d = c
    BY <1>1, <1>3, <2>1 DEF PoolOn, SchedInv, TypeOK, t
  <2>2. CASE d # c
    BY <1>1, <2>2 DEF PoolOn, SchedInv, TypeOK
  <2> QED BY <2>1, <2>2
<1>8. On' = [On EXCEPT ![c] = IF LoopEnds(ec[c].tpidr) THEN t ELSE 0]
  BY <1>7 DEF On
<1> QED BY <1>1, <1>2, <1>4, <1>6, <1>8 DEF Takes, t

(* The kinds of step that a core makes.                                    *)
LEMMA CoreKind ==
    ASSUME SchedInv, NEW c \in Cores, CoreStep(c)
    PROVE  \/ Nothing
           \/ \E p \in Pids : Takes(c, p)
           \/ \E p \in Pids, s \in {"READY", "WAITING", "ZOMBIE"} : Stops(c, p, s)
<1> DEFINE t == ec[c].tpidr
<1>1. /\ ec \in [Cores -> Frame]
      /\ counter \in [Pids -> 0 .. 1]
  <2>1. /\ \A p \in Pids : counter[p] \in 0 .. 1
        /\ counter = [p \in Pids |-> counter[p]]
    BY DEF SchedInv, SliceIsOneTick, TypeOK
  <2> QED BY <2>1 DEF SchedInv, TypeOK
<1>2. CASE Tick(c)
  BY <1>1, <1>2, DescheduleKind DEF Tick
<1>3. CASE Sleep(c)
  <2> DEFINE frame == [ec[c] EXCEPT !.x = "asked"]
  <2>1. pc[c] = "run" /\ deschedule(c, "WAITING", frame, counter)
    BY <1>3 DEF Sleep, Calls
  <2>2. ec' = [ec EXCEPT ![c] = frame]
    BY <1>3 DEF Sleep
  <2>3. frame.tpidr = ec[c].tpidr
    BY <1>1 DEF Frame
  <2> HIDE DEF frame
  <2>4. \A d \in Cores : ec'[d].tpidr = ec[d].tpidr
    BY <1>1, <2>2, <2>3
  <2> QED BY <1>1, <2>1, <2>3, <2>4, DescheduleKind
<1>4. CASE Exit(c)
  <2> DEFINE cnt == [counter EXCEPT ![t] = 0]
  <2>1. pc[c] = "run" /\ deschedule(c, "ZOMBIE", ec[c], cnt) /\ ec' = ec
    BY <1>4 DEF Exit, Calls
  <2>2. cnt \in [Pids -> 0 .. 1]
    <3>1. 0 \in 0 .. 1
      OBVIOUS
    <3> QED BY <1>1, <3>1
  <2> HIDE DEF cnt
  <2> QED BY <1>1, <2>1, <2>2, DescheduleKind
<1>5. CASE ExitWedged(c)
  <2>1. pc[c] = "run" /\ ec' = ec /\ pc' = [pc EXCEPT ![c] = "wedged"]
    BY <1>5 DEF ExitWedged, Calls
  <2>2. t \in Pids /\ state[t] = "RUNNING"
    BY <2>1, DescheduleFinds DEF OnCore, SchedInv, OneCorePerTask
  <2>3. \A d \in Cores : PoolOn(d)' = IF d = c THEN 0 ELSE PoolOn(d)
    BY <2>1 DEF PoolOn, SchedInv, TypeOK
  <2>4. On[c] = t /\ On' = [On EXCEPT ![c] = 0]
    BY <2>1, <2>3 DEF On, PoolOn
  <2> QED BY <1>5, <2>2, <2>4 DEF Stops, ExitWedged
<1>6. CASE UnknownSyscall(c) \/ SleepParked(c)
  <2>1. pc[c] = "run" /\ ec' = ec /\ state' = state /\ pc' = [pc EXCEPT ![c] = "parked"]
    BY <1>6 DEF UnknownSyscall, SleepParked, Calls, taskVars
  <2>2. \A d \in Cores : PoolOn(d)' = PoolOn(d)
    BY <2>1 DEF PoolOn, SchedInv, TypeOK
  <2> QED BY <2>1, <2>2 DEF Nothing, On
<1>7. CASE ScheduleNone(c)
  BY <1>7 DEF ScheduleNone, coreVars, Nothing, On, PoolOn
<1>8. CASE Schedule(c)
  BY <1>8, ScheduleKind
<1>9. CASE Execute(c)
  <2>1. state' = state /\ pc' = pc /\ \A d \in Cores : ec'[d].tpidr = ec[d].tpidr
    BY <1>1, <1>9 DEF Execute, taskVars, Frame
  <2>2. \A d \in Cores : PoolOn(d)' = PoolOn(d)
    BY <2>1 DEF PoolOn
  <2> QED BY <2>1, <2>2 DEF Nothing, On
<1>10. CASE ScheduleStuck(c)
  <2>1. pc[c] = "pick" /\ ec' = ec /\ state' = state /\ pc' = [pc EXCEPT ![c] = "stuck"]
    BY <1>10 DEF ScheduleStuck, taskVars
  <2>2. \A d \in Cores : PoolOn(d)' = PoolOn(d)
    BY <2>1 DEF PoolOn, SchedInv, TypeOK
  <2> QED BY <2>1, <2>2 DEF Nothing, On
<1> QED BY <1>2, <1>3, <1>4, <1>5, <1>6, <1>7, <1>8, <1>9, <1>10 DEF CoreStep

(* Every step of the specification is of one of the kinds.                 *)
LEMMA StepKind ==
    ASSUME SchedInv, [Next]_vars
    PROVE  \/ Nothing
           \/ \E p \in Pids : Adds(p)
           \/ \E c \in Cores, p \in Pids : Takes(c, p)
           \/ \E c \in Cores, p \in Pids, s \in {"READY", "WAITING", "ZOMBIE"} : Stops(c, p, s)
<1>1. CASE AddTask
  <2>1. NextPid \in Pids /\ NextPid \notin 2 .. last_id
    BY <1>1 DEF AddTask, SchedInv, TypeOK, TaskTable, NextPid
  <2>2. state[NextPid] = "NONE"
    BY <2>1 DEF SchedInv, TaskTable
  <2>3. On' = On
    BY <1>1 DEF AddTask, coreVars, On, PoolOn
  <2> QED BY <1>1, <2>1, <2>2, <2>3 DEF AddTask, Adds
<1>2. CASE NewTask \/ NewTaskOutOfMemory \/ AddingDone \/ UNCHANGED vars
  BY <1>2 DEF NewTask, NewTaskOutOfMemory, AddingDone, vars, taskVars, coreVars, Nothing, On, PoolOn
<1>3. CASE \E c \in Cores : CoreStep(c)
  BY <1>3, CoreKind
<1>4. CASE \E p \in Pids : Elapse(p)
  BY <1>4 DEF Elapse, coreVars, Nothing, On, PoolOn
<1> QED BY <1>1, <1>2, <1>3, <1>4 DEF Next

(* A core's frame keeps its TPIDR_EL0 or takes that of a task, and a core  *)
(* that holds the SCHEDULER lock for ever stopped in the task it ran.      *)
LEMMA FrameKept ==
    ASSUME SchedInv, [Next]_vars, NEW d \in Cores
    PROVE  /\ ec'[d].tpidr = ec[d].tpidr \/ ec'[d].tpidr \in Pids
           /\ pc'[d] = "wedged" => pc[d] \in {"run", "wedged"} /\ ec'[d].tpidr = ec[d].tpidr
<1>1. ec \in [Cores -> Frame] /\ pc \in [Cores -> {"idle", "run", "pick", "parked", "wedged", "stuck"}]
  BY DEF SchedInv, TypeOK
<1>2. CASE ec' = ec /\ pc' = pc
  BY <1>1, <1>2
<1>3. ASSUME NEW c \in Cores, CoreStep(c)
      PROVE  /\ ec'[d].tpidr = ec[d].tpidr \/ ec'[d].tpidr \in Pids
             /\ pc'[d] = "wedged" => pc[d] \in {"run", "wedged"} /\ ec'[d].tpidr = ec[d].tpidr
  <2>1. CASE Schedule(c)
    <3>1. PICK i \in 1 .. Len(processes) :
              /\ ec' = [ec EXCEPT ![c] = Polled(processes[i])]
              /\ pc' = [pc EXCEPT ![c] = IF LoopEnds(ec[c].tpidr) THEN "run" ELSE "pick"]
      BY <2>1 DEF Schedule
    <3>2. processes[i] \in Pids /\ processes[i] \in 2 .. last_id
      <4>1. processes \in Seq(Pids)
        BY DEF SchedInv, TypeOK
      <4>2. processes[i] \in {processes[j] : j \in 1 .. Len(processes)}
        OBVIOUS
      <4> QED BY <4>1, <4>2, ElementOfSeq DEF SchedInv, QueueExact
    <3> DEFINE t == processes[i]
    <3>3. Polled(t).tpidr = t
      <4>1. context[t] \in Frame /\ context[t].tpidr = t
        BY <3>2 DEF SchedInv, TypeOK, TaskTable
      <4>2. [context[t] EXCEPT !.x = "slept"].tpidr = t
        BY <4>1 DEF Frame
      <4> QED BY <4>1, <4>2 DEF Polled
    <3> HIDE DEF t
    <3>4. CASE d = c
      BY <1>1, <3>1, <3>2, <3>3, <3>4 DEF t
    <3>5. CASE d # c
      BY <1>1, <3>1, <3>5
    <3> QED BY <3>4, <3>5
  <2>2. CASE Sleep(c) \/ Execute(c)
    <3>1. ec'[d].tpidr = ec[d].tpidr
      BY <1>1, <2>2 DEF Sleep, Execute, Frame
    <3>2. pc' = pc \/ pc' = [pc EXCEPT ![c] = "pick"]
      BY <2>2 DEF Sleep, Execute, deschedule
    <3> QED BY <1>1, <3>1, <3>2
  <2>3. CASE Tick(c) \/ Exit(c)
    <3>1. ec' = ec
      BY <2>3 DEF Tick, Exit
    <3>2. pc' = pc \/ pc' = [pc EXCEPT ![c] = "pick"]
      BY <2>3 DEF Tick, Exit, deschedule
    <3> QED BY <1>1, <3>1, <3>2
  <2>4. CASE ExitWedged(c) \/ UnknownSyscall(c) \/ SleepParked(c)
    <3>1. ec' = ec /\ pc[c] = "run"
      BY <2>4 DEF ExitWedged, UnknownSyscall, SleepParked, Calls
    <3>2. pc' = [pc EXCEPT ![c] = "wedged"] \/ pc' = [pc EXCEPT ![c] = "parked"]
      BY <2>4 DEF ExitWedged, UnknownSyscall, SleepParked
    <3> QED BY <1>1, <3>1, <3>2
  <2>6. CASE ScheduleStuck(c)
    <3>1. ec' = ec /\ pc' = [pc EXCEPT ![c] = "stuck"]
      BY <2>6 DEF ScheduleStuck
    <3> QED BY <1>1, <3>1
  <2>5. CASE ScheduleNone(c)
    BY <1>1, <2>5 DEF ScheduleNone, coreVars
  <2> QED BY <1>3, <2>1, <2>2, <2>3, <2>4, <2>5, <2>6 DEF CoreStep
<1>4. CASE \/ NewTask \/ NewTaskOutOfMemory \/ AddTask \/ AddingDone
           \/ \E p \in Pids : Elapse(p)
           \/ UNCHANGED vars
  BY <1>2, <1>4 DEF NewTask, NewTaskOutOfMemory, AddTask, AddingDone, Elapse, vars, coreVars
<1> QED BY <1>3, <1>4 DEF Next

-----------------------------------------------------------------------------
(* An exited task stays exited and is not put on a core again.             *)
THEOREM ExitedForGood == Spec => ZombieIsFinal
<1>1. ASSUME SchedInv, SchedInv', [Next]_vars, NEW p \in Pids, state[p] = "ZOMBIE"
      PROVE  /\ state'[p] = "ZOMBIE"
             /\ \A c \in Cores : ~OnCore(c, p)' \/ OnCore(c, p)
  <2>1. state'[p] = "ZOMBIE"
    <3>1. state \in [Pids -> {"NONE", "READY", "RUNNING", "WAITING", "ZOMBIE"}]
      BY <1>1 DEF SchedInv, TypeOK
    <3> QED BY <1>1, <3>1, StepKind DEF Nothing, Adds, Takes, Stops
  <2>2. ASSUME NEW c \in Cores, OnCore(c, p)'
        PROVE  OnCore(c, p)
    <3>1. pc'[c] = "wedged" /\ ec'[c].tpidr = p
      BY <1>1, <2>1, <2>2 DEF SchedInv, OneCorePerTask, OnCore
    <3> QED BY <1>1, <3>1, FrameKept DEF OnCore
  <2> QED BY <2>1, <2>2
<1>2. SchedInv /\ SchedInv' /\ [Next]_vars =>
        [\A p \in Pids : state[p] = "ZOMBIE" =>
            /\ state'[p] = "ZOMBIE"
            /\ \A c \in Cores : ~OnCore(c, p)' \/ OnCore(c, p)]_vars
  BY <1>1
<1> QED BY <1>2, SchedInvHolds, PTL DEF Spec, ZombieIsFinal

-----------------------------------------------------------------------------
(* No frame holds 0 in TPIDR_EL0, and a RUNNING task is on a core: what    *)
(* the rest needs of the reset values.                                     *)
RestoredOnce ==
    /\ \A c \in Cores : ec[c].tpidr # 0
    /\ \A p \in Pids : state[p] = "RUNNING" => \E c \in Cores : On[c] = p

(* It is inductive relative to SchedInv.                                   *)
LEMMA RestoredOnceInv ==
    ASSUME 0 \notin ResetTpidr
    PROVE  Spec => []RestoredOnce
<1>1. Init => RestoredOnce
  BY DEF Init, RestoredOnce, FreshFrame
<1>2. SchedInv /\ RestoredOnce /\ [Next]_vars => RestoredOnce'
  <2> SUFFICES ASSUME SchedInv, RestoredOnce, [Next]_vars PROVE RestoredOnce'
    OBVIOUS
  <2>1. \A c \in Cores : ec'[c].tpidr # 0
    BY FrameKept, ZeroIsNoPid DEF RestoredOnce
  <2>2. ASSUME NEW p \in Pids, state'[p] = "RUNNING"
        PROVE  \E c \in Cores : On'[c] = p
    <3>1. state \in [Pids -> {"NONE", "READY", "RUNNING", "WAITING", "ZOMBIE"}]
      BY DEF SchedInv, TypeOK
    <3>2. On = [c \in Cores |-> On[c]]
      BY DEF On
    <3>3. CASE Nothing \/ \E q \in Pids : Adds(q)
      BY <2>2, <3>1, <3>3 DEF Nothing, Adds, RestoredOnce
    <3>4. ASSUME NEW c \in Cores, NEW q \in Pids, Takes(c, q)
          PROVE  \E d \in Cores : On'[d] = p
      <4>1. LoopEnds(ec[c].tpidr)
        BY DEF RestoredOnce, LoopEnds, SchedInv, TypeOK, Frame
      <4>2. CASE p = q
        BY <3>2, <3>4, <4>1, <4>2 DEF Takes
      <4>3. CASE p # q
        <5>1. PICK d \in Cores : On[d] = p
          BY <2>2, <3>1, <3>4, <4>3 DEF Takes, RestoredOnce
        <5>2. d # c
          BY <3>4, <5>1, ZeroIsNoPid DEF Takes
        <5> QED BY <3>2, <3>4, <5>1, <5>2 DEF Takes
      <4> QED BY <4>2, <4>3
    <3>5. ASSUME NEW c \in Cores, NEW q \in Pids,
                 NEW s \in {"READY", "WAITING", "ZOMBIE"}, Stops(c, q, s)
          PROVE  \E d \in Cores : On'[d] = p
      <4>1. p # q /\ state[p] = "RUNNING"
        BY <2>2, <3>1, <3>5 DEF Stops
      <4>2. PICK d \in Cores : On[d] = p
        BY <4>1 DEF RestoredOnce
      <4> QED BY <3>2, <3>5, <4>1, <4>2 DEF Stops
    <3> QED BY <3>3, <3>4, <3>5, StepKind
  <2> QED BY <2>1, <2>2 DEF RestoredOnce
<1> QED BY <1>1, <1>2, SchedInvHolds, PTL DEF Spec

(* If no core starts with 0 in TPIDR_EL0, every RUNNING task is on a core: *)
(* the loop around schedule restores exactly one task.                     *)
THEOREM RunningTheorem ==
    ASSUME 0 \notin ResetTpidr
    PROVE  Spec => []RunningIsOnACore
<1>1. RestoredOnce => RunningIsOnACore
  <2> SUFFICES ASSUME RestoredOnce, NEW p \in Pids, state[p] = "RUNNING"
               PROVE  \E c \in Cores : OnCore(c, p)
    BY DEF RunningIsOnACore
  <2>1. PICK c \in Cores : On[c] = p
    BY DEF RestoredOnce
  <2> QED BY <2>1, ZeroIsNoPid DEF On, PoolOn, OnCore
<1> QED BY <1>1, RestoredOnceInv, PTL

(* If no core starts with 0 in TPIDR_EL0, the scheduler implements the     *)
(* pool of tasks of TaskPool.                                              *)
THEOREM PoolTheorem ==
    ASSUME 0 \notin ResetTpidr
    PROVE  Spec => ImplementsPool
<1> DEFINE St == [p \in Pids |-> PoolStatus(p)]
<1>1. Init => Pool!PoolInit
  BY DEF Init, Pool!PoolInit, PoolStatus, PoolOn
<1>2. SchedInv /\ RestoredOnce /\ [Next]_vars => [Pool!PoolNext]_(Pool!poolVars)
  <2> SUFFICES ASSUME SchedInv, RestoredOnce, [Next]_vars
               PROVE  [Pool!PoolNext]_(Pool!poolVars)
    OBVIOUS
  <2>1. state \in [Pids -> {"NONE", "READY", "RUNNING", "WAITING", "ZOMBIE"}]
    BY DEF SchedInv, TypeOK
  <2>2. CASE Nothing
    BY <2>2 DEF Nothing, On, PoolStatus, Pool!poolVars
  <2>3. ASSUME NEW p \in Pids, Adds(p)
        PROVE  Pool!Create(p)
    BY <2>1, <2>3 DEF Adds, On, PoolStatus, Pool!Create
  <2>4. ASSUME NEW c \in Cores, NEW p \in Pids, Takes(c, p)
        PROVE  Pool!Dispatch(c, p)
    <3>1. LoopEnds(ec[c].tpidr)
      BY DEF RestoredOnce, LoopEnds, SchedInv, TypeOK, Frame
    <3>2. St' = [St EXCEPT ![p] = "running"] /\ St[p] \in {"ready", "asleep"}
      BY <2>1, <2>4 DEF Takes, PoolStatus
    <3> QED BY <2>4, <3>1, <3>2 DEF Takes, On, Pool!Dispatch
  <2>5. ASSUME NEW c \in Cores, NEW p \in Pids,
               NEW s \in {"READY", "WAITING", "ZOMBIE"}, Stops(c, p, s)
        PROVE  Pool!Leave(c, p)
    <3>1. /\ St[p] = "running"
          /\ \E r \in {"ready", "asleep", "exited"} : St' = [St EXCEPT ![p] = r]
      BY <2>1, <2>5 DEF Stops, PoolStatus
    <3> QED BY <2>5, <3>1 DEF Stops, On, Pool!Leave
  <2> QED BY <2>2, <2>3, <2>4, <2>5, StepKind DEF Pool!PoolNext
<1> QED BY <1>1, <1>2, SchedInvHolds, RestoredOnceInv, PTL
        DEF Spec, ImplementsPool, Pool!PoolSpec

-----------------------------------------------------------------------------
(***************************************************************************)
(* What a task keeps, for every number of cores, tasks and blocks of the   *)
(* heap: its stack, the registers it computed with, the result of its      *)
(* sleep, and its place in the deque.                                      *)
(*                                                                         *)
(* The stacks: the blocks that ALLOCATOR has handed out are the stacks of  *)
(* the tasks that hold one, and no two tasks share a block, also after     *)
(* exits, reuse of blocks, memory exhaustion and a wedged lock.            *)
(***************************************************************************)

(* A step that changes neither a stack nor who holds one.                  *)
LEMMA SameHolders ==
    ASSUME StackOwnership,
           UNCHANGED <<stack, heap>>,
           \A p \in Pids : HoldsStack(p)' <=> HoldsStack(p)
    PROVE  StackOwnership'
<1>1. {p \in Pids : HoldsStack(p)}' = {p \in Pids : HoldsStack(p)}
  OBVIOUS
<1> QED BY <1>1 DEF StackOwnership

(* A step after which the same tasks are ZOMBIE and the same cores wedged. *)
LEMMA SameZombies ==
    ASSUME StackOwnership,
           UNCHANGED <<stack, heap, last_id, adder>>,
           \A p \in Pids : state'[p] = "ZOMBIE" <=> state[p] = "ZOMBIE",
           \A d \in Cores : pc'[d] = "wedged" <=> pc[d] = "wedged",
           \A d \in Cores : pc[d] = "wedged" => ec'[d].tpidr = ec[d].tpidr
    PROVE  StackOwnership'
<1>1. \A p \in Pids : HoldsStack(p)' <=> HoldsStack(p)
  BY DEF HoldsStack, NextPid
<1> QED BY <1>1, SameHolders

(* Every step of a core but an exit leaves the holders alone.              *)
LEMMA CoreKeepsStacks ==
    ASSUME SchedInv, StackOwnership, NEW c \in Cores, CoreStep(c),
           ~Exit(c), ~ExitWedged(c)
    PROVE  StackOwnership'
<1>1. /\ state \in [Pids -> {"NONE", "READY", "RUNNING", "WAITING", "ZOMBIE"}]
      /\ pc \in [Cores -> {"idle", "run", "pick", "parked", "wedged", "stuck"}]
      /\ ec \in [Cores -> Frame]
      /\ counter \in [Pids -> 0 .. 1]
  <2>1. /\ \A p \in Pids : counter[p] \in 0 .. 1
        /\ counter = [p \in Pids |-> counter[p]]
    BY DEF SchedInv, SliceIsOneTick, TypeOK
  <2> QED BY <2>1 DEF SchedInv, TypeOK
<1>2. CASE Tick(c)
  <2>1. Nothing \/ \E p \in Pids : Stops(c, p, "READY")
    BY <1>1, <1>2, DescheduleKind DEF Tick
  <2>2. \A p \in Pids : state'[p] = "ZOMBIE" <=> state[p] = "ZOMBIE"
    BY <1>1, <2>1 DEF Nothing, Stops
  <2>3. pc[c] \in {"idle", "run"} /\ (pc' = pc \/ pc' = [pc EXCEPT ![c] = "pick"])
    BY <1>2 DEF Tick, deschedule
  <2>4. \A d \in Cores : pc'[d] = "wedged" <=> pc[d] = "wedged"
    BY <1>1, <2>3
  <2>5. UNCHANGED <<stack, heap, last_id, adder, ec>>
    BY <1>2 DEF Tick
  <2> QED BY <2>2, <2>4, <2>5, SameZombies
<1>3. CASE Sleep(c)
  <2> DEFINE frame == [ec[c] EXCEPT !.x = "asked"]
  <2>1. pc[c] = "run" /\ deschedule(c, "WAITING", frame, counter)
    BY <1>3 DEF Sleep, Calls
  <2>2. ec' = [ec EXCEPT ![c] = frame]
    BY <1>3 DEF Sleep
  <2>3. frame.tpidr = ec[c].tpidr
    BY <1>1 DEF Frame
  <2> HIDE DEF frame
  <2>4. \A d \in Cores : ec'[d].tpidr = ec[d].tpidr
    BY <1>1, <2>2, <2>3
  <2>5. Nothing \/ \E p \in Pids : Stops(c, p, "WAITING")
    BY <1>1, <2>1, <2>3, <2>4, DescheduleKind
  <2>6. \A p \in Pids : state'[p] = "ZOMBIE" <=> state[p] = "ZOMBIE"
    BY <1>1, <2>5 DEF Nothing, Stops
  <2>7. pc' = pc \/ pc' = [pc EXCEPT ![c] = "pick"]
    BY <2>1 DEF deschedule
  <2>8. \A d \in Cores : pc'[d] = "wedged" <=> pc[d] = "wedged"
    BY <1>1, <2>1, <2>7
  <2>9. UNCHANGED <<stack, heap, last_id, adder>>
    BY <1>3 DEF Sleep
  <2> QED BY <2>4, <2>6, <2>8, <2>9, SameZombies
<1>4. CASE UnknownSyscall(c) \/ SleepParked(c)
  <2>1. /\ pc[c] = "run" /\ pc' = [pc EXCEPT ![c] = "parked"]
        /\ UNCHANGED <<stack, heap, last_id, adder, ec, state>>
    BY <1>4 DEF UnknownSyscall, SleepParked, Calls, taskVars
  <2> QED BY <1>1, <2>1, SameZombies
<1>5. CASE ScheduleNone(c)
  BY <1>5, SameZombies DEF ScheduleNone, coreVars
<1>6. CASE Schedule(c)
  <2>1. PICK p \in Pids : Takes(c, p)
    BY <1>6, ScheduleKind
  <2>2. \A q \in Pids : state'[q] = "ZOMBIE" <=> state[q] = "ZOMBIE"
    BY <1>1, <2>1 DEF Takes
  <2>3. /\ pc[c] = "pick"
        /\ pc' = [pc EXCEPT ![c] = IF LoopEnds(ec[c].tpidr) THEN "run" ELSE "pick"]
        /\ \E f : ec' = [ec EXCEPT ![c] = f]
        /\ UNCHANGED <<stack, heap, last_id, adder>>
    BY <1>6 DEF Schedule
  <2>4. \A d \in Cores : pc'[d] = "wedged" <=> pc[d] = "wedged"
    BY <1>1, <2>3
  <2>5. \A d \in Cores : pc[d] = "wedged" => ec'[d].tpidr = ec[d].tpidr
    BY <1>1, <2>3
  <2> QED BY <2>2, <2>3, <2>4, <2>5, SameZombies
<1>7. CASE ScheduleStuck(c)
  <2>1. /\ pc[c] = "pick" /\ pc' = [pc EXCEPT ![c] = "stuck"]
        /\ UNCHANGED <<stack, heap, last_id, adder, ec, state>>
    BY <1>7 DEF ScheduleStuck, taskVars
  <2> QED BY <1>1, <2>1, SameZombies
<1>8. CASE Execute(c)
  <2>1. UNCHANGED <<stack, heap, last_id, adder, pc, state>>
    BY <1>8 DEF Execute, taskVars
  <2>2. \A d \in Cores : ec'[d].tpidr = ec[d].tpidr
    BY <1>1, <1>8 DEF Execute, Frame
  <2> QED BY <2>1, <2>2, SameZombies
<1> QED BY <1>2, <1>3, <1>4, <1>5, <1>6, <1>7, <1>8 DEF CoreStep

(* exit gives back the block of the exiting task and of no other.          *)
LEMMA ExitKeepsStacks ==
    ASSUME SchedInv, StackOwnership, NEW c \in Cores, Exit(c)
    PROVE  StackOwnership'
<1> DEFINE t == ec[c].tpidr
<1>1. /\ state \in [Pids -> {"NONE", "READY", "RUNNING", "WAITING", "ZOMBIE"}]
      /\ pc \in [Cores -> {"idle", "run", "pick", "parked", "wedged", "stuck"}]
      /\ counter \in [Pids -> 0 .. 1]
      /\ last_id \in {0} \cup Pids
  <2>1. /\ \A p \in Pids : counter[p] \in 0 .. 1
        /\ counter = [p \in Pids |-> counter[p]]
    BY DEF SchedInv, SliceIsOneTick, TypeOK
  <2> QED BY <2>1 DEF SchedInv, TypeOK
<1>2. /\ pc[c] = "run"
      /\ heap' = heap \ {stack[t]}
      /\ UNCHANGED <<last_id, stack, adder, ec>>
      /\ deschedule(c, "ZOMBIE", ec[c], [counter EXCEPT ![t] = 0])
  BY DEF Exit, Calls, Deallocated
<1>3. t \in Pids /\ t \in 2 .. last_id /\ OnCore(c, t) /\ state[t] = "RUNNING"
  BY <1>2, DescheduleFinds DEF SchedInv, CoreTable, OnCore, OneCorePerTask
<1>4. state' = [state EXCEPT ![t] = "ZOMBIE"] /\ pc' = [pc EXCEPT ![c] = "pick"]
  BY <1>2, DescheduleFinds DEF deschedule
<1>5. \A d \in Cores : d # c => ~OnCore(d, t)
  BY <1>3 DEF SchedInv, OneCorePerTask
<1>6. t # NextPid
  BY <1>1, <1>3, SchedulerConstants DEF NextPid, Pids
<1>7. HoldsStack(t)
  BY <1>3 DEF HoldsStack
<1>8. NextPid' = NextPid
  BY <1>2 DEF NextPid
<1> HIDE DEF t
<1>9. ASSUME NEW p \in Pids
      PROVE  HoldsStack(p)' <=> HoldsStack(p) /\ p # t
  <2>1. state'[p] = IF p = t THEN "ZOMBIE" ELSE state[p]
    BY <1>1, <1>4
  <2>2. \A d \in Cores : pc'[d] = "wedged" <=> pc[d] = "wedged"
    BY <1>1, <1>2, <1>4
  <2>3. CASE p = t
    BY <1>2, <1>4, <1>5, <1>6, <1>8, <2>1, <2>2, <2>3 DEF HoldsStack, OnCore
  <2>4. CASE p # t
    BY <1>2, <1>8, <2>1, <2>2, <2>4 DEF HoldsStack
  <2> QED BY <2>3, <2>4
<1>10. {q \in Pids : HoldsStack(q)}' = {q \in Pids : HoldsStack(q)} \ {t}
  BY <1>9
<1>11. heap' = {stack[p] : p \in {q \in Pids : HoldsStack(q)} \ {t}}
  <2>1. \A p \in {q \in Pids : HoldsStack(q)} \ {t} : stack[p] # stack[t]
    BY <1>3, <1>7 DEF StackOwnership
  <2>2. heap = {stack[p] : p \in {q \in Pids : HoldsStack(q)}}
    BY DEF StackOwnership
  <2>3. heap' \subseteq {stack[p] : p \in {q \in Pids : HoldsStack(q)} \ {t}}
    BY <1>2, <2>2
  <2>4. {stack[p] : p \in {q \in Pids : HoldsStack(q)} \ {t}} \subseteq heap'
    BY <1>2, <2>1, <2>2
  <2> QED BY <2>3, <2>4
<1>12. heap' = {stack'[p] : p \in {q \in Pids : HoldsStack(q)}'}
  BY <1>2, <1>10, <1>11
<1> QED BY <1>2, <1>9, <1>12 DEF StackOwnership

(* A task that spins inside exit keeps its block.                          *)
LEMMA WedgedKeepsStacks ==
    ASSUME SchedInv, StackOwnership, NEW c \in Cores, ExitWedged(c)
    PROVE  StackOwnership'
<1> DEFINE t == ec[c].tpidr
<1>1. /\ state \in [Pids -> {"NONE", "READY", "RUNNING", "WAITING", "ZOMBIE"}]
      /\ pc \in [Cores -> {"idle", "run", "pick", "parked", "wedged", "stuck"}]
  BY DEF SchedInv, TypeOK
<1>2. /\ pc[c] = "run"
      /\ UNCHANGED <<last_id, stack, heap, adder, ec>>
      /\ state' = [state EXCEPT ![t] = "ZOMBIE"]
      /\ pc' = [pc EXCEPT ![c] = "wedged"]
  BY DEF ExitWedged, Calls
<1>3. t \in Pids /\ t \in 2 .. last_id /\ state[t] = "RUNNING"
  BY <1>2, DescheduleFinds DEF SchedInv, CoreTable, OnCore, OneCorePerTask
<1>4. NextPid' = NextPid
  BY <1>2 DEF NextPid
<1>5. \A d \in Cores : pc'[d] = "wedged" <=> pc[d] = "wedged" \/ d = c
  BY <1>1, <1>2
<1> HIDE DEF t
<1>6. ASSUME NEW p \in Pids
      PROVE  HoldsStack(p)' <=> HoldsStack(p)
  <2>1. state'[p] = IF p = t THEN "ZOMBIE" ELSE state[p]
    BY <1>1, <1>2
  <2>2. CASE p = t
    BY <1>2, <1>3, <1>5, <2>2 DEF HoldsStack, t
  <2>3. CASE p # t
    BY <1>2, <1>4, <1>5, <2>1, <2>3 DEF HoldsStack, t
  <2> QED BY <2>2, <2>3
<1> QED BY <1>2, <1>6, SameHolders

(* Core 0: a new task takes a free block, and keeps it when it is added.   *)
LEMMA AdderKeepsStacks ==
    ASSUME SchedInv, SchedInv', StackOwnership,
           NewTask \/ NewTaskOutOfMemory \/ AddTask \/ AddingDone
    PROVE  StackOwnership'
<1>1. CASE NewTask
  <2>1. PICK b \in Stacks \ heap :
           /\ heap' = heap \cup {b}
           /\ stack' = [stack EXCEPT ![NextPid] = b]
    BY <1>1 DEF NewTask
  <2>2. /\ adder = "adding" /\ adder' = "new" /\ NextPid' = NextPid
        /\ UNCHANGED <<last_id, state, pc, ec>>
    BY <1>1 DEF NewTask, coreVars, NextPid
  <2>3. NextPid \in Pids /\ NextPid \notin 2 .. last_id
    BY <2>2, SchedulerConstants DEF SchedInv, TypeOK, TaskTable, NextPid, Pids
  <2>4. \A d \in Cores : ~(pc[d] = "wedged" /\ ec[d].tpidr = NextPid)
    BY <2>3 DEF SchedInv, CoreTable
  <2> DEFINE n == NextPid
  <2>5. ~HoldsStack(n)
    BY <2>2, <2>3, <2>4 DEF HoldsStack
  <2> HIDE DEF n
  <2>6. ASSUME NEW p \in Pids
        PROVE  HoldsStack(p)' <=> HoldsStack(p) \/ p = n
    BY <2>2 DEF HoldsStack, n
  <2>7. stack \in [Pids -> {0} \cup Stacks]
    BY DEF SchedInv, TypeOK
  <2>8. \A p \in Pids : stack'[p] = IF p = n THEN b ELSE stack[p]
    BY <2>1, <2>7 DEF n
  <2>9. heap' = {stack'[p] : p \in {q \in Pids : HoldsStack(q)'}}
    <3>1. heap = {stack[p] : p \in {q \in Pids : HoldsStack(q)}}
      BY DEF StackOwnership
    <3>2. heap' \subseteq {stack'[p] : p \in {q \in Pids : HoldsStack(q)'}}
      <4> SUFFICES ASSUME NEW x \in heap'
                   PROVE  \E p \in Pids : HoldsStack(p)' /\ stack'[p] = x
        OBVIOUS
      <4>1. CASE x = b
        BY <2>3, <2>6, <2>8, <4>1 DEF n
      <4>2. CASE x # b
        <5>1. PICK p \in Pids : HoldsStack(p) /\ stack[p] = x
          BY <2>1, <3>1, <4>2
        <5>2. p # n
          BY <2>5, <5>1
        <5> QED BY <2>6, <2>8, <5>1, <5>2
      <4> QED BY <4>1, <4>2
    <3>3. {stack'[p] : p \in {q \in Pids : HoldsStack(q)'}} \subseteq heap'
      <4> SUFFICES ASSUME NEW p \in Pids, HoldsStack(p)'
                   PROVE  stack'[p] \in heap'
        OBVIOUS
      <4>1. CASE p = n
        BY <2>1, <2>8, <4>1
      <4>2. CASE p # n
        <5>1. HoldsStack(p)
          BY <2>6, <4>2
        <5>2. stack[p] \in heap
          BY <3>1, <5>1
        <5> QED BY <2>1, <2>8, <4>2, <5>2
      <4> QED BY <4>1, <4>2
    <3> QED BY <3>2, <3>3
  <2>10. ASSUME NEW p \in Pids, NEW q \in Pids, HoldsStack(p)', HoldsStack(q)', p # q
         PROVE  stack'[p] # stack'[q]
    <3>1. \A r \in Pids : HoldsStack(r) => stack[r] # b
      BY <2>1 DEF StackOwnership
    <3>2. CASE p = n \/ q = n
      BY <2>6, <2>8, <2>10, <3>1, <3>2
    <3>3. CASE p # n /\ q # n
      BY <2>6, <2>8, <2>10, <3>3 DEF StackOwnership
    <3> QED BY <3>2, <3>3
  <2> QED BY <2>9, <2>10 DEF StackOwnership
<1>2. CASE NewTaskOutOfMemory \/ AddingDone
  <2>1. /\ adder = "adding" /\ adder' # "new"
        /\ UNCHANGED <<stack, heap, last_id, state, pc, ec>>
    BY <1>2 DEF NewTaskOutOfMemory, AddingDone, taskVars, coreVars
  <2>2. \A p \in Pids : HoldsStack(p)' <=> HoldsStack(p)
    BY <2>1 DEF HoldsStack, NextPid
  <2> QED BY <2>1, <2>2, SameHolders
<1>3. CASE AddTask
  <2> DEFINE n == NextPid
  <2>1. /\ adder = "new" /\ adder' = "adding" /\ last_id' = n
        /\ state' = [state EXCEPT ![n] = "READY"]
        /\ UNCHANGED <<stack, heap, pc, ec>>
    BY <1>3 DEF AddTask, coreVars
  <2>2. n \in Pids /\ 2 .. last_id' = (2 .. last_id) \cup {n} /\ n \notin 2 .. last_id
    BY <2>1, SchedulerConstants DEF SchedInv, TypeOK, TaskTable, NextPid, Pids
  <2>3. state \in [Pids -> {"NONE", "READY", "RUNNING", "WAITING", "ZOMBIE"}]
    BY DEF SchedInv, TypeOK
  <2> HIDE DEF n
  <2>4. ASSUME NEW p \in Pids
        PROVE  HoldsStack(p)' <=> HoldsStack(p)
    <3>1. CASE p = n
      BY <2>1, <2>2, <2>3, <3>1 DEF HoldsStack, n
    <3>2. CASE p # n
      BY <2>1, <2>2, <2>3, <3>2 DEF HoldsStack, n
    <3> QED BY <3>1, <3>2
  <2> QED BY <2>1, <2>4, SameHolders
<1> QED BY <1>1, <1>2, <1>3

(* Every block that ALLOCATOR has handed out is the stack of exactly one   *)
(* task that may still use it, and every such task has one.                *)
THEOREM StackTheorem == Spec => []StackOwnership
<1>1. Init => StackOwnership
  <2> SUFFICES ASSUME Init PROVE StackOwnership
    OBVIOUS
  <2>1. \A p \in Pids : ~HoldsStack(p)
    BY SchedulerConstants DEF Init, HoldsStack, NextPid, Pids
  <2> QED BY <2>1 DEF Init, StackOwnership
<1>2. SchedInv /\ SchedInv' /\ StackOwnership /\ [Next]_vars => StackOwnership'
  <2> SUFFICES ASSUME SchedInv, SchedInv', StackOwnership, [Next]_vars
               PROVE  StackOwnership'
    OBVIOUS
  <2>1. CASE NewTask \/ NewTaskOutOfMemory \/ AddTask \/ AddingDone
    BY <2>1, AdderKeepsStacks
  <2>2. ASSUME NEW c \in Cores, CoreStep(c) PROVE StackOwnership'
    BY <2>2, CoreKeepsStacks, ExitKeepsStacks, WedgedKeepsStacks
  <2>3. CASE \E p \in Pids : Elapse(p)
    BY <2>3, SameZombies DEF Elapse, coreVars
  <2>4. CASE UNCHANGED vars
    BY <2>4, SameZombies DEF vars, taskVars, coreVars
  <2> QED BY <2>1, <2>2, <2>3, <2>4 DEF Next
<1> QED BY <1>1, <1>2, SchedInvHolds, PTL DEF Spec

(* A heap with room for the stack of every task never runs out, although   *)
(* the blocks of exited tasks are handed out again.                        *)
THEOREM NeverOutOfMemory ==
    ASSUME NumStacks >= NumTasks
    PROVE  Spec => [](adder # "panicked")
<1>1. Init => adder # "panicked"
  BY DEF Init
<1>2. SchedInv /\ StackOwnership /\ adder # "panicked" /\ [Next]_vars => (adder # "panicked")'
  <2> SUFFICES ASSUME SchedInv, StackOwnership, adder # "panicked", [Next]_vars
               PROVE  adder' # "panicked"
    OBVIOUS
  <2>1. ~NewTaskOutOfMemory
    <3> SUFFICES ASSUME NewTaskOutOfMemory PROVE FALSE
      OBVIOUS
    <3> DEFINE H == {p \in Pids : HoldsStack(p)}
               T == 2 .. last_id
    <3>1. adder = "adding" /\ MoreTasks /\ Stacks \subseteq heap
      BY DEF NewTaskOutOfMemory
    <3>2. H \subseteq T
      BY <3>1 DEF HoldsStack, SchedInv, CoreTable
    <3>3. heap = {stack[p] : p \in H}
      BY DEF StackOwnership
    <3>4. IsFiniteSet(T) /\ Cardinality(T) < NumTasks
      <4>1. last_id \in Nat /\ 2 \in Int
        BY SchedulerConstants DEF SchedInv, TypeOK, Pids
      <4>2. IsFiniteSet(T) /\ Cardinality(T) = IF 2 > last_id THEN 0 ELSE last_id - 2 + 1
        BY <4>1, FS_Interval
      <4> QED BY <3>1, <4>1, <4>2, SchedulerConstants DEF MoreTasks
    <3> HIDE DEF H, T
    <3>5. IsFiniteSet(H) /\ Cardinality(H) <= Cardinality(T)
      BY <3>2, <3>4, FS_Subset
    <3>6. IsFiniteSet(heap) /\ Cardinality(heap) <= Cardinality(H)
      <4> DEFINE f == [p \in H |-> stack[p]]
      <4>1. f \in Surjection(H, heap)
        BY <3>3 DEF Surjection
      <4> QED BY <3>5, <4>1, FS_Surjection
    <3>7. IsFiniteSet(Stacks) /\ Cardinality(Stacks) = NumStacks
      <4>1. NumStacks \in Int /\ 1 \in Int /\ NumStacks >= 0
        BY SchedulerConstants
      <4>2. /\ IsFiniteSet(Stacks)
            /\ Cardinality(Stacks) = IF 1 > NumStacks THEN 0 ELSE NumStacks - 1 + 1
        BY <4>1, FS_Interval DEF Stacks
      <4> QED BY <4>1, <4>2
    <3>8. Cardinality(Stacks) <= Cardinality(heap)
      BY <3>1, <3>6, FS_Subset
    <3>9. /\ Cardinality(T) \in Nat /\ Cardinality(H) \in Nat
          /\ Cardinality(heap) \in Nat
      BY <3>4, <3>5, <3>6, FS_CardinalityType
    <3> QED BY <3>4, <3>5, <3>6, <3>7, <3>8, <3>9, SchedulerConstants
  <2>2. \A c \in Cores : CoreStep(c) => adder' = adder
    BY DEF CoreStep, Tick, Sleep, SleepParked, Exit, ExitWedged, UnknownSyscall,
           ScheduleNone, Schedule, ScheduleStuck, Execute
  <2>3. \A p \in Pids : Elapse(p) => adder' = adder
    BY DEF Elapse
  <2> QED BY <2>1, <2>2, <2>3 DEF Next, NewTask, AddTask, AddingDone, vars
<1> QED BY <1>1, <1>2, SchedInvHolds, StackTheorem, PTL DEF Spec

-----------------------------------------------------------------------------
(* What a core does to the tasks.                                          *)

(* The task of core c leaves it in state s, from place i of the deque, and *)
(* frame f is saved for it.                                                *)
Leaves(c, s, i, f) ==
    /\ pc[c] = "run"
    /\ pc' = [pc EXCEPT ![c] = "pick"]
    /\ \A d \in Cores : d # c => ec'[d] = ec[d]
    /\ processes[i] = ec[c].tpidr
    /\ processes' = MoveToBack(processes, i)
    /\ state' = [state EXCEPT ![ec[c].tpidr] = s]
    /\ context' = [context EXCEPT ![ec[c].tpidr] = f]
    /\ f \in Frame
    /\ f.step = ec[c].step
    /\ s # "WAITING" => f = ec[c]

(* Core c leaves the deque and the tasks alone; a task that is on it stays *)
(* on it.                                                                  *)
Stays(c) ==
    /\ UNCHANGED <<processes, state, context, ec>>
    /\ \E s \in {"pick", "parked", "stuck"} :
          /\ pc' = [pc EXCEPT ![c] = s]
          /\ pc[c] = "run" <=> s = "parked"
          /\ pc[c] \in {"idle", "pick", "run"}

(* A call of deschedule on a core that runs a task.                        *)
LEMMA DescheduleLeaves ==
    ASSUME SchedInv,
           NEW c \in Cores, pc[c] = "run",
           NEW new \in {"READY", "WAITING", "ZOMBIE"},
           NEW frame \in Frame, frame.tpidr = ec[c].tpidr, frame.step = ec[c].step,
           new # "WAITING" => frame = ec[c],
           NEW cnt \in [Pids -> 0 .. 1],
           deschedule(c, new, frame, cnt),
           \A d \in Cores : d # c => ec'[d] = ec[d]
    PROVE  \E i \in 1 .. Len(processes) : Leaves(c, new, i, frame)
<1>1. /\ ec[c].tpidr \in Pids
      /\ \E i \in 1 .. Len(processes) : processes[i] = ec[c].tpidr
  BY DescheduleFinds
<1>2. ~(cnt[ec[c].tpidr] - 1 > 0)
  BY <1>1
<1> QED BY <1>1, <1>2 DEF deschedule, Saved, Leaves

(* The kinds of step of a core that leave it without a task, or leave the  *)
(* tasks alone.                                                            *)
LEMMA CoreLeaves ==
    ASSUME SchedInv, NEW c \in Cores, CoreStep(c)
    PROVE  \/ Stays(c)
           \/ \E s \in {"READY", "WAITING", "ZOMBIE"}, i \in 1 .. Len(processes), f \in Frame :
                 Leaves(c, s, i, f)
           \/ ExitWedged(c)
           \/ Schedule(c)
           \/ Execute(c)
<1>1. /\ ec \in [Cores -> Frame]
      /\ counter \in [Pids -> 0 .. 1]
  <2>1. /\ \A p \in Pids : counter[p] \in 0 .. 1
        /\ counter = [p \in Pids |-> counter[p]]
    BY DEF SchedInv, SliceIsOneTick, TypeOK
  <2> QED BY <2>1 DEF SchedInv, TypeOK
<1>2. CASE Tick(c)
  <2>1. CASE pc[c] = "idle"
    BY <1>2, <2>1, DescheduleFinds DEF Tick, deschedule, Stays
  <2>2. CASE pc[c] = "run"
    <3>1. deschedule(c, "READY", ec[c], counter) /\ ec' = ec
      BY <1>2 DEF Tick
    <3>2. \E i \in 1 .. Len(processes) : Leaves(c, "READY", i, ec[c])
      BY <1>1, <2>2, <3>1, DescheduleLeaves
    <3> QED BY <1>1, <3>2
  <2> QED BY <1>2, <2>1, <2>2 DEF Tick
<1>3. CASE Sleep(c)
  <2> DEFINE frame == [ec[c] EXCEPT !.x = "asked"]
  <2>1. pc[c] = "run" /\ deschedule(c, "WAITING", frame, counter)
    BY <1>3 DEF Sleep, Calls
  <2>2. frame \in Frame /\ frame.tpidr = ec[c].tpidr /\ frame.step = ec[c].step
    BY <1>1 DEF Frame
  <2>3. \A d \in Cores : d # c => ec'[d] = ec[d]
    BY <1>1, <1>3 DEF Sleep
  <2> HIDE DEF frame
  <2>4. \E i \in 1 .. Len(processes) : Leaves(c, "WAITING", i, frame)
    BY <1>1, <2>1, <2>2, <2>3, DescheduleLeaves
  <2> QED BY <2>2, <2>4
<1>4. CASE Exit(c)
  <2> DEFINE cnt == [counter EXCEPT ![ec[c].tpidr] = 0]
  <2>1. pc[c] = "run" /\ deschedule(c, "ZOMBIE", ec[c], cnt) /\ ec' = ec
    BY <1>4 DEF Exit, Calls
  <2>2. cnt \in [Pids -> 0 .. 1]
    <3>1. 0 \in 0 .. 1
      OBVIOUS
    <3> QED BY <1>1, <3>1
  <2> HIDE DEF cnt
  <2>3. \E i \in 1 .. Len(processes) : Leaves(c, "ZOMBIE", i, ec[c])
    BY <1>1, <2>1, <2>2, DescheduleLeaves
  <2> QED BY <1>1, <2>3
<1>5. CASE UnknownSyscall(c) \/ SleepParked(c)
  BY <1>5 DEF UnknownSyscall, SleepParked, Calls, taskVars, Stays
<1>6. CASE ScheduleNone(c)
  <2>1. pc' = [pc EXCEPT ![c] = "pick"]
    BY <1>6 DEF ScheduleNone, coreVars, SchedInv, TypeOK
  <2> QED BY <1>6, <2>1 DEF ScheduleNone, coreVars, Stays
<1>7. CASE ScheduleStuck(c)
  BY <1>7 DEF ScheduleStuck, taskVars, Stays
<1> QED BY <1>2, <1>3, <1>4, <1>5, <1>6, <1>7 DEF CoreStep

(* The tasks of the deque, and what schedule restores.                     *)
LEMMA Scheduled ==
    ASSUME SchedInv, NEW c \in Cores, Schedule(c)
    PROVE  \E i \in 1 .. Len(processes) :
              /\ processes[i] \in Pids
              /\ is_ready(processes[i])
              /\ \A j \in 1 .. i - 1 : ~is_ready(processes[j])
              /\ processes' = Rotate(processes, i)
              /\ state' = [state EXCEPT ![processes[i]] = "RUNNING"]
              /\ context' = [context EXCEPT ![processes[i]] = Polled(processes[i])]
              /\ ec' = [ec EXCEPT ![c] = Polled(processes[i])]
              /\ pc[c] = "pick"
              /\ pc' = [pc EXCEPT ![c] = IF LoopEnds(ec[c].tpidr) THEN "run" ELSE "pick"]
<1>1. \A i \in 1 .. Len(processes) : processes[i] \in Pids
  BY ElementOfSeq DEF SchedInv, TypeOK
<1> QED BY <1>1 DEF Schedule

-----------------------------------------------------------------------------
(* The result of sleep.                                                    *)

(* The inductive form of SleepHonoured: the frame of a task that was       *)
(* preempted does not hold the argument of sleep either.                   *)
SleepInv ==
    /\ SleepHonoured
    /\ \A p \in Pids : state[p] = "READY" => context[p].x # "asked"

(* A step of a core preserves it.                                          *)
LEMMA CoreSleepInv ==
    ASSUME SchedInv, SleepInv, NEW c \in Cores, CoreStep(c)
    PROVE  SleepInv'
<1>1. /\ ec \in [Cores -> Frame]
      /\ pc \in [Cores -> {"idle", "run", "pick", "parked", "wedged", "stuck"}]
      /\ state \in [Pids -> {"NONE", "READY", "RUNNING", "WAITING", "ZOMBIE"}]
      /\ context \in [Pids -> Frame]
  BY DEF SchedInv, TypeOK
<1>2. CASE Stays(c)
  BY <1>1, <1>2 DEF Stays, SleepInv, SleepHonoured
<1>3. ASSUME NEW s \in {"READY", "WAITING", "ZOMBIE"}, NEW i \in 1 .. Len(processes),
             NEW f \in Frame, Leaves(c, s, i, f)
      PROVE  SleepInv'
  <2>1. \A d \in Cores : pc'[d] = "run" => d # c /\ pc[d] = "run" /\ ec'[d] = ec[d]
    BY <1>1, <1>3 DEF Leaves
  <2>2. s = "READY" => f.x # "asked"
    BY <1>3 DEF Leaves, SleepInv, SleepHonoured
  <2>3. \A p \in Pids : state'[p] = "READY" => context'[p].x # "asked"
    BY <1>1, <1>3, <2>2 DEF Leaves, SleepInv
  <2> QED BY <2>1, <2>3 DEF SleepInv, SleepHonoured
<1>4. CASE ExitWedged(c)
  <2>1. /\ ec' = ec /\ pc' = [pc EXCEPT ![c] = "wedged"]
        /\ context' = context /\ state' = [state EXCEPT ![ec[c].tpidr] = "ZOMBIE"]
    BY <1>4 DEF ExitWedged
  <2> QED BY <1>1, <2>1 DEF SleepInv, SleepHonoured
<1>5. CASE Schedule(c)
  <2>1. PICK i \in 1 .. Len(processes) :
           /\ processes[i] \in Pids
           /\ is_ready(processes[i])
           /\ state' = [state EXCEPT ![processes[i]] = "RUNNING"]
           /\ context' = [context EXCEPT ![processes[i]] = Polled(processes[i])]
           /\ ec' = [ec EXCEPT ![c] = Polled(processes[i])]
           /\ pc' = [pc EXCEPT ![c] = IF LoopEnds(ec[c].tpidr) THEN "run" ELSE "pick"]
    BY <1>5, Scheduled
  <2> DEFINE t == processes[i]
  <2>2. Polled(t).x # "asked"
    <3>1. CASE state[t] = "WAITING"
      <4>1. context[t] \in Frame /\ Polled(t) = [context[t] EXCEPT !.x = "slept"]
        BY <1>1, <2>1, <3>1 DEF Polled
      <4> QED BY <4>1 DEF Frame
    <3>2. CASE state[t] = "READY"
      BY <2>1, <3>2 DEF Polled, SleepInv
    <3> QED BY <2>1, <3>1, <3>2 DEF is_ready
  <2> HIDE DEF t
  <2>3. \A d \in Cores : pc'[d] = "run" => ec'[d].x # "asked"
    BY <1>1, <2>1, <2>2 DEF SleepInv, SleepHonoured, t
  <2>4. \A p \in Pids : state'[p] = "READY" => context'[p].x # "asked"
    BY <1>1, <2>1 DEF SleepInv
  <2> QED BY <2>3, <2>4 DEF SleepInv, SleepHonoured
<1>6. CASE Execute(c)
  <2>1. /\ UNCHANGED <<pc, state, context>>
        /\ \A d \in Cores : ec'[d] = ec[d] \/ ec'[d].x = "none"
    BY <1>1, <1>6 DEF Execute, taskVars, Frame
  <2> QED BY <2>1 DEF SleepInv, SleepHonoured
<1> QED BY <1>2, <1>3, <1>4, <1>5, <1>6, CoreLeaves

(* A task goes on after sleep only with the result in its registers: the   *)
(* poll function stores it before schedule copies the frame to the core,   *)
(* and a preempted task is never taken for a sleeping one.                 *)
THEOREM SleepTheorem == Spec => []SleepHonoured
<1>1. Init => SleepInv
  BY DEF Init, SleepInv, SleepHonoured
<1>2. SchedInv /\ SleepInv /\ [Next]_vars => SleepInv'
  <2> SUFFICES ASSUME SchedInv, SleepInv, [Next]_vars PROVE SleepInv'
    OBVIOUS
  <2>1. CASE UNCHANGED <<pc, ec, state, context>>
    BY <2>1 DEF SleepInv, SleepHonoured
  <2>2. CASE AddTask
    <3>1. /\ state \in [Pids -> {"NONE", "READY", "RUNNING", "WAITING", "ZOMBIE"}]
          /\ context \in [Pids -> Frame]
      BY DEF SchedInv, TypeOK
    <3>2. /\ state' = [state EXCEPT ![NextPid] = "READY"]
          /\ context' = [context EXCEPT ![NextPid] = FreshFrame(NextPid)]
          /\ pc' = pc /\ ec' = ec
      BY <2>2 DEF AddTask, coreVars
    <3>3. FreshFrame(NextPid).x = "none"
      BY DEF FreshFrame
    <3> QED BY <3>1, <3>2, <3>3 DEF SleepInv, SleepHonoured
  <2>3. CASE \E c \in Cores : CoreStep(c)
    BY <2>3, CoreSleepInv
  <2>4. CASE NewTask \/ NewTaskOutOfMemory \/ AddingDone \/ \E p \in Pids : Elapse(p)
    BY <2>1, <2>4 DEF NewTask, NewTaskOutOfMemory, AddingDone, Elapse, taskVars, coreVars
  <2>5. CASE UNCHANGED vars
    BY <2>1, <2>5 DEF vars, taskVars, coreVars
  <2> QED BY <2>2, <2>3, <2>4, <2>5 DEF Next
<1>3. SleepInv => SleepHonoured
  BY DEF SleepInv
<1> QED BY <1>1, <1>2, <1>3, SchedInvHolds, PTL DEF Spec

-----------------------------------------------------------------------------
(* The registers of a task.                                                *)

(* The registers of a task that is on a core are those of the core, before *)
(* a step and after it.                                                    *)
LEMMA StepOnCore ==
    ASSUME OneCorePerTask, NEW p \in Pids, NEW c \in Cores, OnCore(c, p)
    PROVE  StepOf(p) = ec[c].step
<1> DEFINE d == CHOOSE b \in Cores : OnCore(b, p)
<1>1. d \in Cores /\ OnCore(d, p)
  OBVIOUS
<1>2. d = c
  BY <1>1 DEF OneCorePerTask
<1> QED BY <1>2 DEF StepOf

LEMMA StepOnCoreAfter ==
    ASSUME OneCorePerTask', NEW p \in Pids, NEW c \in Cores, OnCore(c, p)'
    PROVE  StepOf(p)' = ec'[c].step
<1>1. \A d \in Cores : OnCore(d, p)' => d = c
  BY DEF OneCorePerTask
<1>2. (CHOOSE d \in Cores : OnCore(d, p)') = c
  BY <1>1
<1> QED BY <1>2 DEF StepOf

(* A step that leaves a task where it is.                                  *)
LEMMA SameCore ==
    ASSUME SchedInv, SchedInv', NEW p \in Pids,
           \A d \in Cores : OnCore(d, p)' <=> OnCore(d, p),
           \A d \in Cores : OnCore(d, p) => ec'[d].step \in {ec[d].step, ec[d].step + 1},
           context'[p].step = context[p].step
    PROVE  StepOf(p)' \in {StepOf(p), StepOf(p) + 1}
<1>1. CASE \E d \in Cores : OnCore(d, p)
  <2>1. PICK d \in Cores : OnCore(d, p)
    BY <1>1
  <2>2. OneCorePerTask /\ OneCorePerTask'
    BY DEF SchedInv
  <2>3. StepOf(p) = ec[d].step /\ StepOf(p)' = ec'[d].step
    BY <2>1, <2>2, StepOnCore, StepOnCoreAfter
  <2> QED BY <2>1, <2>3
<1>2. CASE ~\E d \in Cores : OnCore(d, p)
  BY <1>2 DEF StepOf
<1> QED BY <1>1, <1>2

(* A step of a core moves every task with its registers.                   *)
LEMMA CoreProgress ==
    ASSUME SchedInv, SchedInv', NEW c \in Cores, CoreStep(c), NEW p \in Pids
    PROVE  StepOf(p)' \in {StepOf(p), StepOf(p) + 1}
<1>1. /\ ec \in [Cores -> Frame]
      /\ pc \in [Cores -> {"idle", "run", "pick", "parked", "wedged", "stuck"}]
      /\ context \in [Pids -> Frame]
      /\ OneCorePerTask /\ OneCorePerTask'
  BY DEF SchedInv, TypeOK
<1>2. CASE Stays(c)
  <2>1. \A d \in Cores : OnCore(d, p)' <=> OnCore(d, p)
    BY <1>1, <1>2 DEF Stays, OnCore
  <2> QED BY <1>2, <2>1, SameCore DEF Stays
<1>3. ASSUME NEW s \in {"READY", "WAITING", "ZOMBIE"}, NEW i \in 1 .. Len(processes),
             NEW f \in Frame, Leaves(c, s, i, f)
      PROVE  StepOf(p)' \in {StepOf(p), StepOf(p) + 1}
  <2>1. /\ pc[c] = "run" /\ \A d \in Cores : pc'[d] = IF d = c THEN "pick" ELSE pc[d]
        /\ \A d \in Cores : d # c => ec'[d] = ec[d]
    BY <1>1, <1>3 DEF Leaves
  <2>2. CASE p = ec[c].tpidr
    <3>1. OnCore(c, p) /\ StepOf(p) = ec[c].step
      BY <1>1, <2>1, <2>2, StepOnCore DEF OnCore
    <3>2. \A d \in Cores : ~OnCore(d, p)'
      BY <1>1, <2>1, <3>1 DEF OnCore, OneCorePerTask
    <3>3. context'[p] = f /\ f.step = ec[c].step
      BY <1>1, <1>3, <2>2 DEF Leaves
    <3> QED BY <3>1, <3>2, <3>3 DEF StepOf
  <2>3. CASE p # ec[c].tpidr
    <3>1. \A d \in Cores : OnCore(d, p)' <=> OnCore(d, p)
      BY <2>1, <2>3 DEF OnCore
    <3>2. \A d \in Cores : OnCore(d, p) => ec'[d] = ec[d]
      BY <2>1, <2>3 DEF OnCore
    <3>3. context'[p] = context[p]
      BY <1>1, <1>3, <2>3 DEF Leaves
    <3> QED BY <3>1, <3>2, <3>3, SameCore
  <2> QED BY <2>2, <2>3
<1>4. CASE ExitWedged(c)
  <2>1. ec' = ec /\ context' = context /\ pc[c] = "run" /\ pc' = [pc EXCEPT ![c] = "wedged"]
    BY <1>4 DEF ExitWedged, Calls
  <2>2. \A d \in Cores : OnCore(d, p)' <=> OnCore(d, p)
    BY <1>1, <2>1 DEF OnCore
  <2> QED BY <2>1, <2>2, SameCore
<1>5. CASE Schedule(c)
  <2>1. PICK i \in 1 .. Len(processes) :
           /\ processes[i] \in Pids
           /\ is_ready(processes[i])
           /\ context' = [context EXCEPT ![processes[i]] = Polled(processes[i])]
           /\ ec' = [ec EXCEPT ![c] = Polled(processes[i])]
           /\ pc[c] = "pick"
           /\ pc' = [pc EXCEPT ![c] = IF LoopEnds(ec[c].tpidr) THEN "run" ELSE "pick"]
    BY <1>5, Scheduled
  <2> DEFINE t == processes[i]
  <2>2. Polled(t).step = context[t].step
    <3>1. context[t] \in Frame
      BY <1>1, <2>1
    <3>2. [context[t] EXCEPT !.x = "slept"].step = context[t].step
      BY <3>1 DEF Frame
    <3> QED BY <3>2 DEF Polled
  <2>3. \A d \in Cores : ~OnCore(d, t)
    BY <1>1, <2>1 DEF is_ready, OneCorePerTask
  <2>4. Polled(t).tpidr = t
    <3>1. t \in 2 .. last_id
      <4>1. t \in {processes[j] : j \in 1 .. Len(processes)}
        OBVIOUS
      <4> QED BY <4>1 DEF SchedInv, QueueExact
    <3>2. context[t] \in Frame /\ context[t].tpidr = t
      BY <1>1, <2>1, <3>1 DEF SchedInv, TaskTable
    <3>3. [context[t] EXCEPT !.x = "slept"].tpidr = t
      BY <3>2 DEF Frame
    <3> QED BY <3>2, <3>3 DEF Polled
  <2>5. /\ ec'[c] = Polled(t) /\ pc'[c] \in {"run", "pick"}
        /\ \A d \in Cores : d # c => ec'[d] = ec[d] /\ pc'[d] = pc[d]
    BY <1>1, <2>1
  <2>6. context'[t] = Polled(t) /\ (p # t => context'[p] = context[p])
    BY <1>1, <2>1
  <2> HIDE DEF t
  <2>7. CASE p = t
    <3>1. StepOf(p) = context[p].step
      BY <2>3, <2>7 DEF StepOf
    <3>2. CASE OnCore(c, p)'
      <4>1. StepOf(p)' = ec'[c].step
        BY <1>1, <3>2, StepOnCoreAfter
      <4> QED BY <2>2, <2>5, <2>7, <3>1, <4>1
    <3>3. CASE ~OnCore(c, p)'
      <4>1. \A d \in Cores : ~OnCore(d, p)'
        BY <2>3, <2>5, <2>7, <3>3 DEF OnCore
      <4>2. StepOf(p)' = context'[p].step
        BY <4>1 DEF StepOf
      <4> QED BY <2>2, <2>6, <2>7, <3>1, <4>2
    <3> QED BY <3>2, <3>3
  <2>8. CASE p # t
    <3>1. \A d \in Cores : OnCore(d, p)' <=> OnCore(d, p)
      BY <2>1, <2>4, <2>5, <2>8 DEF OnCore
    <3>2. \A d \in Cores : OnCore(d, p) => ec'[d] = ec[d]
      BY <2>1, <2>5 DEF OnCore
    <3> QED BY <2>6, <2>8, <3>1, <3>2, SameCore
  <2> QED BY <2>7, <2>8
<1>6. CASE Execute(c)
  <2>1. /\ UNCHANGED <<pc, context>>
        /\ \A d \in Cores : /\ ec'[d].tpidr = ec[d].tpidr
                            /\ ec'[d].step \in {ec[d].step, ec[d].step + 1}
    BY <1>1, <1>6 DEF Execute, taskVars, Frame
  <2>2. \A d \in Cores : OnCore(d, p)' <=> OnCore(d, p)
    BY <2>1 DEF OnCore
  <2> QED BY <2>1, <2>2, SameCore
<1> QED BY <1>2, <1>3, <1>4, <1>5, <1>6, CoreLeaves

(* No task ever loses computation, or computes with the registers of       *)
(* another: whichever core takes it up goes on from the frame it was       *)
(* interrupted in.                                                         *)
THEOREM ProgressTheorem == Spec => ProgressKept
<1>1. ASSUME SchedInv, SchedInv', [Next]_vars, NEW p \in 2 .. last_id
      PROVE  StepOf(p)' \in {StepOf(p), StepOf(p) + 1}
  <2>1. p \in Pids
    BY <1>1, SchedulerConstants DEF SchedInv, TypeOK, Pids
  <2>2. CASE UNCHANGED <<pc, ec, context>>
    <3>1. \A d \in Cores : OnCore(d, p)' <=> OnCore(d, p)
      BY <2>2 DEF OnCore
    <3> QED BY <1>1, <2>1, <2>2, <3>1, SameCore
  <2>3. CASE AddTask
    <3>1. /\ context' = [context EXCEPT ![NextPid] = FreshFrame(NextPid)]
          /\ pc' = pc /\ ec' = ec
      BY <2>3 DEF AddTask, coreVars
    <3>2. p # NextPid
      BY <1>1, <2>1, SchedulerConstants DEF NextPid, SchedInv, TypeOK, Pids
    <3>3. context'[p] = context[p]
      BY <1>1, <2>1, <3>1, <3>2 DEF SchedInv, TypeOK
    <3>4. \A d \in Cores : OnCore(d, p)' <=> OnCore(d, p)
      BY <3>1 DEF OnCore
    <3> QED BY <1>1, <2>1, <3>1, <3>3, <3>4, SameCore
  <2>4. CASE \E c \in Cores : CoreStep(c)
    BY <1>1, <2>1, <2>4, CoreProgress
  <2>5. CASE NewTask \/ NewTaskOutOfMemory \/ AddingDone \/ \E q \in Pids : Elapse(q)
    BY <2>2, <2>5 DEF NewTask, NewTaskOutOfMemory, AddingDone, Elapse, taskVars, coreVars
  <2>6. CASE UNCHANGED vars
    BY <2>2, <2>6 DEF vars, taskVars, coreVars
  <2> QED BY <1>1, <2>3, <2>4, <2>5, <2>6 DEF Next
<1>2. SchedInv /\ SchedInv' /\ [Next]_vars =>
        [\A p \in 2 .. last_id : StepOf(p)' \in {StepOf(p), StepOf(p) + 1}]_vars
  BY <1>1
<1> QED BY <1>2, SchedInvHolds, PTL DEF Spec, ProgressKept

-----------------------------------------------------------------------------
(* The order of the tasks.                                                 *)

(* The tasks in front of p in the deque q.                                 *)
Before(q, p) ==
    {q[j] : j \in {k \in 1 .. Len(q) : \E i \in 1 .. Len(q) : q[i] = p /\ k < i}}

(* remove(i) and push_back put nobody in front of another task, and the    *)
(* task that was moved behind it.                                          *)
LEMMA MoveToBackBefore ==
    ASSUME NEW S, NEW q \in Seq(S), NEW T, Holds(q, T),
           NEW i \in 1 .. Len(q), NEW p, p # q[i]
    PROVE  /\ Before(MoveToBack(q, i), p) \subseteq Before(q, p)
           /\ q[i] \notin Before(MoveToBack(q, i), p)
<1> DEFINE r == MoveToBack(q, i)
           n == Len(q)
           src(k) == IF k < i THEN k ELSE k + 1
<1>1. /\ n \in Nat
      /\ Len(r) = n
      /\ \A k \in 1 .. n : r[k] = IF k < i THEN q[k] ELSE IF k < n THEN q[k + 1] ELSE q[i]
  BY MoveToBackIndex
<1>2. \A k, m \in 1 .. n : k # m => q[k] # q[m]
  BY DEF Holds
<1> HIDE DEF r
<1> SUFFICES ASSUME NEW j \in 1 .. n, NEW m \in 1 .. n, r[m] = p, j < m
             PROVE  r[j] \in Before(q, p) /\ r[j] # q[i]
  BY <1>1 DEF Before, r
<1>3. m < n
  <2>1. m = n => r[m] = q[i]
    BY <1>1
  <2> QED BY <1>1, <2>1
<1>4. /\ src(j) \in 1 .. n /\ src(m) \in 1 .. n
      /\ src(j) < src(m) /\ src(j) # i
  BY <1>1, <1>3
<1>5. r[j] = q[src(j)] /\ r[m] = q[src(m)]
  BY <1>1, <1>3
<1> HIDE DEF src
<1> QED BY <1>2, <1>4, <1>5 DEF Before

(* The rotation to place i puts nobody in front of a task behind it.       *)
LEMMA RotateBefore ==
    ASSUME NEW S, NEW q \in Seq(S), NEW T, Holds(q, T),
           NEW i \in 1 .. Len(q), NEW a \in 1 .. Len(q), i <= a
    PROVE  Before(Rotate(q, i), q[a]) \subseteq Before(q, q[a])
<1> DEFINE r == Rotate(q, i)
           n == Len(q)
           w == n - i + 1
           src(k) == IF k <= w THEN k + i - 1 ELSE k - w
<1>1. /\ n \in Nat
      /\ Len(r) = n
      /\ \A k \in 1 .. n : r[k] = IF k <= w THEN q[k + i - 1] ELSE q[k - w]
  BY RotateIndex
<1>2. \A k, m \in 1 .. n : k # m => q[k] # q[m]
  BY DEF Holds
<1> HIDE DEF r
<1> SUFFICES ASSUME NEW j \in 1 .. n, NEW m \in 1 .. n, r[m] = q[a], j < m
             PROVE  r[j] \in Before(q, q[a])
  BY <1>1 DEF Before, r
<1>3. src(m) \in 1 .. n /\ src(j) \in 1 .. n
  BY <1>1
<1>4. r[j] = q[src(j)] /\ r[m] = q[src(m)]
  BY <1>1
<1>5. src(m) = a
  <2> HIDE DEF src
  <2> QED BY <1>2, <1>3, <1>4
<1>6. src(j) < a
  BY <1>1, <1>5
<1> HIDE DEF src
<1> QED BY <1>3, <1>4, <1>6 DEF Before

(* push_back puts nobody in front of a task that is in the deque.          *)
LEMMA AppendBefore ==
    ASSUME NEW S, NEW q \in Seq(S), NEW e \in S, NEW p, p # e
    PROVE  Before(Append(q, e), p) \subseteq Before(q, p)
<1> DEFINE r == Append(q, e)
           n == Len(q)
<1>1. /\ n \in Nat
      /\ Len(r) = n + 1
      /\ \A k \in 1 .. n : r[k] = q[k]
      /\ r[n + 1] = e
  OBVIOUS
<1> HIDE DEF r
<1> SUFFICES ASSUME NEW j \in 1 .. n + 1, NEW m \in 1 .. n + 1, r[m] = p, j < m
             PROVE  r[j] \in Before(q, p)
  BY <1>1 DEF Before, r
<1>2. m \in 1 .. n /\ j \in 1 .. n
  <2>1. m # n + 1
    BY <1>1
  <2> QED BY <1>1, <2>1
<1>3. r[j] = q[j] /\ q[m] = p
  BY <1>1, <1>2
<1> QED BY <1>2, <1>3 DEF Before

(* What BoundedBypass asks of a step, for one task.                        *)
NotBypassed(p) ==
    /\ Ahead(p)' \subseteq Ahead(p)
    /\ \A q \in Pids : state[q] # "RUNNING" /\ state'[q] = "RUNNING" => q \in Ahead(p)
    /\ \A q \in Pids : state[q] = "RUNNING" /\ state'[q] # "RUNNING" => q \notin Ahead(p)'

(* A step of a core keeps the order.  A core that is wedged inside exit    *)
(* does not move its task to the back.                                     *)
LEMMA CoreOrder ==
    ASSUME SchedInv, NEW c \in Cores, CoreStep(c), ~ExitWedged(c),
           NEW p \in Pids, state[p] = "READY", state'[p] = "READY"
    PROVE  NotBypassed(p)
<1>1. /\ processes \in Seq(Pids)
      /\ Holds(processes, 2 .. last_id)
      /\ state \in [Pids -> {"NONE", "READY", "RUNNING", "WAITING", "ZOMBIE"}]
  BY DEF SchedInv, TypeOK, QueueExact, Holds
<1>2. Ahead(p) = Before(processes, p) /\ Ahead(p)' = Before(processes', p)
  BY DEF Ahead, Before
<1>3. CASE Stays(c) \/ Execute(c)
  BY <1>2, <1>3 DEF Stays, Execute, taskVars, NotBypassed
<1>4. ASSUME NEW s \in {"READY", "WAITING", "ZOMBIE"}, NEW i \in 1 .. Len(processes),
             NEW f \in Frame, Leaves(c, s, i, f)
      PROVE  NotBypassed(p)
  <2>1. /\ processes' = MoveToBack(processes, i)
        /\ processes[i] = ec[c].tpidr
        /\ state' = [state EXCEPT ![processes[i]] = s]
    BY <1>4 DEF Leaves
  <2>2. processes[i] \in Pids /\ state[processes[i]] = "RUNNING"
    <3>1. processes[i] \in Pids
      BY <1>1, ElementOfSeq
    <3>2. OnCore(c, processes[i])
      BY <1>4 DEF Leaves, OnCore
    <3>3. pc[c] # "wedged"
      BY <1>4 DEF Leaves
    <3> QED BY <3>1, <3>2, <3>3 DEF SchedInv, OneCorePerTask
  <2>3. p # processes[i]
    BY <2>2
  <2>4. /\ Ahead(p)' \subseteq Ahead(p)
        /\ processes[i] \notin Ahead(p)'
    BY <1>1, <1>2, <2>1, <2>3, MoveToBackBefore
  <2>5. \A q \in Pids : q # processes[i] => state'[q] = state[q]
    BY <1>1, <2>1
  <2> QED BY <2>2, <2>4, <2>5 DEF NotBypassed
<1>5. CASE Schedule(c)
  <2>1. PICK i \in 1 .. Len(processes) :
           /\ processes[i] \in Pids
           /\ \A j \in 1 .. i - 1 : ~is_ready(processes[j])
           /\ processes' = Rotate(processes, i)
           /\ state' = [state EXCEPT ![processes[i]] = "RUNNING"]
    BY <1>5, Scheduled
  <2>2. PICK a \in 1 .. Len(processes) : processes[a] = p
    <3>1. p \in 2 .. last_id
      BY DEF SchedInv, TaskTable
    <3>2. p \in {processes[j] : j \in 1 .. Len(processes)}
      BY <3>1 DEF SchedInv, QueueExact
    <3> QED BY <3>2
  <2>3. is_ready(p) /\ p # processes[i]
    BY <1>1, <2>1 DEF is_ready
  <2>4. i < a
    <3>1. a \notin 1 .. i - 1
      BY <2>1, <2>2, <2>3
    <3>2. a # i
      BY <2>2, <2>3
    <3> QED BY <3>1, <3>2
  <2>5. Ahead(p)' \subseteq Ahead(p)
    BY <1>1, <1>2, <2>1, <2>2, <2>4, RotateBefore
  <2>6. processes[i] \in Ahead(p)
    BY <1>2, <2>2, <2>4 DEF Before
  <2>7. \A q \in Pids : state'[q] = IF q = processes[i] THEN "RUNNING" ELSE state[q]
    BY <1>1, <2>1
  <2> QED BY <2>5, <2>6, <2>7 DEF NotBypassed
<1> QED BY <1>3, <1>4, <1>5, CoreLeaves

(* If the heap has room for every task, a READY task is overtaken by no    *)
(* task more than once: only a task in front of it is started, nobody gets *)
(* in front of it, and a task that stops is behind it.                     *)
THEOREM BypassTheorem ==
    ASSUME NumStacks >= NumTasks
    PROVE  Spec => BoundedBypass
<1>1. ASSUME SchedInv, adder # "panicked", [Next]_vars,
             NEW p \in Pids, state[p] = "READY", state'[p] = "READY"
      PROVE  NotBypassed(p)
  <2>1. CASE UNCHANGED <<processes, state>>
    BY <2>1 DEF NotBypassed, Ahead
  <2>2. CASE AddTask
    <3>1. /\ processes' = Append(processes, NextPid)
          /\ state' = [state EXCEPT ![NextPid] = "READY"]
      BY <2>2 DEF AddTask
    <3>2. NextPid \in Pids /\ NextPid \notin 2 .. last_id
      BY <1>1, <2>2, SchedulerConstants DEF AddTask, SchedInv, TypeOK, TaskTable, NextPid, Pids
    <3>3. state[NextPid] = "NONE" /\ p # NextPid
      BY <1>1, <3>2 DEF SchedInv, TaskTable
    <3>4. processes \in Seq(Pids)
      BY <1>1 DEF SchedInv, TypeOK
    <3>5. Before(processes', p) \subseteq Before(processes, p)
      BY <3>1, <3>2, <3>3, <3>4, AppendBefore
    <3>6. \A q \in Pids : state'[q] = state[q] \/ (q = NextPid /\ state'[q] = "READY")
      BY <1>1, <3>1 DEF SchedInv, TypeOK
    <3> QED BY <3>3, <3>5, <3>6 DEF NotBypassed, Ahead, Before
  <2>3. ASSUME NEW c \in Cores, CoreStep(c)
        PROVE  NotBypassed(p)
    <3>1. ~ExitWedged(c)
      BY <1>1 DEF ExitWedged
    <3> QED BY <1>1, <2>3, <3>1, CoreOrder
  <2>4. CASE NewTask \/ NewTaskOutOfMemory \/ AddingDone \/ \E q \in Pids : Elapse(q)
    BY <2>1, <2>4 DEF NewTask, NewTaskOutOfMemory, AddingDone, Elapse, taskVars, coreVars
  <2>5. CASE UNCHANGED vars
    BY <2>1, <2>5 DEF vars, taskVars, coreVars
  <2> QED BY <1>1, <2>2, <2>3, <2>4, <2>5 DEF Next
<1>2. SchedInv /\ adder # "panicked" /\ [Next]_vars =>
        [\A p \in Pids :
            state[p] = "READY" /\ state'[p] = "READY" =>
               /\ Ahead(p)' \subseteq Ahead(p)
               /\ \A q \in Pids : state[q] # "RUNNING" /\ state'[q] = "RUNNING" => q \in Ahead(p)
               /\ \A q \in Pids : state[q] = "RUNNING" /\ state'[q] # "RUNNING" => q \notin Ahead(p)']_vars
  BY <1>1 DEF NotBypassed
<1> QED BY <1>2, SchedInvHolds, NeverOutOfMemory, PTL DEF Spec, BoundedBypass

=============================================================================
