------------------------------ MODULE BootProofs ------------------------------
(***************************************************************************)
(* Proofs about Boot, for any number of cores and with or without the      *)
(* timing assumption: no tick comes before the scheduler and the handler   *)
(* it needs, and no MMU is turned on before the tables are filled.         *)
(***************************************************************************)
EXTENDS Boot, FiniteSetTheorems, TLAPS

USE DEF Secondary

(* The state in which core 0 enters kernel_init satisfies the invariant.   *)
LEMMA InitBootInv == Init => BootInv
<1> SUFFICES ASSUME Init PROVE BootInv
  OBVIOUS
<1> USE BootConstants DEF Init
<1>1. Arrived = {}
  BY DEF Arrived, PastBarrier
<1>2. Cardinality({}) = 0 /\ Barrier \in Nat
  BY FS_EmptySet, FS_CardinalityType
<1>3. TypeOK
  <2>1. pc \in [Cores -> Labels]
    BY DEF Labels
  <2>2. coord \in 0 .. Barrier /\ toAdd \in 0 .. NumTasks
    BY <1>2
  <2> QED BY <2>1, <2>2 DEF TypeOK
<1>4. BootOrder
  BY DEF BootOrder, PastBarrier
<1>5. BarrierCount
  BY <1>1, <1>2 DEF BarrierCount, PastBarrier
<1> QED BY <1>3, <1>4, <1>5 DEF BootInv

(* A step of one core that does not come to the barrier keeps the count;   *)
(* a core gets past the barrier only when all cores came to it.            *)
LEMMA BarrierKept ==
    ASSUME BootInv, NEW c \in Cores, NEW l,
           pc' = [pc EXCEPT ![c] = l],
           coord' = coord,
           l \in PastBarrier \cup {"barrier"} <=> pc[c] \in PastBarrier \cup {"barrier"},
           l \in PastBarrier => Arrived = Cores
    PROVE  BarrierCount'
<1>1. \A d \in Cores : pc'[d] = IF d = c THEN l ELSE pc[d]
  BY DEF BootInv, TypeOK
<1>2. Arrived' = Arrived
  BY <1>1 DEF Arrived
<1>3. \A d \in Cores : pc'[d] \in PastBarrier => Arrived = Cores
  BY <1>1 DEF BootInv, BarrierCount
<1> QED BY <1>2, <1>3 DEF BootInv, BarrierCount

(* When the loop of set_ready_and_wait ends, every core came to it.        *)
LEMMA BarrierFull ==
    ASSUME BootInv, AllArrived
    PROVE  Arrived = Cores
<1>1. Arrived \in SUBSET Cores /\ coord = Cardinality(Arrived)
  BY DEF Arrived, BootInv, BarrierCount
<1>2. /\ IsFiniteSet(Cores)
      /\ Barrier = Cardinality(Cores)
  BY BootConstants
<1>3. /\ Cardinality(Arrived) <= Cardinality(Cores)
      /\ Cardinality(Cores) = Cardinality(Arrived) => Cores = Arrived
      /\ IsFiniteSet(Arrived)
  BY <1>1, <1>2, FS_Subset
<1>4. Cardinality(Arrived) \in Nat /\ Cardinality(Cores) \in Nat
  BY <1>2, <1>3, FS_CardinalityType
<1> QED BY <1>1, <1>2, <1>3, <1>4 DEF AllArrived

(* A core that takes a tick finds its handler and the scheduler.           *)
LEMMA TickIsPrepared ==
    ASSUME BootInv, NEW c \in irq \cap armed, pc[c] \in {"idle", "task"}
    PROVE  c \in handlers /\ scheduler /\ c # Core0 /\ Arrived = Cores
<1>1. c \in Cores /\ c \in handlers /\ c # Core0
  BY DEF BootInv, TypeOK, BootOrder
<1>2. Arrived = Cores
  BY <1>1 DEF BootInv, BarrierCount, PastBarrier
<1>3. pc[Core0] \in PastBarrier \cup {"barrier"}
  BY <1>2, BootConstants DEF Arrived
<1> QED BY <1>1, <1>2, <1>3 DEF BootInv, BootOrder

(* The fetch_add of a core that comes to the barrier keeps the count.      *)
LEMMA ArriveCounts ==
    ASSUME BootInv, NEW c \in Cores, Arrive(c)
    PROVE  BarrierCount' /\ coord' \in 0 .. Barrier
<1>1. \A d \in Cores : pc'[d] = IF d = c THEN "barrier" ELSE pc[d]
  BY DEF BootInv, TypeOK, Arrive, Goto
<1>2. pc[c] = "arrive" /\ coord' = coord + 1
  BY DEF Arrive, Goto
<1>3. Arrived' = Arrived \cup {c} /\ c \notin Arrived
  BY <1>1, <1>2 DEF Arrived, PastBarrier
<1>4. Arrived \in SUBSET Cores /\ Arrived' \in SUBSET Cores
  BY DEF Arrived
<1>5. IsFiniteSet(Cores) /\ Barrier = Cardinality(Cores)
  BY BootConstants
<1>6. IsFiniteSet(Arrived) /\ Cardinality(Arrived') <= Cardinality(Cores)
  BY <1>4, <1>5, FS_Subset
<1>7. Cardinality(Arrived') = Cardinality(Arrived) + 1
  BY <1>3, <1>6, FS_AddElement
<1>8. coord' = Cardinality(Arrived')
  BY <1>2, <1>7 DEF BootInv, BarrierCount
<1>9. \A d \in Cores : pc'[d] \notin PastBarrier
  <2> SUFFICES ASSUME NEW d \in Cores, pc'[d] \in PastBarrier PROVE FALSE
    OBVIOUS
  <2>1. d # c /\ pc[d] \in PastBarrier
    BY <1>1 DEF PastBarrier
  <2> QED BY <1>3, <2>1 DEF BootInv, BarrierCount
<1>10. Cardinality(Arrived) \in Nat /\ Cardinality(Cores) \in Nat
  BY <1>5, <1>6, FS_CardinalityType
<1> QED BY <1>5, <1>6, <1>7, <1>8, <1>9, <1>10 DEF BarrierCount

(* The steps of core 0 alone keep the invariant.                           *)
LEMMA Core0StepInv ==
    ASSUME BootInv, Core0Step
    PROVE  BootInv'
<1> USE BootConstants DEF BootInv, Goto
<1>1. CASE MmuInit
  <2>1. TypeOK'
    BY <1>1 DEF MmuInit, TypeOK, Labels
  <2>2. BootOrder'
    BY <1>1 DEF MmuInit, TypeOK, BootOrder, PastBarrier
  <2>3. BarrierCount'
    BY <1>1, BarrierKept DEF MmuInit, PastBarrier
  <2> QED BY <2>1, <2>2, <2>3
<1>2. CASE WakeSecondaries
  <2>1. TypeOK'
    BY <1>2 DEF WakeSecondaries, TypeOK, Labels
  <2>2. BootOrder'
    BY <1>2 DEF WakeSecondaries, TypeOK, BootOrder, PastBarrier
  <2>3. BarrierCount'
    BY <1>2, BarrierKept DEF WakeSecondaries, PastBarrier
  <2> QED BY <2>1, <2>2, <2>3
<1>3. CASE SecondariesAwake
  <2>1. TypeOK'
    BY <1>3 DEF SecondariesAwake, TypeOK, Labels
  <2>2. BootOrder'
    BY <1>3 DEF SecondariesAwake, TypeOK, BootOrder, PastBarrier
  <2>3. BarrierCount'
    BY <1>3, BarrierKept DEF SecondariesAwake, PastBarrier
  <2> QED BY <2>1, <2>2, <2>3
<1>4. CASE InitUsb
  <2>1. TypeOK'
    BY <1>4 DEF InitUsb, TypeOK, Labels
  <2>2. BootOrder'
    BY <1>4 DEF InitUsb, TypeOK, BootOrder, PastBarrier
  <2>3. BarrierCount'
    BY <1>4, BarrierKept DEF InitUsb, PastBarrier
  <2> QED BY <2>1, <2>2, <2>3
<1>5. CASE EthAvailable
  <2> DEFINE l == IF usb = "absent" THEN "parked" ELSE "await_link"
  <2>0. l \in {"parked", "await_link"} /\ pc' = [pc EXCEPT ![Core0] = l]
    BY <1>5 DEF EthAvailable
  <2>1. TypeOK'
    BY <1>5, <2>0 DEF EthAvailable, TypeOK, Labels
  <2>2. BootOrder'
    BY <1>5 DEF EthAvailable, TypeOK, BootOrder, PastBarrier
  <2>3. BarrierCount'
    BY <1>5, <2>0, BarrierKept DEF EthAvailable, PastBarrier
  <2> QED BY <2>1, <2>2, <2>3
<1>6. CASE LinkComesUp
  <2>1. TypeOK' /\ BootOrder'
    BY <1>6 DEF LinkComesUp, TypeOK, BootOrder
  <2>2. BarrierCount'
    BY <1>6 DEF LinkComesUp, BarrierCount, Arrived
  <2> QED BY <2>1, <2>2
<1>7. CASE LinkUp
  <2>1. TypeOK'
    BY <1>7 DEF LinkUp, TypeOK, Labels
  <2>2. BootOrder'
    BY <1>7 DEF LinkUp, TypeOK, BootOrder, PastBarrier
  <2>3. BarrierCount'
    BY <1>7, BarrierKept DEF LinkUp, PastBarrier
  <2> QED BY <2>1, <2>2, <2>3
<1>8. CASE InitScheduler
  <2>1. TypeOK'
    BY <1>8 DEF InitScheduler, TypeOK, Labels
  <2>2. BootOrder'
    BY <1>8 DEF InitScheduler, TypeOK, BootOrder, PastBarrier
  <2>3. BarrierCount'
    BY <1>8, BarrierKept DEF InitScheduler, PastBarrier
  <2> QED BY <2>1, <2>2, <2>3
<1>9. CASE AddTask
  <2>1. TypeOK' /\ BootOrder'
    BY <1>9 DEF AddTask, TypeOK, BootOrder
  <2>2. BarrierCount'
    BY <1>9 DEF AddTask, BarrierCount, Arrived
  <2> QED BY <2>1, <2>2
<1>10. CASE UnmaskCore0
  <2>1. TypeOK'
    BY <1>10 DEF UnmaskCore0, TypeOK, Labels
  <2>2. BootOrder'
    BY <1>10 DEF UnmaskCore0, TypeOK, BootOrder, PastBarrier
  <2>3. Arrived = Cores
    BY <1>10 DEF UnmaskCore0, BarrierCount, PastBarrier
  <2>4. BarrierCount'
    BY <1>10, <2>3, BarrierKept DEF UnmaskCore0, PastBarrier
  <2> QED BY <2>1, <2>2, <2>4
<1> QED BY <1>1, <1>2, <1>3, <1>4, <1>5, <1>6, <1>7, <1>8, <1>9, <1>10 DEF Core0Step

(* The steps of a secondary core alone keep the invariant.                 *)
LEMMA SecondaryStepInv ==
    ASSUME BootInv, NEW c \in Secondary, SecondaryStep(c)
    PROVE  BootInv'
<1> USE BootConstants DEF BootInv, Goto
<1>1. CASE LeaveStub(c)
  <2>1. TypeOK'
    BY <1>1 DEF LeaveStub, TypeOK, Labels
  <2>2. BootOrder'
    BY <1>1 DEF LeaveStub, TypeOK, BootOrder, PastBarrier
  <2>3. BarrierCount'
    BY <1>1, BarrierKept DEF LeaveStub, PastBarrier
  <2> QED BY <2>1, <2>2, <2>3
<1>2. CASE ClearSlot(c)
  <2>1. TypeOK'
    BY <1>2 DEF ClearSlot, TypeOK, Labels
  <2>2. BootOrder'
    BY <1>2 DEF ClearSlot, TypeOK, BootOrder, PastBarrier
  <2>3. BarrierCount'
    BY <1>2, BarrierKept DEF ClearSlot, PastBarrier
  <2> QED BY <2>1, <2>2, <2>3
<1>3. CASE RegisterHandler(c)
  <2>1. TypeOK'
    BY <1>3 DEF RegisterHandler, TypeOK, Labels
  <2>2. BootOrder'
    BY <1>3 DEF RegisterHandler, TypeOK, BootOrder, PastBarrier
  <2>3. Arrived = Cores
    BY <1>3 DEF RegisterHandler, BarrierCount, PastBarrier
  <2>4. BarrierCount'
    BY <1>3, <2>3, BarrierKept DEF RegisterHandler, PastBarrier
  <2> QED BY <2>1, <2>2, <2>4
<1>4. CASE ArmTimer(c)
  <2>1. TypeOK'
    BY <1>4 DEF ArmTimer, TypeOK, Labels
  <2>2. BootOrder'
    BY <1>4 DEF ArmTimer, TypeOK, BootOrder, PastBarrier
  <2>3. Arrived = Cores
    BY <1>4 DEF ArmTimer, BarrierCount, PastBarrier
  <2>4. BarrierCount'
    BY <1>4, <2>3, BarrierKept DEF ArmTimer, PastBarrier
  <2> QED BY <2>1, <2>2, <2>4
<1>5. CASE Unmask(c)
  <2>1. TypeOK'
    BY <1>5 DEF Unmask, TypeOK, Labels
  <2>2. BootOrder'
    BY <1>5 DEF Unmask, TypeOK, BootOrder, PastBarrier
  <2>3. Arrived = Cores
    BY <1>5 DEF Unmask, BarrierCount, PastBarrier
  <2>4. BarrierCount'
    BY <1>5, <2>3, BarrierKept DEF Unmask, PastBarrier
  <2> QED BY <2>1, <2>2, <2>4
<1> QED BY <1>1, <1>2, <1>3, <1>4, <1>5 DEF SecondaryStep

(* The boot steps that all cores make, and the interrupts, keep it too.    *)
LEMMA AnyCoreStepInv ==
    ASSUME BootInv, NEW c \in Cores, AnyCoreStep(c)
    PROVE  BootInv'
<1> USE BootConstants DEF BootInv, Goto
<1>1. CASE CoreSetup(c)
  <2> DEFINE l == IF c = Core0 THEN "init_usb" ELSE "arrive"
  <2>0. /\ l \in {"init_usb", "arrive"} /\ pc[c] = "core_setup"
        /\ pc' = [pc EXCEPT ![c] = l]
    BY <1>1 DEF CoreSetup
  <2>1. TypeOK'
    BY <1>1, <2>0 DEF CoreSetup, TypeOK, Labels
  <2>2. BootOrder'
    BY <1>1 DEF CoreSetup, TypeOK, BootOrder, PastBarrier
  <2>3. BarrierCount'
    BY <1>1, <2>0, BarrierKept DEF CoreSetup, PastBarrier
  <2> QED BY <2>1, <2>2, <2>3
<1>2. CASE Arrive(c)
  <2>1. coord' \in 0 .. Barrier /\ BarrierCount'
    BY <1>2, ArriveCounts
  <2>2. TypeOK'
    BY <1>2, <2>1 DEF Arrive, TypeOK, Labels
  <2>3. BootOrder'
    BY <1>2 DEF Arrive, TypeOK, BootOrder, PastBarrier
  <2> QED BY <2>1, <2>2, <2>3
<1>3. CASE PassBarrier(c)
  <2> DEFINE l == IF c = Core0 THEN "add_tasks" ELSE "register"
  <2>0. /\ l \in {"add_tasks", "register"} /\ pc[c] = "barrier"
        /\ pc' = [pc EXCEPT ![c] = l]
    BY <1>3 DEF PassBarrier
  <2>1. TypeOK'
    BY <1>3, <2>0 DEF PassBarrier, TypeOK, Labels
  <2>2. BootOrder'
    BY <1>3 DEF PassBarrier, TypeOK, BootOrder, PastBarrier
  <2>3. Arrived = Cores
    BY <1>3, BarrierFull DEF PassBarrier
  <2>4. BarrierCount'
    BY <1>3, <2>0, <2>3, BarrierKept DEF PassBarrier, PastBarrier
  <2> QED BY <2>1, <2>2, <2>4
<1>4. CASE TakeTick(c)
  <2>1. c \in handlers /\ scheduler /\ c # Core0 /\ Arrived = Cores
    BY <1>4, TickIsPrepared DEF TakeTick
  <2>2. pc' = [pc EXCEPT ![c] = "pick"] /\ ready' \in {ready, ready + 1}
    BY <1>4, <2>1 DEF TakeTick
  <2>3. TypeOK'
    BY <1>4, <2>2 DEF TakeTick, TypeOK, Labels
  <2>4. BootOrder'
    BY <1>4, <2>1, <2>2 DEF TakeTick, TypeOK, BootOrder, PastBarrier
  <2>5. BarrierCount'
    BY <1>4, <2>1, <2>2, BarrierKept DEF TakeTick, PastBarrier
  <2> QED BY <2>3, <2>4, <2>5
<1>5. CASE Pick(c)
  <2>1. TypeOK'
    BY <1>5 DEF Pick, TypeOK, Labels
  <2>2. BootOrder'
    BY <1>5 DEF Pick, TypeOK, BootOrder, PastBarrier
  <2>3. Arrived = Cores
    BY <1>5 DEF Pick, BarrierCount, PastBarrier
  <2>4. BarrierCount'
    BY <1>5, <2>3, BarrierKept DEF Pick, PastBarrier
  <2> QED BY <2>1, <2>2, <2>4
<1>6. CASE TaskSleeps(c)
  <2>1. TypeOK'
    BY <1>6 DEF TaskSleeps, TypeOK, Labels
  <2>2. BootOrder'
    BY <1>6 DEF TaskSleeps, TypeOK, BootOrder, PastBarrier
  <2>3. Arrived = Cores
    BY <1>6 DEF TaskSleeps, BarrierCount, PastBarrier
  <2>4. BarrierCount'
    BY <1>6, <2>3, BarrierKept DEF TaskSleeps, PastBarrier
  <2> QED BY <2>1, <2>2, <2>4
<1> QED BY <1>1, <1>2, <1>3, <1>4, <1>5, <1>6 DEF AnyCoreStep

(* The invariant is inductive.                                             *)
LEMMA BootInvStep == BootInv /\ [Next]_vars => BootInv'
<1> SUFFICES ASSUME BootInv, [Next]_vars PROVE BootInv'
  OBVIOUS
<1>1. CASE Core0Step
  BY <1>1, Core0StepInv
<1>2. CASE \E c \in Secondary : SecondaryStep(c)
  BY <1>2, SecondaryStepInv
<1>3. CASE \E c \in Cores : AnyCoreStep(c)
  BY <1>3, AnyCoreStepInv
<1>4. CASE TaskWakes
  <2>1. TypeOK' /\ BootOrder'
    BY <1>4 DEF BootInv, TaskWakes, TypeOK, BootOrder
  <2>2. BarrierCount'
    BY <1>4 DEF BootInv, TaskWakes, BarrierCount, Arrived
  <2> QED BY <2>1, <2>2 DEF BootInv
<1>5. CASE UNCHANGED vars
  BY <1>5 DEF vars, BootInv, TypeOK, BootOrder, BarrierCount, Arrived
<1> QED BY <1>1, <1>2, <1>3, <1>4, <1>5 DEF Next

(* BootInv holds throughout the boot, whatever the order of the cores.     *)
THEOREM BootInvHolds == Spec => []BootInv
BY InitBootInv, BootInvStep, PTL DEF Spec

(* No core walks the translation tables before mmu().init() filled them.   *)
THEOREM TablesFirst == Spec => []MmuNeedsTables
<1>1. BootInv => MmuNeedsTables
  BY DEF BootInv, BootOrder, MmuNeedsTables
<1> QED BY <1>1, BootInvHolds, PTL

(* Past set_ready_and_wait every core came to the barrier with its MMU on, *)
(* the scheduler exists, and a core that can take a tick has its handler:  *)
(* without the timing assumption, for any number of cores.                 *)
THEOREM BarrierTheorem == Spec => []NoEarlyTick
<1>1. BootInv => NoEarlyTick
  <2> SUFFICES ASSUME BootInv, NEW c \in Cores
               PROVE  /\ pc[c] \in PastBarrier =>
                            /\ scheduler
                            /\ \A d \in Cores : d \in mmu /\ pc[d] \in PastBarrier \cup {"barrier"}
                      /\ c \in irq \cap armed => c \in handlers
    BY DEF NoEarlyTick
  <2>1. ASSUME pc[c] \in PastBarrier
        PROVE  \A d \in Cores : pc[d] \in PastBarrier \cup {"barrier"}
    BY <2>1 DEF BootInv, BarrierCount, Arrived
  <2> QED BY <2>1, BootConstants DEF BootInv, BootOrder
<1> QED BY <1>1, BootInvHolds, PTL

(* With an Ethernet controller present no core panics while it boots.      *)
THEOREM NoPanic == Spec => []NoBootPanic
<1>1. BootInv => NoBootPanic
  BY DEF BootInv, BootOrder, NoBootPanic
<1> QED BY <1>1, BootInvHolds, PTL
=============================================================================
