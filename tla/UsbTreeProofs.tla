---------------------------- MODULE UsbTreeProofs ----------------------------
(***************************************************************************)
(* Proofs about UsbTree, for every tree of devices, whatever their speeds, *)
(* drivers and ports are, and whichever of their messages fail.            *)
(***************************************************************************)
EXTENDS UsbTree, FiniteSetTheorems, SequenceTheorems, TLAPS

InitPc == {"descriptor", "address", "configuration"}
HubPc == {"detect", "children", "status", "recheck"}
ConfigPc == {"configure", "drivers"} \cup HubPc
Pcs == {"new", "initialized", "configured", "gone"} \cup InitPc \cup ConfigPc

(* The device's Initialize or Configure has been called and not returned.  *)
Running(n) == pc[n] \in InitPc \cup ConfigPc

(* EnumeratePorts has been called for the device.                          *)
HubEntered(n) ==
    \/ pc[n] \in HubPc
    \/ \E i \in DOMAIN Drivers[n] : i < fi[n] /\ Drivers[n][i] = "hub"

Unaddressed == {"new", "descriptor", "address"}

-----------------------------------------------------------------------------
(* The inductive invariant.                                                *)

TreeTypes ==
    /\ cur \in Node \cup {Host}
    /\ host \in [pc : {"vendor", "core", "host", "root", "ready", "done", "failed"},
                 handler : BOOLEAN, int : BOOLEAN, mask : BOOLEAN, channels : Nat]
    /\ pc \in [Node -> Pcs]
    /\ fi \in [Node -> Nat \ {0}] /\ port \in [Node -> Nat \ {0}]
    /\ object \in [Node -> {"none", "live", "freed"}]

(* The calls are nested: the device whose code runs is the innermost one,  *)
(* and a caller is at the port of the device that it has called.           *)
CallInv ==
    /\ host.pc \notin {"ready", "done"} => cur = Host /\ \A n \in Node : pc[n] = "new"
    /\ cur # Host => host.pc = "ready" /\ Running(cur)
    /\ \A n \in Node : Running(n) =>
          /\ cur # Parent[n]
          /\ pc[n] \in InitPc => cur = n
          /\ n # Root => /\ port[Parent[n]] = PortOf[n]
                         /\ pc[Parent[n]] = IF pc[n] \in InitPc THEN "detect" ELSE "children"

(* A device has an object from its detection until it is given up.         *)
LiveInv == \A n \in Node : object[n] = "live" <=> pc[n] \notin {"new", "gone"}

(* The functions of a device are configured one after the other, once.     *)
FunctionInv ==
    \A n \in Node :
        /\ pc[n] \in {"new", "initialized", "configure"} \cup InitPc => fi[n] = 1
        /\ pc[n] \in HubPc => fi[n] \in DOMAIN Drivers[n] /\ Drivers[n][fi[n]] = "hub"

(* The loops of a hub visit each port once: what is plugged in further on  *)
(* is untouched.                                                           *)
PortInv ==
    \A c \in Node \ {Root} :
        LET p == Parent[c] IN
        /\ pc[c] # "new" => HubEntered(p)
        /\ pc[p] = "detect" /\ pc[c] # "new" =>
              \/ PortOf[c] < port[p] /\ pc[c] \in {"initialized", "gone"}
              \/ PortOf[c] = port[p] /\ Running(c)
        /\ pc[p] = "children" /\ PortOf[c] >= port[p] =>
              \/ pc[c] \in {"new", "initialized", "gone"}
              \/ PortOf[c] = port[p] /\ Running(c)

ControlInv == TreeTypes /\ CallInv /\ LiveInv /\ FunctionInv /\ PortInv

(* The device has its own address, or had it when its ports were visited.  *)
Placed(n) == pc[n] \notin Unaddressed \cup {"gone"} \/ HubEntered(n)

Given == {n \in Node : pc[n] \notin Unaddressed}

AddressInv ==
    /\ address \in [Node -> Nat] /\ hw \in [Node -> [on : BOOLEAN, addr : Nat]]
    /\ next \in Nat /\ next >= 1 /\ next <= Cardinality(Given) + 1
    /\ \A n \in Node :
          /\ address[n] < next /\ hw[n].addr < next
          /\ ~hw[n].on => hw[n].addr = 0
          /\ pc[n] \in Unaddressed => address[n] = 0
          /\ pc[n] \in Unaddressed \ {"new"} => hw[n].addr = 0
          /\ Placed(n) => address[n] # 0 /\ (hw[n].on => hw[n].addr = address[n])
    /\ \A m, n \in Node :
          m # n /\ Live(m) /\ Live(n) /\ address[n] # 0 => address[m] # address[n]

(* The devices above one that was found were found before it, the ones     *)
(* above a high-speed device are of high speed, and the route names the    *)
(* address of the translator, if there is one.                             *)
RouteInv ==
    /\ route \in [Node -> [split : BOOLEAN, hub : Nat, port : Nat]]
    /\ \A n \in Node : pc[n] # "new" =>
          /\ Chain[n] \subseteq Node
          /\ \A c \in Chain[n] : pc[c] # "new" /\ (Speed[n] = "high" => Speed[c] = "high")
          /\ SlowEnd(n) = {} => ~route[n].split
          /\ \A c \in SlowEnd(n) : /\ route[n].split /\ route[n].port = PortOf[c]
                                   /\ route[n].hub = address[Parent[c]]

(* The drivers of a device whose Configure has not been called live.       *)
Ready == {"initialized"} \cup ConfigPc

FuncsInv ==
    /\ DOMAIN funcs = Node
    /\ \A n \in Node :
          /\ funcs[n] \in [DOMAIN Drivers[n] -> {"none", "live", "freed"}]
          /\ pc[n] \in Ready => \A i \in DOMAIN Drivers[n] : i >= fi[n] => funcs[n][i] = "live"

(* A registered driver stays, but for the two exceptions: its device is    *)
(* not given up.                                                           *)
Served == {"drivers", "configured"} \cup HubPc

Kept(m, i) == i \in DOMAIN Drivers[m] /\ i < fi[m] /\ funcs[m][i] = "live" /\ pc[m] \in Served

Entries == [kind : Kinds, number : Nat, node : Node, fn : Nat]

NamesInv ==
    /\ names \in Seq(Entries)
    /\ number \in [Kinds -> Nat]
    /\ \A e \in DOMAIN names :
          \/ names[e].kind = "umidi" \/ names[e].node = Root
          \/ Kept(names[e].node, names[e].fn)
    /\ \A p \in Pointers : \A d \in library[p] : \E e \in DOMAIN names : d = names[e]

TreeInv == ControlInv /\ AddressInv /\ RouteInv /\ FuncsInv /\ NamesInv
-----------------------------------------------------------------------------
(* The nesting of the calls.  Three kinds of steps change it: one inside   *)
(* the device whose code runs, a call of a device at one of its ports, and *)
(* the return from there.                                                  *)

LEMMA DriverIndex ==
    \A n \in Node : DOMAIN Drivers[n] = 1 .. Len(Drivers[n]) /\ Len(Drivers[n]) \in Nat
<1> SUFFICES ASSUME NEW n \in Node
             PROVE  DOMAIN Drivers[n] = 1 .. Len(Drivers[n]) /\ Len(Drivers[n]) \in Nat
  OBVIOUS
<1>1. Drivers[n] \in Seq(Kinds)
  BY UsbTreeConstants
<1> HIDE DEF Kinds
<1> QED BY <1>1

(* No device is its own parent while its code runs, and the device whose   *)
(* code runs has not called anyone.                                        *)
LEMMA Innermost ==
    ASSUME ControlInv, NEW n \in Node, cur = n
    PROVE  /\ Running(n) /\ host.pc = "ready" /\ Parent[n] # n
           /\ \A m \in Node : Parent[m] = n => ~Running(m)
           /\ \A m \in Node : pc[m] \in InitPc => m = n
<1> USE UsbTreeConstants DEF ControlInv
<1>1. Running(n) /\ host.pc = "ready"
  BY DEF CallInv
<1> QED BY <1>1 DEF CallInv, Running

(* A step inside n: from step pc[n] to step s, with function f, port p.    *)
LocalMove(n, s, f, p) ==
    \/ pc[n] = "descriptor" /\ s = "address" /\ f = fi[n] /\ p = port[n]
    \/ pc[n] = "address" /\ s = "configuration" /\ f = fi[n] /\ p = port[n]
    \/ n = Root /\ pc[n] = "configuration" /\ s = "configure" /\ f = fi[n] /\ p = port[n]
    \/ pc[n] = "configure" /\ s = "drivers" /\ f = 1 /\ p = port[n]
    \/ pc[n] = "drivers" /\ s = "drivers" /\ f = fi[n] + 1 /\ p = port[n]
    \/ /\ pc[n] = "drivers" /\ s = "detect" /\ f = fi[n] /\ p = 1
       /\ fi[n] \in DOMAIN Drivers[n] /\ Drivers[n][fi[n]] = "hub"
    \/ pc[n] \in HubPc /\ s = "drivers" /\ f = fi[n] + 1 /\ p = port[n]
    \/ pc[n] = "detect" /\ s = "detect" /\ f = fi[n] /\ p = port[n] + 1
    \/ /\ pc[n] = "detect" /\ s = "children" /\ f = fi[n] /\ p = 1
       /\ port[n] > NumPorts[n]
    \/ pc[n] = "children" /\ s = "children" /\ f = fi[n] /\ p = port[n] + 1
    \/ pc[n] \in HubPc /\ s \in {"status", "recheck"} /\ f = fi[n] /\ p \in Nat \ {0}

LocalStep(n, s, f, p) ==
    /\ cur = n /\ cur' = cur /\ host' = host /\ object' = object
    /\ pc' = [pc EXCEPT ![n] = s]
    /\ fi' = [fi EXCEPT ![n] = f]
    /\ port' = [port EXCEPT ![n] = p]
    /\ LocalMove(n, s, f, p)

LEMMA LocalKeeps ==
    ASSUME ControlInv, NEW n \in Node, NEW s, NEW f, NEW p, LocalStep(n, s, f, p)
    PROVE  /\ ControlInv'
           /\ \A m \in Node : HubEntered(m) => HubEntered(m)'
<1> USE UsbTreeConstants DEF ControlInv
<1>1. s \in InitPc \cup ConfigPc /\ f \in Nat \ {0} /\ p \in Nat \ {0}
  BY DEF LocalStep, LocalMove, TreeTypes, InitPc, ConfigPc, HubPc
<1>2. /\ Running(n) /\ host.pc = "ready" /\ Parent[n] # n
      /\ \A m \in Node : Parent[m] = n => ~Running(m)
      /\ \A m \in Node : pc[m] \in InitPc => m = n
  BY Innermost DEF LocalStep
<1>3. /\ cur = n /\ cur' = n /\ host' = host /\ object' = object
      /\ DOMAIN pc' = Node /\ DOMAIN fi' = Node /\ DOMAIN port' = Node
      /\ pc'[n] = s /\ fi'[n] = f /\ port'[n] = p
      /\ \A m \in Node \ {n} : pc'[m] = pc[m] /\ fi'[m] = fi[m] /\ port'[m] = port[m]
  BY DEF LocalStep, TreeTypes
<1>4. TreeTypes'
  <2>1. s \in Pcs
    BY <1>1 DEF Pcs
  <2> QED BY <1>1, <1>3, <2>1 DEF LocalStep, TreeTypes
<1>5. \A m \in Node : Running(m)' <=> Running(m)
  BY <1>1, <1>2, <1>3 DEF Running
<1>6. CallInv'
  <2>1. pc'[n] \in InitPc => pc[n] \in InitPc
    BY <1>3 DEF LocalStep, LocalMove, InitPc, HubPc
  <2>2. pc'[n] \notin InitPc /\ pc[n] \in InitPc => n = Root
    BY <1>3 DEF LocalStep, LocalMove, InitPc, HubPc
  <2>3. ASSUME NEW m \in Node, Running(m)'
        PROVE  /\ cur' # Parent[m]
               /\ pc'[m] \in InitPc => cur' = m
               /\ m # Root => /\ port'[Parent[m]] = PortOf[m]
                              /\ pc'[Parent[m]] = IF pc'[m] \in InitPc THEN "detect" ELSE "children"
    <3>1. /\ Running(m) /\ Parent[m] # n
      BY <1>2, <1>5, <2>3
    <3>2. m # Root => Parent[m] \in Node \ {n}
      BY <3>1
    <3>3. CASE m = n
      BY <1>3, <2>1, <2>2, <3>1, <3>2, <3>3 DEF CallInv
    <3>4. CASE m # n
      <4>1. /\ pc'[m] = pc[m]
            /\ m # Root => pc'[Parent[m]] = pc[Parent[m]] /\ port'[Parent[m]] = port[Parent[m]]
        BY <1>3, <3>2, <3>4
      <4> QED BY <1>3, <3>1, <4>1 DEF CallInv
    <3> QED BY <3>3, <3>4
  <2>4. host'.pc = "ready" /\ Running(cur)'
    BY <1>2, <1>3, <1>5
  <2> QED BY <2>3, <2>4, <1>3 DEF CallInv
<1>7. LiveInv'
  <2>1. s \notin {"new", "gone"} /\ pc[n] \notin {"new", "gone"}
    BY <1>1, <1>2 DEF Running, InitPc, ConfigPc, HubPc
  <2> QED BY <1>3, <2>1 DEF LiveInv
<1>8. FunctionInv'
  <2>1. /\ s \in {"new", "initialized", "configure"} \cup InitPc => f = 1
        /\ s \in HubPc => f \in DOMAIN Drivers[n] /\ Drivers[n][f] = "hub"
    BY DEF LocalStep, LocalMove, FunctionInv, InitPc, HubPc
  <2>2. ASSUME NEW m \in Node
        PROVE  /\ pc'[m] \in {"new", "initialized", "configure"} \cup InitPc => fi'[m] = 1
               /\ pc'[m] \in HubPc => fi'[m] \in DOMAIN Drivers[m] /\ Drivers[m][fi'[m]] = "hub"
    <3>1. CASE m = n
      BY <1>3, <2>1, <3>1
    <3>2. CASE m # n
      BY <1>3, <3>2 DEF FunctionInv
    <3> QED BY <3>1, <3>2
  <2> QED BY <2>2 DEF FunctionInv
<1>9. ASSUME NEW m \in Node, HubEntered(m)
      PROVE  HubEntered(m)'
  <2>1. CASE m # n
    BY <1>3, <1>9, <2>1 DEF HubEntered
  <2>2. CASE m = n
    <3>1. CASE pc[n] \in HubPc
      <4>1. CASE s \in HubPc
        BY <1>3, <2>2, <4>1 DEF HubEntered
      <4>2. CASE s \notin HubPc
        <5>1. f = fi[n] + 1
          BY <3>1, <4>2 DEF LocalStep, LocalMove, InitPc, HubPc
        <5>2. fi[n] \in DOMAIN Drivers[n] /\ Drivers[n][fi[n]] = "hub" /\ fi[n] \in Nat
          BY <3>1 DEF FunctionInv, TreeTypes
        <5>3. fi[n] < f
          BY <5>1, <5>2
        <5> QED BY <1>3, <2>2, <5>2, <5>3 DEF HubEntered
      <4> QED BY <4>1, <4>2
    <3>2. CASE pc[n] \notin HubPc
      <4>1. PICK i \in DOMAIN Drivers[n] : i < fi[n] /\ Drivers[n][i] = "hub"
        BY <1>9, <2>2, <3>2 DEF HubEntered
      <4>2. f = fi[n] \/ f = fi[n] + 1 \/ (f = 1 /\ fi[n] = 1)
        <5>1. pc[n] = "configure" => fi[n] = 1
          BY DEF FunctionInv
        <5> QED BY <3>2, <5>1 DEF LocalStep, LocalMove, HubPc
      <4>3. i < f
        <5>1. fi[n] \in Nat /\ i \in Nat
          <6>1. DOMAIN Drivers[n] = 1 .. Len(Drivers[n]) /\ Len(Drivers[n]) \in Nat
            BY DriverIndex
          <6>2. fi[n] \in Nat
            BY DEF TreeTypes
          <6> QED BY <6>1, <6>2
        <5> QED BY <4>1, <4>2, <5>1
      <4> QED BY <1>3, <2>2, <4>1, <4>3 DEF HubEntered
    <3> QED BY <3>1, <3>2
  <2> QED BY <2>1, <2>2
<1>10. PortInv'
  <2>1. SUFFICES ASSUME NEW c \in Node \ {Root}
        PROVE  /\ pc'[c] # "new" => HubEntered(Parent[c])'
               /\ pc'[Parent[c]] = "detect" /\ pc'[c] # "new" =>
                     \/ PortOf[c] < port'[Parent[c]] /\ pc'[c] \in {"initialized", "gone"}
                     \/ PortOf[c] = port'[Parent[c]] /\ Running(c)'
               /\ pc'[Parent[c]] = "children" /\ PortOf[c] >= port'[Parent[c]] =>
                     \/ pc'[c] \in {"new", "initialized", "gone"}
                     \/ PortOf[c] = port'[Parent[c]] /\ Running(c)'
    BY DEF PortInv
  <2>2. Parent[c] \in Node /\ PortOf[c] \in 1 .. NumPorts[Parent[c]] /\ NumPorts[Parent[c]] \in Nat
    OBVIOUS
  <2>3. pc'[c] = "new" <=> pc[c] = "new"
    BY <1>1, <1>2, <1>3 DEF Running, InitPc, ConfigPc, HubPc
  <2>4. pc'[c] # "new" => HubEntered(Parent[c])'
    BY <1>9, <2>2, <2>3 DEF PortInv
  <2>5. CASE Parent[c] # n
    <3>1. pc'[Parent[c]] = pc[Parent[c]] /\ port'[Parent[c]] = port[Parent[c]]
      BY <1>3, <2>2, <2>5
    <3>2. CASE c = n
      <4>1. Running(n) /\ Running(n)' /\ n # Root
        BY <1>2, <1>5, <3>2
      <4>2. PortOf[n] = port[Parent[n]]
        BY <4>1 DEF CallInv
      <4> QED BY <2>4, <3>1, <3>2, <4>1, <4>2
    <3>3. CASE c # n
      BY <1>3, <1>5, <2>4, <3>1, <3>3 DEF PortInv
    <3> QED BY <3>2, <3>3
  <2>6. CASE Parent[c] = n
    <3>1. c # n /\ pc'[c] = pc[c] /\ ~Running(c)
      BY <1>2, <1>3, <2>6
    <3>2. port[n] \in Nat /\ PortOf[c] \in Nat
      BY DEF TreeTypes
    <3>3. CASE s = "detect"
      <4>1. CASE pc[n] = "detect"
        <5>1. p = port[n] + 1
          BY <3>3, <4>1 DEF LocalStep, LocalMove, InitPc
        <5>2. pc[c] # "new" => PortOf[c] < port[n] /\ pc[c] \in {"initialized", "gone"}
          BY <2>6, <3>1, <4>1 DEF PortInv
        <5>3. pc[c] # "new" => PortOf[c] < p
          BY <5>1, <5>2, <3>2
        <5> QED BY <1>3, <2>4, <2>6, <3>1, <3>3, <5>2, <5>3
      <4>2. CASE pc[n] # "detect"
        <5>1. pc[n] = "drivers" /\ fi[n] \in DOMAIN Drivers[n] /\ Drivers[n][fi[n]] = "hub"
          BY <3>3, <4>2 DEF LocalStep, LocalMove, InitPc
        <5>2. ~HubEntered(n)
          <6>1. SUFFICES ASSUME NEW i \in DOMAIN Drivers[n], i < fi[n], Drivers[n][i] = "hub"
                         PROVE  FALSE
            BY <5>1 DEF HubEntered, HubPc
          <6>2. i = fi[n]
            BY <5>1, <6>1
          <6> QED BY <6>1, <6>2 DEF TreeTypes
        <5>3. pc[c] = "new"
          BY <5>2, <2>6 DEF PortInv
        <5> QED BY <1>3, <2>6, <3>1, <3>3, <5>3
      <4> QED BY <4>1, <4>2
    <3>4. CASE s = "children"
      <4>1. CASE pc[n] = "detect"
        <5>1. pc[c] # "new" => pc[c] \in {"initialized", "gone"}
          BY <2>6, <3>1, <4>1 DEF PortInv
        <5> QED BY <1>3, <2>4, <2>6, <3>1, <3>4, <5>1
      <4>2. CASE pc[n] # "detect"
        <5>1. pc[n] = "children" /\ p = port[n] + 1
          BY <3>4, <4>2 DEF LocalStep, LocalMove, InitPc
        <5>2. PortOf[c] >= p => PortOf[c] >= port[n]
          BY <5>1, <3>2
        <5>3. PortOf[c] >= p => pc[c] \in {"new", "initialized", "gone"}
          BY <5>1, <5>2, <2>6, <3>1 DEF PortInv
        <5> QED BY <1>3, <2>4, <2>6, <3>1, <3>4, <5>3
      <4> QED BY <4>1, <4>2
    <3>5. CASE s \notin {"detect", "children"}
      BY <1>3, <2>4, <2>6, <3>5
    <3> QED BY <3>3, <3>4, <3>5
  <2> QED BY <2>5, <2>6
<1> QED BY <1>4, <1>6, <1>7, <1>8, <1>9, <1>10

(* A device c at the current port is called, to initialise or to configure *)
(* it.                                                                     *)
CallStep(n, c) ==
    /\ cur = n /\ cur' = c /\ host' = host /\ fi' = fi /\ port' = port
    /\ Parent[c] = n /\ PortOf[c] = port[n]
    /\ \/ /\ pc[n] = "detect"
          /\ pc' = [pc EXCEPT ![c] = "descriptor"]
          /\ object' = [object EXCEPT ![c] = "live"]
       \/ /\ pc[n] = "children" /\ object[c] = "live"
          /\ pc' = [pc EXCEPT ![c] = "configure"]
          /\ object' = object

(* It is not called twice: its object has not been created before it is    *)
(* detected, and it has been initialised before it is configured.          *)
LEMMA CalledOnce ==
    ASSUME ControlInv, NEW n \in Node, NEW c \in Node, CallStep(n, c)
    PROVE  /\ c # n /\ c # Root
           /\ pc[n] = "detect" => pc[c] = "new"
           /\ pc[n] = "children" => pc[c] = "initialized"
<1> USE UsbTreeConstants DEF ControlInv
<1>1. /\ ~Running(c) /\ c # n /\ c # Root
  BY Innermost DEF CallStep, Host
<1>2. port[n] \in Nat /\ PortOf[c] = port[n] /\ Parent[c] = n
  BY DEF CallStep, TreeTypes
<1>3. ASSUME pc[n] = "detect"
      PROVE  pc[c] = "new"
  BY <1>1, <1>2, <1>3 DEF PortInv
<1>4. ASSUME pc[n] = "children"
      PROVE  pc[c] = "initialized"
  <2>1. PortOf[c] >= port[n]
    BY <1>2
  <2>2. pc[c] \in {"new", "initialized", "gone"}
    BY <1>1, <1>2, <1>4, <2>1 DEF PortInv
  <2>3. pc[c] \notin {"new", "gone"}
    BY <1>4 DEF CallStep, LiveInv
  <2> QED BY <2>2, <2>3
<1> QED BY <1>1, <1>3, <1>4

LEMMA CallKeeps ==
    ASSUME ControlInv, NEW n \in Node, NEW c \in Node, CallStep(n, c)
    PROVE  /\ ControlInv'
           /\ \A m \in Node : HubEntered(m) <=> HubEntered(m)'
<1> USE UsbTreeConstants DEF ControlInv
<1> DEFINE s == pc'[c]
<1>1. /\ c # n /\ c # Root
      /\ pc[n] = "detect" => pc[c] = "new" /\ s = "descriptor"
      /\ pc[n] = "children" => pc[c] = "initialized" /\ s = "configure"
      /\ pc[n] \in {"detect", "children"}
  <2>1. c # n /\ c # Root
    BY CalledOnce
  <2>2. \/ pc[n] = "detect" /\ s = "descriptor"
        \/ pc[n] = "children" /\ s = "configure"
    BY DEF CallStep, TreeTypes
  <2>3. /\ pc[n] = "detect" => pc[c] = "new"
        /\ pc[n] = "children" => pc[c] = "initialized"
    BY CalledOnce
  <2> HIDE DEF s
  <2> QED BY <2>1, <2>2, <2>3
<1>2. /\ cur = n /\ cur' = c /\ host' = host /\ fi' = fi /\ port' = port
      /\ Parent[c] = n /\ PortOf[c] = port[n] /\ port[n] \in Nat
      /\ DOMAIN pc' = Node
      /\ \A m \in Node \ {c} : pc'[m] = pc[m]
  BY DEF CallStep, TreeTypes
<1>3. /\ Running(n) /\ host.pc = "ready" /\ Parent[n] # n
      /\ \A m \in Node : Parent[m] = n => ~Running(m)
      /\ \A m \in Node : pc[m] \in InitPc => m = n
  BY <1>2, Innermost
<1>4. Running(c)' /\ \A m \in Node \ {c} : Running(m)' <=> Running(m)
  BY <1>1, <1>2 DEF Running, InitPc, ConfigPc
<1>5. TreeTypes'
  <2>1. s \in Pcs /\ pc' = [pc EXCEPT ![c] = s]
    BY <1>1 DEF CallStep, Pcs, InitPc, ConfigPc, TreeTypes
  <2> HIDE DEF s
  <2>2. pc' \in [Node -> Pcs] /\ object' \in [Node -> {"none", "live", "freed"}]
    BY <2>1 DEF CallStep, TreeTypes
  <2> QED BY <1>2, <2>2 DEF TreeTypes
<1>6. CallInv'
  <2>1. ASSUME NEW m \in Node, Running(m)'
        PROVE  /\ cur' # Parent[m]
               /\ pc'[m] \in InitPc => cur' = m
               /\ m # Root => /\ port'[Parent[m]] = PortOf[m]
                              /\ pc'[Parent[m]] = IF pc'[m] \in InitPc THEN "detect" ELSE "children"
    <3>1. CASE m = c
      BY <1>1, <1>2, <3>1 DEF InitPc
    <3>2. CASE m # c
      <4>1. Running(m) /\ pc'[m] = pc[m]
        BY <1>2, <1>4, <2>1, <3>2
      <4>2. m # Root => Parent[m] \in Node /\ pc[Parent[m]] \in {"detect", "children"}
        BY <4>1 DEF CallInv
      <4>3. Parent[m] # c
        BY <1>1, <4>2 DEF Host
      <4>4. m # Root => pc'[Parent[m]] = pc[Parent[m]]
        BY <1>2, <4>2, <4>3
      <4>5. pc[m] \notin InitPc
        BY <1>1, <1>3 DEF InitPc
      <4> QED BY <1>2, <4>1, <4>3, <4>4, <4>5 DEF CallInv
    <3> QED BY <3>1, <3>2
  <2> QED BY <1>2, <1>3, <1>4, <2>1 DEF CallInv
<1>7. LiveInv'
  <2>1. /\ s \notin {"new", "gone"} /\ object'[c] = "live"
        /\ \A m \in Node \ {c} : object'[m] = object[m]
    BY <1>1 DEF CallStep, TreeTypes
  <2> QED BY <1>2, <2>1 DEF LiveInv
<1>8. FunctionInv'
  <2>1. fi[c] = 1
    BY <1>1 DEF FunctionInv
  <2>2. s \notin HubPc
    BY <1>1 DEF HubPc
  <2>3. ASSUME NEW m \in Node
        PROVE  /\ pc'[m] \in {"new", "initialized", "configure"} \cup InitPc => fi'[m] = 1
               /\ pc'[m] \in HubPc => fi'[m] \in DOMAIN Drivers[m] /\ Drivers[m][fi'[m]] = "hub"
    <3>1. CASE m = c
      BY <1>2, <2>1, <2>2, <3>1
    <3>2. CASE m # c
      BY <1>2, <3>2 DEF FunctionInv
    <3> QED BY <3>1, <3>2
  <2> QED BY <2>3 DEF FunctionInv
<1>9. ASSUME NEW m \in Node
      PROVE  HubEntered(m) <=> HubEntered(m)'
  <2>1. pc[m] \in HubPc <=> pc'[m] \in HubPc
    BY <1>1, <1>2 DEF HubPc
  <2> QED BY <1>2, <2>1 DEF HubEntered
<1>10. PortInv'
  <2>1. SUFFICES ASSUME NEW d \in Node \ {Root}
        PROVE  /\ pc'[d] # "new" => HubEntered(Parent[d])'
               /\ pc'[Parent[d]] = "detect" /\ pc'[d] # "new" =>
                     \/ PortOf[d] < port'[Parent[d]] /\ pc'[d] \in {"initialized", "gone"}
                     \/ PortOf[d] = port'[Parent[d]] /\ Running(d)'
               /\ pc'[Parent[d]] = "children" /\ PortOf[d] >= port'[Parent[d]] =>
                     \/ pc'[d] \in {"new", "initialized", "gone"}
                     \/ PortOf[d] = port'[Parent[d]] /\ Running(d)'
    BY DEF PortInv
  <2>2. CASE d = c
    <3>1. HubEntered(n)
      BY <1>1 DEF HubEntered, HubPc
    <3> QED BY <1>2, <1>4, <1>9, <2>2, <3>1
  <2>3. CASE d # c
    <3>1. pc'[d] = pc[d] /\ (Running(d)' <=> Running(d)) /\ Parent[d] \in Node
      BY <1>2, <1>4, <2>3
    <3>2. pc'[d] # "new" => HubEntered(Parent[d])'
      BY <1>9, <3>1 DEF PortInv
    <3>3. pc'[Parent[d]] \in {"detect", "children"} => pc'[Parent[d]] = pc[Parent[d]]
      BY <1>1, <1>2, <3>1
    <3> QED BY <1>2, <3>1, <3>2, <3>3 DEF PortInv
  <2> QED BY <2>2, <2>3
<1> QED BY <1>5, <1>6, <1>7, <1>8, <1>9, <1>10

(* The call of n returns: it is initialised, configured or given up.       *)
ReturnStep(n, s) ==
    /\ cur = n /\ host' = host /\ fi' = fi
    /\ ReturnToCaller(n, s)
    /\ pc[n] \in InitPc \cup {"configure", "drivers"}
    /\ \/ s = "gone" /\ object' = [object EXCEPT ![n] = "freed"]
       \/ s = "initialized" /\ n # Root /\ pc[n] = "configuration" /\ object' = object
       \/ s = "configured" /\ pc[n] = "drivers" /\ object' = object

LEMMA ReturnKeeps ==
    ASSUME ControlInv, NEW n \in Node, NEW s, ReturnStep(n, s)
    PROVE  /\ ControlInv'
           /\ \A m \in Node : HubEntered(m) <=> HubEntered(m)'
<1> USE UsbTreeConstants DEF ControlInv
<1>1. s \in {"gone", "initialized", "configured"}
  BY DEF ReturnStep
<1>2. /\ cur = n /\ cur' = Parent[n] /\ host' = host /\ fi' = fi
      /\ DOMAIN pc' = Node /\ pc'[n] = s
      /\ \A m \in Node \ {n} : pc'[m] = pc[m]
  BY DEF ReturnStep, ReturnToCaller, TreeTypes
<1>3. /\ Running(n) /\ host.pc = "ready" /\ Parent[n] # n
      /\ \A m \in Node : Parent[m] = n => ~Running(m)
      /\ \A m \in Node : pc[m] \in InitPc => m = n
  BY <1>2, Innermost
<1>4. n # Root => /\ Parent[n] \in Node /\ port[Parent[n]] = PortOf[n] /\ PortOf[n] \in Nat
                  /\ pc[Parent[n]] = IF pc[n] \in InitPc THEN "detect" ELSE "children"
  BY <1>3 DEF CallInv
<1>5. /\ \A m \in Node : m # Parent[n] => port'[m] = port[m]
      /\ n # Root => port'[Parent[n]] = port[Parent[n]] + 1
      /\ port' \in [Node -> Nat \ {0}]
  <2>1. CASE n = Root
    BY <2>1 DEF ReturnStep, ReturnToCaller, TreeTypes
  <2>2. CASE n # Root
    <3>1. port' = [port EXCEPT ![Parent[n]] = port[Parent[n]] + 1]
      BY <2>2 DEF ReturnStep, ReturnToCaller
    <3>2. port[Parent[n]] + 1 \in Nat \ {0}
      BY <1>4, <2>2
    <3> QED BY <1>4, <2>2, <3>1, <3>2 DEF TreeTypes
  <2> QED BY <2>1, <2>2
<1>6. ~Running(n)' /\ \A m \in Node \ {n} : Running(m)' <=> Running(m)
  BY <1>1, <1>2 DEF Running, InitPc, ConfigPc, HubPc
<1>7. TreeTypes'
  <2>1. s \in Pcs
    BY <1>1 DEF Pcs
  <2>2. pc' \in [Node -> Pcs] /\ object' \in [Node -> {"none", "live", "freed"}]
    BY <2>1 DEF ReturnStep, ReturnToCaller, TreeTypes
  <2> QED BY <1>2, <1>5, <2>2 DEF TreeTypes
<1>8. ASSUME NEW m \in Node \ {n}, Running(m)
      PROVE  Parent[m] # Parent[n]
  <2>1. CASE m = Root
    BY <2>1
  <2>2. CASE n = Root
    BY <2>2
  <2>3. CASE m # Root /\ n # Root
    <3>1. port[Parent[m]] = PortOf[m]
      BY <1>8, <2>3 DEF CallInv
    <3> QED BY <1>4, <2>3, <3>1
  <2> QED BY <2>1, <2>2, <2>3
<1>9. CallInv'
  <2>1. ASSUME NEW m \in Node, Running(m)'
        PROVE  /\ cur' # Parent[m]
               /\ pc'[m] \in InitPc => cur' = m
               /\ m # Root => /\ port'[Parent[m]] = PortOf[m]
                              /\ pc'[Parent[m]] = IF pc'[m] \in InitPc THEN "detect" ELSE "children"
    <3>1. m # n /\ Running(m) /\ pc'[m] = pc[m] /\ pc[m] \notin InitPc
      BY <1>2, <1>3, <1>6, <2>1
    <3>2. Parent[m] # Parent[n] /\ Parent[m] # n
      BY <1>3, <1>8, <3>1
    <3>3. m # Root => /\ Parent[m] \in Node
                      /\ port'[Parent[m]] = port[Parent[m]] /\ pc'[Parent[m]] = pc[Parent[m]]
      <4>1. m # Root => Parent[m] \in Node
        OBVIOUS
      <4> QED BY <1>2, <1>5, <3>2, <4>1
    <3>4. m # Root => port[Parent[m]] = PortOf[m] /\ pc[Parent[m]] = "children"
      BY <3>1 DEF CallInv
    <3> QED BY <1>2, <3>1, <3>2, <3>3, <3>4
  <2>2. cur' # Host => Running(cur)'
    <3>1. SUFFICES ASSUME n # Root
                   PROVE  Running(Parent[n])'
      BY <1>2
    <3>2. pc'[Parent[n]] \in {"detect", "children"}
      BY <1>2, <1>3, <1>4, <3>1
    <3> QED BY <3>2 DEF Running, ConfigPc, HubPc
  <2> QED BY <1>2, <1>3, <2>1, <2>2 DEF CallInv
<1>10. LiveInv'
  <2>1. /\ object'[n] = "live" <=> s # "gone"
        /\ \A m \in Node \ {n} : object'[m] = object[m]
    <3>1. object[n] = "live"
      BY <1>3 DEF LiveInv, Running, InitPc, ConfigPc, HubPc
    <3> QED BY <1>1, <3>1 DEF ReturnStep, TreeTypes
  <2> QED BY <1>1, <1>2, <2>1 DEF LiveInv
<1>11. FunctionInv'
  <2>1. s = "initialized" => fi[n] = 1
    BY DEF ReturnStep, FunctionInv, InitPc
  <2>2. s \notin HubPc \cup InitPc
    BY <1>1 DEF HubPc, InitPc
  <2>3. ASSUME NEW m \in Node
        PROVE  /\ pc'[m] \in {"new", "initialized", "configure"} \cup InitPc => fi'[m] = 1
               /\ pc'[m] \in HubPc => fi'[m] \in DOMAIN Drivers[m] /\ Drivers[m][fi'[m]] = "hub"
    <3>1. CASE m = n
      BY <1>1, <1>2, <2>1, <2>2, <3>1
    <3>2. CASE m # n
      BY <1>2, <3>2 DEF FunctionInv
    <3> QED BY <3>1, <3>2
  <2> QED BY <2>3 DEF FunctionInv
<1>12. ASSUME NEW m \in Node
       PROVE  HubEntered(m) <=> HubEntered(m)'
  <2>1. pc[m] \in HubPc <=> pc'[m] \in HubPc
    <3>1. pc[n] \notin HubPc /\ s \notin HubPc
      BY <1>1 DEF ReturnStep, HubPc, InitPc
    <3> QED BY <1>2, <3>1
  <2> QED BY <1>2, <2>1 DEF HubEntered
<1>13. PortInv'
  <2>1. SUFFICES ASSUME NEW d \in Node \ {Root}
        PROVE  /\ pc'[d] # "new" => HubEntered(Parent[d])'
               /\ pc'[Parent[d]] = "detect" /\ pc'[d] # "new" =>
                     \/ PortOf[d] < port'[Parent[d]] /\ pc'[d] \in {"initialized", "gone"}
                     \/ PortOf[d] = port'[Parent[d]] /\ Running(d)'
               /\ pc'[Parent[d]] = "children" /\ PortOf[d] >= port'[Parent[d]] =>
                     \/ pc'[d] \in {"new", "initialized", "gone"}
                     \/ PortOf[d] = port'[Parent[d]] /\ Running(d)'
    BY DEF PortInv
  <2>2. Parent[d] \in Node /\ PortOf[d] \in Nat
    OBVIOUS
  <2>3. CASE d = n
    <3>1. HubEntered(Parent[n])'
      <4>1. HubEntered(Parent[n])
        BY <1>4, <2>3 DEF HubEntered, HubPc
      <4> QED BY <1>12, <2>2, <2>3, <4>1
    <3>2. PortOf[n] < port'[Parent[n]] /\ ~(PortOf[n] >= port'[Parent[n]])
      BY <1>4, <1>5, <2>3
    <3>3. pc'[Parent[n]] = "detect" => s \in {"initialized", "gone"}
      <4>1. pc'[Parent[n]] = pc[Parent[n]]
        BY <1>2, <1>3, <2>2, <2>3
      <4> QED BY <1>1, <1>4, <2>3, <4>1 DEF ReturnStep, InitPc
    <3> QED BY <1>2, <2>3, <3>1, <3>2, <3>3
  <2>4. CASE d # n
    <3>1. pc'[d] = pc[d] /\ (Running(d)' <=> Running(d))
      BY <1>2, <1>6, <2>4
    <3>2. pc'[d] # "new" => HubEntered(Parent[d])'
      BY <1>12, <2>2, <3>1 DEF PortInv
    <3>3. pc'[Parent[d]] \in {"detect", "children"} => pc'[Parent[d]] = pc[Parent[d]]
      BY <1>1, <1>2, <2>2
    <3>4. CASE Parent[d] # Parent[n]
      BY <1>5, <2>2, <3>1, <3>2, <3>3, <3>4 DEF PortInv
    <3>5. CASE Parent[d] = Parent[n]
      <4>1. n # Root /\ PortOf[d] # PortOf[n]
        BY <2>4, <3>5
      <4>2. /\ port'[Parent[d]] = port[Parent[d]] + 1 /\ PortOf[d] # port[Parent[d]]
            /\ port[Parent[d]] \in Nat
        BY <1>4, <1>5, <3>5, <4>1
      <4>3. /\ PortOf[d] < port[Parent[d]] => PortOf[d] < port'[Parent[d]]
            /\ PortOf[d] >= port'[Parent[d]] => PortOf[d] >= port[Parent[d]]
        BY <2>2, <4>2
      <4> QED BY <3>1, <3>2, <3>3, <4>2, <4>3 DEF PortInv
    <3> QED BY <3>4, <3>5
  <2> QED BY <2>3, <2>4
<1> QED BY <1>7, <1>9, <1>10, <1>11, <1>12, <1>13

-----------------------------------------------------------------------------
(* Every action of a device is a step of one of the three kinds.           *)

LEMMA LocalShapes ==
    ASSUME ControlInv, NEW n \in Node
    PROVE  /\ ReadDescriptor(n) => LocalStep(n, "address", fi[n], port[n])
           /\ SetConfiguration(n) => LocalStep(n, "drivers", 1, port[n])
           /\ DriverFails(n) \/ DriverRegisters(n) \/ DriverFindsNoChannel(n)
                 \/ PortBreaksHub(n) \/ HubStatusBad(n) \/ HubConfigured(n)
                 => LocalStep(n, "drivers", fi[n] + 1, port[n])
           /\ ConfigureHub(n) => LocalStep(n, "detect", fi[n], 1)
           /\ SkipPort(n) => LocalStep(n, "detect", fi[n], port[n] + 1)
           /\ NextLoop(n) => \/ LocalStep(n, "children", fi[n], 1)
                             \/ LocalStep(n, "status", fi[n], 1)
           /\ HubStatusGood(n) => LocalStep(n, "recheck", fi[n], port[n])
           /\ RecheckPort(n) => LocalStep(n, "recheck", fi[n], port[n] + 1)
<1> USE DEF ControlInv, LocalStep, LocalMove, At, objects, HubPc
<1>1. /\ pc = [pc EXCEPT ![n] = pc[n]]
      /\ fi = [fi EXCEPT ![n] = fi[n]]
      /\ port = [port EXCEPT ![n] = port[n]]
      /\ port[n] \in Nat \ {0} /\ port[n] + 1 \in Nat \ {0}
  BY DEF TreeTypes
<1>2. ReadDescriptor(n) => LocalStep(n, "address", fi[n], port[n])
  BY <1>1 DEF ReadDescriptor
<1>3. SetConfiguration(n) => LocalStep(n, "drivers", 1, port[n])
  BY <1>1 DEF SetConfiguration
<1>4. ASSUME \/ DriverFails(n) \/ DriverRegisters(n) \/ DriverFindsNoChannel(n)
             \/ PortBreaksHub(n) \/ HubStatusBad(n) \/ HubConfigured(n)
      PROVE  LocalStep(n, "drivers", fi[n] + 1, port[n])
  <2>1. /\ cur = n /\ cur' = cur /\ host' = host /\ object' = object /\ port' = port
        /\ fi' = [fi EXCEPT ![n] = fi[n] + 1]
        /\ pc' = [pc EXCEPT ![n] = "drivers"]
    BY <1>4 DEF DriverFails, DriverRegisters, DriverFindsNoChannel, PortBreaksHub,
                HubStatusBad, HubConfigured, DriverDone, ConfigureDriver, Detecting
  <2>2. pc[n] \in {"drivers", "detect", "status", "recheck"}
    BY <1>4 DEF DriverFails, DriverRegisters, DriverFindsNoChannel, PortBreaksHub,
                HubStatusBad, HubConfigured, ConfigureDriver, Detecting
  <2> QED BY <1>1, <2>1, <2>2
<1>5. ConfigureHub(n) => LocalStep(n, "detect", fi[n], 1)
  <2> SUFFICES ASSUME ConfigureHub(n)
               PROVE  LocalStep(n, "detect", fi[n], 1)
    OBVIOUS
  <2>1. fi[n] \in DOMAIN Drivers[n] /\ Drivers[n][fi[n]] = "hub"
    <3>1. fi[n] \in Nat \ {0} /\ fi[n] <= Len(Drivers[n]) /\ Drivers[n][fi[n]] = "hub"
      BY DEF ConfigureHub, ConfigureDriver, MoreDrivers, Driver, TreeTypes
    <3> QED BY <3>1, DriverIndex
  <2> QED BY <1>1, <2>1 DEF ConfigureHub, ConfigureDriver
<1>6. SkipPort(n) => LocalStep(n, "detect", fi[n], port[n] + 1)
  BY <1>1 DEF SkipPort, Detecting
<1>7. NextLoop(n) => \/ LocalStep(n, "children", fi[n], 1)
                     \/ LocalStep(n, "status", fi[n], 1)
  BY <1>1 DEF NextLoop
<1>8. HubStatusGood(n) => LocalStep(n, "recheck", fi[n], port[n])
  BY <1>1 DEF HubStatusGood
<1>9. RecheckPort(n) => LocalStep(n, "recheck", fi[n], port[n] + 1)
  BY <1>1 DEF RecheckPort
<1> QED BY <1>2, <1>3, <1>4, <1>5, <1>6, <1>7, <1>8, <1>9

LEMMA ReturnShapes ==
    ASSUME ControlInv, NEW n \in Node
    PROVE  /\ InitializeFails(n) \/ NoAddressLeft(n) \/ SetConfigurationFails(n)
                 => ReturnStep(n, "gone")
           /\ SetAddress(n) => \/ LocalStep(n, "configuration", fi[n], port[n])
                               \/ ReturnStep(n, "gone")
           /\ CreateFunctions(n) => \/ LocalStep(n, "configure", fi[n], port[n])
                                    \/ ReturnStep(n, "initialized")
           /\ Configured(n) => ReturnStep(n, "configured") \/ ReturnStep(n, "gone")
<1> USE DEF ControlInv, At, objects, GiveUp, Destroy, InitPc
<1>1. /\ pc = [pc EXCEPT ![n] = pc[n]]
      /\ fi = [fi EXCEPT ![n] = fi[n]]
      /\ port = [port EXCEPT ![n] = port[n]]
  BY DEF TreeTypes
<1>2. InitializeFails(n) \/ NoAddressLeft(n) \/ SetConfigurationFails(n) => ReturnStep(n, "gone")
  BY DEF InitializeFails, NoAddressLeft, SetConfigurationFails, ReturnStep
<1>3. SetAddress(n) => \/ LocalStep(n, "configuration", fi[n], port[n])
                       \/ ReturnStep(n, "gone")
  BY <1>1 DEF SetAddress, LocalStep, LocalMove, ReturnStep
<1>4. CreateFunctions(n) => \/ LocalStep(n, "configure", fi[n], port[n])
                            \/ ReturnStep(n, "initialized")
  BY <1>1 DEF CreateFunctions, LocalStep, LocalMove, ReturnStep
<1>5. Configured(n) => ReturnStep(n, "configured") \/ ReturnStep(n, "gone")
  BY DEF Configured, ReturnStep
<1> QED BY <1>2, <1>3, <1>4, <1>5

LEMMA CallShapes ==
    ASSUME ControlInv, NEW n \in Node
    PROVE  /\ FindDevice(n) => \E c \in Node : CallStep(n, c)
           /\ ConfigureChild(n) => \/ LocalStep(n, "children", fi[n], port[n] + 1)
                                   \/ \E c \in Node : CallStep(n, c)
<1> USE DEF ControlInv, At, objects
<1>1. /\ pc = [pc EXCEPT ![n] = pc[n]]
      /\ fi = [fi EXCEPT ![n] = fi[n]]
      /\ port = [port EXCEPT ![n] = port[n]]
  BY DEF TreeTypes
<1>2. ASSUME FindDevice(n)
      PROVE  \E c \in Node : CallStep(n, c)
  <2>1. PICK c \in ChildrenAt(n, port[n]) : Create(c, RouteOf(n, c))
    BY <1>2 DEF FindDevice
  <2>2. c \in Node /\ Parent[c] = n /\ PortOf[c] = port[n]
    BY DEF ChildrenAt
  <2>3. CallStep(n, c)
    BY <1>2, <2>1, <2>2 DEF FindDevice, Detecting, Create, CallStep
  <2> QED BY <2>2, <2>3
<1>3. ASSUME ConfigureChild(n)
      PROVE  \/ LocalStep(n, "children", fi[n], port[n] + 1)
             \/ \E c \in Node : CallStep(n, c)
  <2> DEFINE found == {c \in ChildrenAt(n, port[n]) : object[c] = "live"}
  <2>1. CASE found = {}
    <3>1. LocalStep(n, "children", fi[n], port[n] + 1)
      BY <1>1, <1>3, <2>1 DEF ConfigureChild, LocalStep, LocalMove
    <3> QED BY <3>1
  <2>2. CASE found # {}
    <3>1. PICK c \in found : cur' = c /\ pc' = [pc EXCEPT ![c] = "configure"]
      BY <1>3, <2>2 DEF ConfigureChild
    <3>2. c \in Node /\ Parent[c] = n /\ PortOf[c] = port[n] /\ object[c] = "live"
      BY DEF ChildrenAt
    <3>3. CallStep(n, c)
      BY <1>3, <2>2, <3>1, <3>2 DEF ConfigureChild, CallStep
    <3> QED BY <3>2, <3>3
  <2> QED BY <2>1, <2>2
<1> QED BY <1>2, <1>3

(* What a step does to the progress of the devices, unless it gives one of *)
(* them an address.                                                        *)
Moves ==
    \A m \in Node : /\ Placed(m)' => Placed(m)
                    /\ pc'[m] \in Unaddressed => pc[m] \in Unaddressed
                    /\ pc[m] = "new" => pc'[m] \in {"new", "descriptor"}
                    /\ pc[m] # "new" => pc'[m] # "new"
                    /\ pc[m] = "gone" => pc'[m] = "gone"

(* No device is detected.                                                  *)
NoneFound == \A m \in Node : pc[m] = "new" => pc'[m] = "new"

LEMMA LocalMoved ==
    ASSUME ControlInv, NEW n \in Node, NEW s, NEW f, NEW p, LocalStep(n, s, f, p),
           pc[n] # "address"
    PROVE  Moves /\ NoneFound
<1> USE DEF ControlInv
<1>1. /\ pc'[n] = s /\ fi'[n] = f /\ \A m \in Node \ {n} : pc'[m] = pc[m] /\ fi'[m] = fi[m]
  BY DEF LocalStep, TreeTypes
<1>2. ASSUME NEW m \in Node
      PROVE  /\ Placed(m)' => Placed(m)
             /\ pc'[m] \in Unaddressed => pc[m] \in Unaddressed
             /\ pc[m] = "new" => pc'[m] \in {"new", "descriptor"}
             /\ pc[m] # "new" => pc'[m] # "new"
             /\ pc[m] = "gone" => pc'[m] = "gone"
  <2>1. CASE m # n
    BY <1>1, <2>1 DEF Placed, HubEntered
  <2>2. CASE m = n
    <3>1. CASE pc[n] = "descriptor"
      <4>1. s = "address" /\ f = fi[n]
        BY <3>1 DEF LocalStep, LocalMove, HubPc
      <4> QED BY <1>1, <2>2, <3>1, <4>1 DEF Placed, HubEntered, Unaddressed, HubPc
    <3>2. CASE pc[n] # "descriptor"
      <4>1. /\ pc[n] \in {"configuration", "configure", "drivers"} \cup HubPc
            /\ s \in {"configure", "drivers"} \cup HubPc
        BY <3>2 DEF LocalStep, LocalMove, HubPc
      <4> QED BY <1>1, <2>2, <4>1 DEF Placed, Unaddressed, HubPc
    <3> QED BY <3>1, <3>2
  <2> QED BY <2>1, <2>2
<1>3. pc[n] # "new"
  BY DEF LocalStep, LocalMove, HubPc
<1> QED BY <1>1, <1>2, <1>3 DEF Moves, NoneFound

LEMMA CallMoved ==
    ASSUME ControlInv, NEW n \in Node, NEW c \in Node, CallStep(n, c)
    PROVE  Moves /\ (pc[n] # "detect" => NoneFound)
<1> USE DEF ControlInv
<1>1. \A m \in Node \ {c} : pc'[m] = pc[m]
  BY DEF CallStep, TreeTypes
<1>2. \/ pc[c] = "new" /\ pc'[c] = "descriptor"
      \/ pc[c] = "initialized" /\ pc'[c] = "configure"
  BY CalledOnce DEF CallStep, TreeTypes
<1>3. \A m \in Node : HubEntered(m) <=> HubEntered(m)'
  BY CallKeeps
<1>4. ASSUME NEW m \in Node
      PROVE  /\ Placed(m)' => Placed(m)
             /\ pc'[m] \in Unaddressed => pc[m] \in Unaddressed
             /\ pc[m] = "new" => pc'[m] \in {"new", "descriptor"}
             /\ pc[m] # "new" => pc'[m] # "new"
             /\ pc[m] = "gone" => pc'[m] = "gone"
  <2>1. HubEntered(m) <=> HubEntered(m)'
    BY <1>3
  <2>2. CASE m # c
    BY <1>1, <2>1, <2>2 DEF Placed
  <2>3. CASE m = c
    BY <1>2, <2>1, <2>3 DEF Placed, Unaddressed
  <2> QED BY <2>2, <2>3
<1>5. ASSUME pc[n] # "detect"
      PROVE  pc[c] # "new"
  BY <1>5, CalledOnce DEF CallStep
<1> QED BY <1>1, <1>4, <1>5 DEF Moves, NoneFound

LEMMA ReturnMoved ==
    ASSUME ControlInv, NEW n \in Node, NEW s, ReturnStep(n, s)
    PROVE  Moves /\ NoneFound
<1> USE DEF ControlInv
<1>1. pc'[n] = s /\ \A m \in Node \ {n} : pc'[m] = pc[m]
  BY DEF ReturnStep, ReturnToCaller, TreeTypes
<1>2. /\ pc[n] # "new"
      /\ \/ s = "gone"
         \/ s \in {"initialized", "configured"} /\ pc[n] \in {"configuration", "drivers"}
  BY DEF ReturnStep, InitPc
<1>3. \A m \in Node : HubEntered(m) <=> HubEntered(m)'
  BY ReturnKeeps
<1>4. ASSUME NEW m \in Node
      PROVE  /\ Placed(m)' => Placed(m)
             /\ pc'[m] \in Unaddressed => pc[m] \in Unaddressed
             /\ pc[m] = "new" => pc'[m] \in {"new", "descriptor"}
             /\ pc[m] # "new" => pc'[m] # "new"
             /\ pc[m] = "gone" => pc'[m] = "gone"
  <2>1. HubEntered(m) <=> HubEntered(m)'
    BY <1>3
  <2>2. CASE m # n
    BY <1>1, <2>1, <2>2 DEF Placed
  <2>3. CASE m = n
    BY <1>1, <1>2, <2>1, <2>3 DEF Placed, Unaddressed
  <2> QED BY <2>2, <2>3
<1> QED BY <1>1, <1>2, <1>4 DEF Moves, NoneFound

(* The steps of the host: the set-up, the call of the root device and the  *)
(* test of its port after the return.                                      *)
HostMove == HostFails \/ HostPowersUp \/ InitCore \/ InitHost \/ Initialized

LEMMA HostKeeps ==
    ASSUME ControlInv, HostMove
    PROVE  ControlInv' /\ Moves /\ NoneFound
<1> USE DEF ControlInv
<1>1. /\ cur = Host /\ cur' = cur /\ pc' = pc /\ fi' = fi /\ port' = port /\ object' = object
  BY DEF HostMove, HostFails, HostPowersUp, InitCore, InitHost, Initialized, HostAt, objects
<1>2. /\ host' \in [pc : {"vendor", "core", "host", "root", "ready", "done", "failed"},
                    handler : BOOLEAN, int : BOOLEAN, mask : BOOLEAN, channels : Nat]
      /\ \/ host.pc \in {"vendor", "core", "host", "root"} /\ host'.pc # "ready"
         \/ host.pc = "ready" /\ host'.pc = "done"
  <2> USE DEF TreeTypes, HostAt, HostStep
  <2>1. CASE HostFails
    BY <2>1 DEF HostFails
  <2>2. CASE HostPowersUp
    BY <2>2 DEF HostPowersUp
  <2>3. CASE InitCore
    BY <2>3, UsbTreeConstants DEF InitCore, Reset
  <2>4. CASE InitHost
    BY <2>4 DEF InitHost, EnableHostInterrupts, EnableGlobalInterrupts
  <2>5. CASE Initialized
    BY <2>5 DEF Initialized
  <2> QED BY <2>1, <2>2, <2>3, <2>4, <2>5 DEF HostMove
<1>3. TreeTypes'
  BY <1>1, <1>2 DEF TreeTypes
<1>4. CallInv'
  BY <1>1, <1>2 DEF CallInv, Running
<1>5. LiveInv' /\ FunctionInv' /\ PortInv'
  BY <1>1 DEF LiveInv, FunctionInv, PortInv, HubEntered, Running
<1>6. Moves /\ NoneFound
  BY <1>1 DEF Moves, NoneFound, Placed, HubEntered, TreeTypes
<1> QED BY <1>3, <1>4, <1>5, <1>6

LEMMA RootPortKeeps ==
    ASSUME ControlInv, EnableRootPort
    PROVE  ControlInv' /\ Moves /\ pc[Root] = "new"
<1> USE UsbTreeConstants DEF ControlInv
<1>1. /\ cur = Host /\ cur' = Root /\ fi' = fi /\ port' = port
      /\ host.pc = "root" /\ host' = [host EXCEPT !.pc = "ready"]
      /\ pc' = [pc EXCEPT ![Root] = "descriptor"]
      /\ object' = [object EXCEPT ![Root] = "live"]
  BY DEF EnableRootPort, HostAt, HostStep, Create
<1>2. \A n \in Node : pc[n] = "new"
  BY <1>1 DEF CallInv
<1>3. pc'[Root] = "descriptor" /\ \A n \in Node \ {Root} : pc'[n] = "new"
  BY <1>1, <1>2 DEF TreeTypes
<1>4. TreeTypes'
  <2>1. host' \in [pc : {"vendor", "core", "host", "root", "ready", "done", "failed"},
                   handler : BOOLEAN, int : BOOLEAN, mask : BOOLEAN, channels : Nat]
    BY <1>1 DEF TreeTypes
  <2> QED BY <1>1, <2>1 DEF TreeTypes, Pcs, InitPc
<1>5. \A n \in Node : Running(n)' <=> n = Root
  BY <1>3 DEF Running, InitPc, ConfigPc, HubPc
<1>6. CallInv'
  <2>1. host'.pc = "ready"
    BY <1>1 DEF TreeTypes
  <2>2. Parent[Root] # Root /\ Root # Host
    BY DEF Host
  <2> QED BY <1>1, <1>3, <1>5, <2>1, <2>2 DEF CallInv, InitPc
<1>7. LiveInv'
  BY <1>1, <1>2, <1>3 DEF LiveInv, TreeTypes
<1>8. FunctionInv'
  <2>1. \A n \in Node : fi'[n] = 1
    BY <1>1, <1>2 DEF FunctionInv
  <2> QED BY <1>3, <2>1 DEF FunctionInv, HubPc
<1>9. PortInv'
  <2>1. \A n \in Node : pc'[n] \notin {"detect", "children"}
    BY <1>3
  <2> QED BY <1>3, <2>1 DEF PortInv
<1>10. Moves
  <2>1. \A n \in Node : HubEntered(n)' => HubEntered(n)
    BY <1>1, <1>3 DEF HubEntered, HubPc
  <2> QED BY <1>2, <1>3, <2>1 DEF Moves, Placed, Unaddressed
<1> QED BY <1>2, <1>4, <1>6, <1>7, <1>8, <1>9, <1>10

LEMMA OverCurrentKeeps ==
    ASSUME ControlInv, RootOverCurrent
    PROVE  ControlInv' /\ Moves /\ NoneFound
<1> USE UsbTreeConstants DEF ControlInv
<1>1. /\ cur = Host /\ cur' = cur /\ host' = host /\ fi' = fi /\ port' = port
      /\ pc[Root] = "configured" /\ host.pc = "ready"
      /\ pc' = [pc EXCEPT ![Root] = "gone"]
      /\ object' = [object EXCEPT ![Root] = "freed"]
  BY DEF RootOverCurrent, HostAt, Destroy
<1>2. pc'[Root] = "gone" /\ \A n \in Node \ {Root} : pc'[n] = pc[n]
  BY <1>1 DEF TreeTypes
<1>3. TreeTypes'
  BY <1>1 DEF TreeTypes, Pcs
<1>4. \A n \in Node : (Running(n)' <=> Running(n)) /\ ~Running(Root)
  BY <1>1, <1>2 DEF Running, InitPc, ConfigPc, HubPc
<1>5. \A n \in Node : HubEntered(n)' <=> HubEntered(n)
  BY <1>1, <1>2 DEF HubEntered, HubPc
<1>6. CallInv'
  <2>1. ASSUME NEW m \in Node, Running(m)'
        PROVE  /\ cur' # Parent[m]
               /\ pc'[m] \in InitPc => cur' = m
               /\ m # Root => /\ port'[Parent[m]] = PortOf[m]
                              /\ pc'[Parent[m]] = IF pc'[m] \in InitPc THEN "detect" ELSE "children"
    <3>1. Running(m) /\ m # Root /\ pc'[m] = pc[m]
      BY <1>2, <1>4, <2>1
    <3>2. Parent[m] \in Node /\ pc[Parent[m]] \in {"detect", "children"}
      BY <3>1 DEF CallInv
    <3>3. pc'[Parent[m]] = pc[Parent[m]]
      BY <1>1, <1>2, <3>2
    <3> QED BY <1>1, <3>1, <3>3 DEF CallInv
  <2> QED BY <1>1, <2>1 DEF CallInv
<1>7. LiveInv'
  BY <1>1, <1>2 DEF LiveInv, TreeTypes
<1>8. FunctionInv'
  <2>1. ASSUME NEW m \in Node
        PROVE  /\ pc'[m] \in {"new", "initialized", "configure"} \cup InitPc => fi'[m] = 1
               /\ pc'[m] \in HubPc => fi'[m] \in DOMAIN Drivers[m] /\ Drivers[m][fi'[m]] = "hub"
    <3>1. CASE m = Root
      BY <1>2, <3>1 DEF InitPc, HubPc
    <3>2. CASE m # Root
      BY <1>1, <1>2, <3>2 DEF FunctionInv
    <3> QED BY <3>1, <3>2
  <2> QED BY <2>1 DEF FunctionInv
<1>9. PortInv'
  <2>1. SUFFICES ASSUME NEW d \in Node \ {Root}
        PROVE  /\ pc'[d] # "new" => HubEntered(Parent[d])'
               /\ pc'[Parent[d]] = "detect" /\ pc'[d] # "new" =>
                     \/ PortOf[d] < port'[Parent[d]] /\ pc'[d] \in {"initialized", "gone"}
                     \/ PortOf[d] = port'[Parent[d]] /\ Running(d)'
               /\ pc'[Parent[d]] = "children" /\ PortOf[d] >= port'[Parent[d]] =>
                     \/ pc'[d] \in {"new", "initialized", "gone"}
                     \/ PortOf[d] = port'[Parent[d]] /\ Running(d)'
    BY DEF PortInv
  <2>2. pc'[d] = pc[d] /\ (Running(d)' <=> Running(d)) /\ Parent[d] \in Node
    BY <1>2, <1>4
  <2>3. pc'[Parent[d]] \in {"detect", "children"} => pc'[Parent[d]] = pc[Parent[d]]
    BY <1>2, <2>2
  <2>4. pc'[d] # "new" => HubEntered(Parent[d])'
    BY <1>5, <2>2 DEF PortInv
  <2> QED BY <1>1, <2>2, <2>3, <2>4 DEF PortInv
<1>10. Moves
  <2>1. ASSUME NEW m \in Node
        PROVE  /\ Placed(m)' => Placed(m)
               /\ pc'[m] \in Unaddressed => pc[m] \in Unaddressed
               /\ pc[m] = "new" => pc'[m] \in {"new", "descriptor"}
               /\ pc[m] # "new" => pc'[m] # "new"
               /\ pc[m] = "gone" => pc'[m] = "gone"
    <3>1. CASE m = Root
      BY <1>1, <1>2, <3>1 DEF Placed, Unaddressed
    <3>2. CASE m # Root
      BY <1>2, <1>5, <3>2 DEF Placed
    <3> QED BY <3>1, <3>2
  <2> QED BY <2>1 DEF Moves
<1>11. NoneFound
  BY <1>1, <1>2 DEF NoneFound
<1> QED BY <1>3, <1>6, <1>7, <1>8, <1>9, <1>10, <1>11

-----------------------------------------------------------------------------
(* Addresses.                                                              *)

(* A device has no ports to visit before it has an address.                *)
LEMMA EntersLater ==
    ASSUME ControlInv, NEW m \in Node, pc[m] \in Unaddressed
    PROVE  ~HubEntered(m) /\ ~Placed(m)
<1> USE DEF ControlInv
<1>1. fi[m] = 1
  BY DEF FunctionInv, Unaddressed, InitPc
<1>2. pc[m] \notin HubPc
  BY DEF Unaddressed, HubPc
<1>3. \A i \in DOMAIN Drivers[m] : ~(i < fi[m])
  <2>1. DOMAIN Drivers[m] = 1 .. Len(Drivers[m]) /\ Len(Drivers[m]) \in Nat
    BY DriverIndex
  <2> QED BY <1>1, <2>1
<1> QED BY <1>2, <1>3 DEF HubEntered, Placed

LEMMA GivenFinite ==
    /\ IsFiniteSet(Given) /\ Cardinality(Given) \in Nat
    /\ IsFiniteSet(Given)' /\ Cardinality(Given)' \in Nat
<1>1. IsFiniteSet(Node) /\ Given \subseteq Node /\ Given' \subseteq Node
  BY UsbTreeConstants DEF Given
<1> QED BY <1>1, FS_Subset, FS_CardinalityType

(* The devices keep the address they hear, are silenced, or are reset      *)
(* before they have been detected.                                         *)
Undisturbed ==
    /\ hw' \in [Node -> [on : BOOLEAN, addr : Nat]]
    /\ \A m \in Node : \/ hw'[m] = hw[m] \/ hw'[m] = Quiet
                       \/ hw'[m] = Default /\ pc[m] = "new"

LEMMA AddressKept ==
    ASSUME ControlInv, ControlInv', AddressInv, Moves, Undisturbed,
           address' = address, next' = next,
           NoneFound \/ \A m \in Node : pc[m] = "new" /\ pc'[m] # "new" => hw'[m] = Default
    PROVE  AddressInv'
<1> USE DEF ControlInv
<1>1. /\ Quiet \in [on : BOOLEAN, addr : Nat] /\ Default \in [on : BOOLEAN, addr : Nat]
      /\ Quiet.on = FALSE /\ Quiet.addr = 0 /\ Default.on = TRUE /\ Default.addr = 0
  BY DEF Quiet, Default
<1>2. address' \in [Node -> Nat] /\ next' \in Nat /\ next' >= 1
  BY DEF AddressInv
<1>3. hw' \in [Node -> [on : BOOLEAN, addr : Nat]]
  BY DEF Undisturbed
<1>4. next' <= Cardinality(Given)' + 1
  <2>1. Given \subseteq Given'
    BY DEF Given, Moves
  <2>2. Cardinality(Given) <= Cardinality(Given)'
    BY <2>1, GivenFinite, FS_Subset
  <2>3. next <= Cardinality(Given) + 1 /\ next \in Nat
    BY DEF AddressInv
  <2> QED BY <2>2, <2>3, GivenFinite
<1>5. ASSUME NEW m \in Node
      PROVE  /\ address'[m] < next' /\ hw'[m].addr < next'
             /\ ~hw'[m].on => hw'[m].addr = 0
             /\ pc'[m] \in Unaddressed => address'[m] = 0
             /\ pc'[m] \in Unaddressed \ {"new"} => hw'[m].addr = 0
             /\ Placed(m)' => address'[m] # 0 /\ (hw'[m].on => hw'[m].addr = address'[m])
  <2>1. /\ address[m] < next /\ hw[m].addr < next /\ next \in Nat /\ next >= 1
        /\ ~hw[m].on => hw[m].addr = 0
        /\ pc[m] \in Unaddressed => address[m] = 0
        /\ pc[m] \in Unaddressed \ {"new"} => hw[m].addr = 0
        /\ Placed(m) => address[m] # 0 /\ (hw[m].on => hw[m].addr = address[m])
    BY DEF AddressInv
  <2>2. \/ hw'[m] = hw[m] \/ hw'[m] = Quiet
        \/ hw'[m] = Default /\ pc[m] = "new"
    BY DEF Undisturbed
  <2>3. /\ Placed(m)' => Placed(m)
        /\ pc'[m] \in Unaddressed => pc[m] \in Unaddressed
        /\ pc[m] # "new" => pc'[m] # "new"
        /\ pc[m] = "gone" => pc'[m] = "gone"
        /\ pc[m] = "new" => pc'[m] = "new" \/ hw'[m] = Default
    BY DEF Moves, NoneFound
  <2>4. pc[m] = "new" => ~Placed(m)
    BY EntersLater DEF Unaddressed
  <2>5. address'[m] < next' /\ hw'[m].addr < next' /\ (~hw'[m].on => hw'[m].addr = 0)
    <3>1. 0 < next
      BY <2>1
    <3> QED BY <1>1, <2>1, <2>2, <3>1
  <2>6. pc'[m] \in Unaddressed => address'[m] = 0
    BY <2>1, <2>3
  <2>7. pc'[m] \in Unaddressed \ {"new"} => hw'[m].addr = 0
    BY <1>1, <2>1, <2>2, <2>3
  <2>8. Placed(m)' => address'[m] # 0 /\ (hw'[m].on => hw'[m].addr = address'[m])
    BY <1>1, <2>1, <2>2, <2>3, <2>4
  <2> QED BY <2>5, <2>6, <2>7, <2>8
<1>6. ASSUME NEW m \in Node, NEW n \in Node, m # n, Live(m)', Live(n)', address'[n] # 0
      PROVE  address'[m] # address'[n]
  <2>1. \A d \in Node : Live(d)' => Live(d) \/ pc[d] = "new"
    BY DEF Live, LiveInv, Moves
  <2>2. \A d \in Node : pc[d] = "new" => address[d] = 0
    BY DEF AddressInv, Unaddressed
  <2> QED BY <1>6, <2>1, <2>2 DEF AddressInv
<1> QED BY <1>2, <1>3, <1>4, <1>5, <1>6 DEF AddressInv

(* A device is given the next address, or given up on the way there.       *)
GiveStep(n) ==
    /\ cur = n /\ pc[n] = "address"
    /\ DOMAIN pc' = Node /\ \A m \in Node \ {n} : pc'[m] = pc[m]
    /\ next' = (next + 1) % 256
    /\ hw' \in {hw, Addressed(next)}
    /\ \/ pc'[n] = "gone" /\ address' = address
       \/ /\ pc'[n] = "configuration" /\ address' = [address EXCEPT ![n] = next]
          /\ TRUE \in Replies(n) /\ hw' = Addressed(next)

LEMMA AddressGiven ==
    ASSUME ControlInv, ControlInv', AddressInv, NEW n \in Node, GiveStep(n), fi' = fi
    PROVE  AddressInv'
<1> USE DEF ControlInv
<1>1. /\ Default \in [on : BOOLEAN, addr : Nat] /\ Default.on = TRUE /\ Default.addr = 0
  BY DEF Default
<1>2. /\ cur = n /\ pc[n] = "address" /\ pc'[n] \in {"gone", "configuration"}
      /\ \A m \in Node \ {n} : pc'[m] = pc[m]
  BY DEF GiveStep
<1>3. next \in Nat /\ next >= 1 /\ next <= Cardinality(Given) + 1
  BY DEF AddressInv
<1>4. next' = next + 1 /\ next' <= Cardinality(Given)' + 1
  <2>1. Given' = Given \cup {n} /\ n \notin Given
    BY <1>2 DEF Given, Unaddressed
  <2>2. Cardinality(Given)' = Cardinality(Given) + 1
    BY <2>1, GivenFinite, FS_AddElement
  <2>3. Cardinality(Given)' <= Cardinality(Node) /\ Cardinality(Node) < 255
        /\ Cardinality(Node) \in Nat
    <3>1. Given' \subseteq Node /\ IsFiniteSet(Node)
      BY UsbTreeConstants DEF Given
    <3> QED BY <3>1, FS_Subset, FS_CardinalityType, UsbTreeConstants
  <2>4. next + 1 < 256 /\ next + 1 \in Nat
    BY <1>3, <2>2, <2>3, GivenFinite
  <2>5. (next + 1) % 256 = next + 1
    BY <2>4
  <2> QED BY <1>3, <2>2, <2>5, GivenFinite DEF GiveStep
<1>5. /\ hw' \in [Node -> [on : BOOLEAN, addr : Nat]]
      /\ \A m \in Node : \/ hw'[m] = hw[m]
                         \/ hw[m] = Default /\ hw'[m].on = TRUE /\ hw'[m].addr = next
  <2>1. Addressed(next) \in [Node -> [on : BOOLEAN, addr : Nat]]
    BY <1>3 DEF Addressed, AddressInv
  <2>2. \A m \in Node : \/ Addressed(next)[m] = hw[m]
                        \/ /\ hw[m] = Default /\ Addressed(next)[m].on = TRUE
                           /\ Addressed(next)[m].addr = next
    BY DEF Addressed
  <2>3. hw' = hw \/ hw' = Addressed(next)
    BY DEF GiveStep
  <2>4. hw \in [Node -> [on : BOOLEAN, addr : Nat]]
    BY DEF AddressInv
  <2> QED BY <2>1, <2>2, <2>3, <2>4
<1>6. /\ address' \in [Node -> Nat]
      /\ \A m \in Node \ {n} : address'[m] = address[m]
      /\ pc'[n] = "gone" => address'[n] = address[n]
      /\ pc'[n] = "configuration" => address'[n] = next
  <2>1. address \in [Node -> Nat]
    BY DEF AddressInv
  <2> QED BY <1>3, <2>1 DEF GiveStep
<1>7. pc'[n] = "configuration" => hw'[n].on = TRUE /\ hw'[n].addr = next
  <2>1. SUFFICES ASSUME pc'[n] = "configuration"
                 PROVE  hw'[n].on = TRUE /\ hw'[n].addr = next
    OBVIOUS
  <2>2. TRUE \in Replies(n) /\ hw' = Addressed(next)
    BY <2>1 DEF GiveStep
  <2>3. hw[n].on /\ hw[n].addr = address[n]
    BY <2>2 DEF Replies
  <2>4. address[n] = 0 /\ hw[n] \in [on : BOOLEAN, addr : Nat]
    BY <1>2 DEF AddressInv, Unaddressed
  <2>5. hw[n] = Default
    BY <2>3, <2>4 DEF Default
  <2> QED BY <2>2, <2>5 DEF Addressed
<1>8. ASSUME NEW m \in Node \ {n}
      PROVE  Placed(m)' <=> Placed(m)
  BY <1>2 DEF Placed, HubEntered
<1>9. ~Placed(n) /\ (pc'[n] = "gone" => ~Placed(n)')
  <2>1. ~HubEntered(n)
    BY <1>2, EntersLater DEF Unaddressed
  <2>2. pc'[n] = "gone" => ~HubEntered(n)'
    BY <2>1 DEF HubEntered, HubPc
  <2> QED BY <1>2, <2>1, <2>2 DEF Placed, Unaddressed
<1>10. \A m \in Node \ {n} : pc'[m] \in Unaddressed => pc'[m] = "new"
  <2>1. \A m \in Node : pc[m] \in InitPc => m = n
    BY <1>2, Innermost
  <2> QED BY <1>2, <2>1 DEF Unaddressed, InitPc
<1>11. ASSUME NEW m \in Node
       PROVE  /\ address'[m] < next' /\ hw'[m].addr < next'
              /\ ~hw'[m].on => hw'[m].addr = 0
              /\ pc'[m] \in Unaddressed => address'[m] = 0
              /\ pc'[m] \in Unaddressed \ {"new"} => hw'[m].addr = 0
              /\ Placed(m)' => address'[m] # 0 /\ (hw'[m].on => hw'[m].addr = address'[m])
  <2>1. /\ address[m] < next /\ hw[m].addr < next
        /\ ~hw[m].on => hw[m].addr = 0
        /\ pc[m] \in Unaddressed => address[m] = 0
        /\ Placed(m) => address[m] # 0 /\ (hw[m].on => hw[m].addr = address[m])
        /\ address[m] \in Nat /\ hw[m].addr \in Nat
    BY DEF AddressInv
  <2>2. next < next'
    BY <1>3, <1>4
  <2>3. CASE m = n
    <3>1. /\ address'[m] \in {address[m], next} /\ hw'[m].addr \in {hw[m].addr, next}
          /\ ~hw'[m].on => hw'[m] = hw[m]
      BY <1>2, <1>5, <1>6, <2>3
    <3>2. address'[m] < next' /\ hw'[m].addr < next' /\ (~hw'[m].on => hw'[m].addr = 0)
      BY <1>3, <1>4, <2>1, <3>1
    <3>3. pc'[m] \notin Unaddressed
      BY <1>2, <2>3 DEF Unaddressed
    <3>4. Placed(m)' => address'[m] # 0 /\ (hw'[m].on => hw'[m].addr = address'[m])
      BY <1>2, <1>3, <1>6, <1>7, <1>9, <2>3
    <3> QED BY <3>2, <3>3, <3>4
  <2>4. CASE m # n
    <3>1. address'[m] = address[m] /\ pc'[m] = pc[m]
      BY <1>2, <1>6, <2>4
    <3>2. \/ hw'[m] = hw[m]
          \/ hw[m] = Default /\ hw'[m].on = TRUE /\ hw'[m].addr = next
      BY <1>5
    <3>3. hw'[m].addr < next' /\ address'[m] < next' /\ (~hw'[m].on => hw'[m].addr = 0)
      BY <1>3, <1>4, <2>1, <3>1, <3>2
    <3>4. pc'[m] \in Unaddressed => address'[m] = 0 /\ pc'[m] = "new"
      BY <1>10, <2>1, <2>4, <3>1
    <3>5. Placed(m)' => address'[m] # 0 /\ (hw'[m].on => hw'[m].addr = address'[m])
      <4>1. Placed(m)' => Placed(m)
        BY <1>8, <2>4
      <4> QED BY <1>1, <2>1, <3>1, <3>2, <4>1
    <3> QED BY <3>3, <3>4, <3>5
  <2> QED BY <2>3, <2>4
<1>12. ASSUME NEW l \in Node, NEW m \in Node, l # m, Live(l)', Live(m)', address'[m] # 0
       PROVE  address'[l] # address'[m]
  <2>1. \A d \in Node : Live(d)' => Live(d)
    <3>1. pc[n] \notin {"new", "gone"}
      BY <1>2
    <3> QED BY <1>2, <3>1 DEF Live, LiveInv
  <2>2. \A d \in Node : address[d] < next /\ address[d] \in Nat
    BY DEF AddressInv
  <2>3. address'[n] = address[n] \/ address'[n] = next
    BY <1>2, <1>6
  <2>4. address'[l] = address[l] /\ address'[m] = address[m] => address'[l] # address'[m]
    BY <1>12, <2>1 DEF AddressInv
  <2>5. CASE l = n
    BY <1>3, <1>6, <1>12, <2>2, <2>3, <2>4, <2>5
  <2>6. CASE m = n
    BY <1>3, <1>6, <1>12, <2>2, <2>3, <2>4, <2>6
  <2>7. CASE l # n /\ m # n
    BY <1>6, <2>4, <2>7
  <2> QED BY <2>5, <2>6, <2>7
<1>13. next' \in Nat /\ next' >= 1
  BY <1>3, <1>4
<1> QED BY <1>4, <1>5, <1>6, <1>11, <1>12, <1>13 DEF AddressInv

(* The actions of a device other than SetAddress and FindDevice.  Most of  *)
(* them leave the bus alone; the others reset or switch off ports.         *)
SilentAction(n) ==
    \/ ReadDescriptor(n) \/ InitializeFails(n) \/ CreateFunctions(n)
    \/ SetConfiguration(n) \/ SetConfigurationFails(n)
    \/ DriverFails(n) \/ DriverRegisters(n) \/ DriverFindsNoChannel(n) \/ Configured(n)
    \/ ConfigureHub(n) \/ NextLoop(n) \/ ConfigureChild(n)
    \/ HubStatusGood(n) \/ HubConfigured(n)

PortAction(n) == SkipPort(n) \/ PortBreaksHub(n) \/ HubStatusBad(n) \/ RecheckPort(n)

AddressAction(n) == SetAddress(n) \/ NoAddressLeft(n)

(* None of the first two gives an address or finds a device.               *)
LEMMA PlainControl ==
    ASSUME ControlInv, NEW n \in Node, SilentAction(n) \/ PortAction(n)
    PROVE  ControlInv' /\ Moves /\ NoneFound
<1>1. ASSUME NEW s, NEW f, NEW p, LocalStep(n, s, f, p), pc[n] # "address"
      PROVE  ControlInv' /\ Moves /\ NoneFound
  BY <1>1, LocalKeeps, LocalMoved
<1>2. ASSUME NEW s, ReturnStep(n, s)
      PROVE  ControlInv' /\ Moves /\ NoneFound
  BY <1>2, ReturnKeeps, ReturnMoved
<1>3. ASSUME ReadDescriptor(n)
      PROVE  ControlInv' /\ Moves /\ NoneFound
  <2>1. pc[n] # "address"
    BY <1>3 DEF ReadDescriptor, At
  <2> QED BY <1>1, <1>3, <2>1, LocalShapes
<1>4. ASSUME InitializeFails(n) \/ SetConfigurationFails(n) \/ Configured(n)
      PROVE  ControlInv' /\ Moves /\ NoneFound
  BY <1>2, <1>4, ReturnShapes
<1>5. ASSUME CreateFunctions(n)
      PROVE  ControlInv' /\ Moves /\ NoneFound
  <2>1. pc[n] # "address"
    BY <1>5 DEF CreateFunctions, At
  <2> QED BY <1>1, <1>2, <1>5, <2>1, ReturnShapes
<1>6. ASSUME SetConfiguration(n)
      PROVE  ControlInv' /\ Moves /\ NoneFound
  <2>1. pc[n] # "address"
    BY <1>6 DEF SetConfiguration, At
  <2> QED BY <1>1, <1>6, <2>1, LocalShapes
<1>7. ASSUME DriverFails(n) \/ DriverRegisters(n) \/ DriverFindsNoChannel(n)
             \/ PortBreaksHub(n) \/ HubStatusBad(n) \/ HubConfigured(n)
      PROVE  ControlInv' /\ Moves /\ NoneFound
  <2>1. pc[n] # "address"
    BY <1>7 DEF DriverFails, DriverRegisters, DriverFindsNoChannel, PortBreaksHub,
                HubStatusBad, HubConfigured, ConfigureDriver, Detecting, At
  <2> QED BY <1>1, <1>7, <2>1, LocalShapes
<1>8. ASSUME ConfigureHub(n) \/ SkipPort(n) \/ NextLoop(n) \/ HubStatusGood(n) \/ RecheckPort(n)
      PROVE  ControlInv' /\ Moves /\ NoneFound
  <2>1. pc[n] # "address"
    BY <1>8 DEF ConfigureHub, SkipPort, NextLoop, HubStatusGood, RecheckPort,
                ConfigureDriver, Detecting, At
  <2> QED BY <1>1, <1>8, <2>1, LocalShapes
<1>9. ASSUME ConfigureChild(n)
      PROVE  ControlInv' /\ Moves /\ NoneFound
  <2>1. pc[n] = "children"
    BY <1>9 DEF ConfigureChild, At
  <2>2. ASSUME NEW c \in Node, CallStep(n, c)
        PROVE  ControlInv' /\ Moves /\ NoneFound
    BY <2>1, <2>2, CallKeeps, CallMoved
  <2> QED BY <1>1, <1>9, <2>1, <2>2, CallShapes
<1> QED BY <1>3, <1>4, <1>5, <1>6, <1>7, <1>8, <1>9 DEF SilentAction, PortAction

LEMMA GiveControl ==
    ASSUME ControlInv, NEW n \in Node, AddressAction(n)
    PROVE  ControlInv' /\ GiveStep(n) /\ fi' = fi /\ NoneFound
<1>1. ControlInv'
  BY LocalKeeps, ReturnKeeps, ReturnShapes DEF AddressAction
<1>2. cur = n /\ pc[n] = "address" /\ fi' = fi
  BY DEF AddressAction, SetAddress, NoAddressLeft, At, GiveUp
<1>3. DOMAIN pc' = Node /\ pc'[n] # "new" /\ \A m \in Node \ {n} : pc'[m] = pc[m]
  <2>1. \E s \in {"configuration", "gone"} : pc' = [pc EXCEPT ![n] = s]
    BY DEF AddressAction, SetAddress, NoAddressLeft, GiveUp, ReturnToCaller
  <2> QED BY <2>1 DEF ControlInv, TreeTypes
<1>4. GiveStep(n)
  <2>1. pc \in [Node -> Pcs]
    BY DEF ControlInv, TreeTypes
  <2>2. CASE SetAddress(n)
    BY <1>2, <1>3, <2>1, <2>2 DEF SetAddress, GiveUp, Destroy, ReturnToCaller, GiveStep
  <2>3. CASE NoAddressLeft(n)
    BY <1>2, <1>3, <2>1, <2>3 DEF NoAddressLeft, GiveUp, Destroy, ReturnToCaller, GiveStep
  <2> QED BY <2>2, <2>3 DEF AddressAction
<1> QED BY <1>1, <1>2, <1>3, <1>4 DEF NoneFound

LEMMA FindControl ==
    ASSUME ControlInv, NEW n \in Node, FindDevice(n)
    PROVE  /\ ControlInv' /\ Moves
           /\ \E c \in Node \ {Root} :
                 /\ Parent[c] = n /\ pc[c] = "new"
                 /\ hw' = [hw EXCEPT ![c] = Default]
                 /\ address' = [address EXCEPT ![c] = 0]
                 /\ route' = [route EXCEPT ![c] = RouteOf(n, c)]
                 /\ pc' = [pc EXCEPT ![c] = "descriptor"]
<1>1. PICK c \in ChildrenAt(n, port[n]) :
          hw' = [hw EXCEPT ![c] = Default] /\ Create(c, RouteOf(n, c))
  BY DEF FindDevice
<1>2. c \in Node /\ Parent[c] = n /\ PortOf[c] = port[n]
  BY DEF ChildrenAt
<1>3. CallStep(n, c) /\ pc[n] = "detect"
  BY <1>1, <1>2 DEF FindDevice, Detecting, At, Create, CallStep
<1>4. c # Root /\ pc[c] = "new"
  BY <1>2, <1>3, CalledOnce
<1>5. ControlInv' /\ Moves
  BY <1>2, <1>3, CallKeeps, CallMoved
<1> QED BY <1>1, <1>2, <1>4, <1>5 DEF Create

(* A port that a hub tests has not been visited before.                    *)
LEMMA PortIsFresh ==
    ASSUME ControlInv, NEW n \in Node, Detecting(n), NEW c \in ChildrenAt(n, port[n])
    PROVE  c \in Node /\ pc[c] = "new"
<1>1. c \in Node /\ Parent[c] = n /\ PortOf[c] = port[n]
  BY DEF ChildrenAt
<1>2. cur = n /\ pc[n] = "detect" /\ port[n] \in Nat
  BY DEF Detecting, At, ControlInv, TreeTypes
<1>3. ~Running(c) /\ c # Root
  BY <1>1, <1>2, Innermost, UsbTreeConstants
<1> QED BY <1>1, <1>2, <1>3 DEF ControlInv, PortInv

LEMMA AddressStep ==
    ASSUME ControlInv, AddressInv, Next
    PROVE  AddressInv'
<1> DEFINE HW == [on : BOOLEAN, addr : Nat]
<1>1. hw \in [Node -> HW] /\ address \in [Node -> Nat] /\ Quiet \in HW /\ Default \in HW
  BY DEF AddressInv, Quiet, Default
<1>2. ASSUME HostMove
      PROVE  AddressInv'
  <2>1. ControlInv' /\ Moves /\ NoneFound
    BY <1>2, HostKeeps
  <2>2. hw' = hw /\ address' = address /\ next' = next
    BY <1>2 DEF HostMove, HostFails, HostPowersUp, InitCore, InitHost, Initialized, objects, services
  <2>3. Undisturbed
    BY <1>1, <2>2 DEF Undisturbed
  <2> QED BY <2>1, <2>2, <2>3, AddressKept
<1>3. ASSUME EnableRootPort
      PROVE  AddressInv'
  <2>1. ControlInv' /\ Moves /\ pc[Root] = "new"
    BY <1>3, RootPortKeeps
  <2>2. /\ hw' = [hw EXCEPT ![Root] = Default] /\ next' = next
        /\ address' = [address EXCEPT ![Root] = 0] /\ pc' = [pc EXCEPT ![Root] = "descriptor"]
    BY <1>3 DEF EnableRootPort, Create, services
  <2>3. address' = address
    <3>1. address[Root] = 0
      BY <2>1, UsbTreeConstants DEF AddressInv, Unaddressed
    <3> QED BY <1>1, <2>2, <3>1
  <2>4. Undisturbed
    BY <1>1, <2>1, <2>2, UsbTreeConstants DEF Undisturbed
  <2>5. \A m \in Node : pc[m] = "new" /\ pc'[m] # "new" => hw'[m] = Default
    <3>1. pc \in [Node -> Pcs]
      BY DEF ControlInv, TreeTypes
    <3> QED BY <1>1, <2>2, <3>1
  <2> QED BY <2>1, <2>2, <2>3, <2>4, <2>5, AddressKept
<1>4. ASSUME RootOverCurrent
      PROVE  AddressInv'
  <2>1. ControlInv' /\ Moves /\ NoneFound
    BY <1>4, OverCurrentKeeps
  <2>2. hw' = SwitchedOff({Root}) /\ address' = address /\ next' = next
    BY <1>4 DEF RootOverCurrent, Destroy, services
  <2>3. Undisturbed
    BY <1>1, <2>2 DEF Undisturbed, SwitchedOff
  <2> QED BY <2>1, <2>2, <2>3, AddressKept
<1>5. ASSUME NEW n \in Node, SilentAction(n)
      PROVE  AddressInv'
  <2>1. ControlInv' /\ Moves /\ NoneFound
    BY <1>5, PlainControl
  <2>2. hw' = hw /\ address' = address /\ next' = next
    <3>1. CASE ReadDescriptor(n) \/ InitializeFails(n) \/ CreateFunctions(n)
               \/ SetConfiguration(n) \/ SetConfigurationFails(n)
      BY <3>1 DEF ReadDescriptor, InitializeFails, CreateFunctions, SetConfiguration,
                  SetConfigurationFails, GiveUp, Destroy, objects, services
    <3>2. CASE DriverFails(n) \/ DriverRegisters(n) \/ DriverFindsNoChannel(n)
               \/ Configured(n) \/ ConfigureHub(n)
      BY <3>2 DEF DriverFails, DriverRegisters, DriverFindsNoChannel, Configured, ConfigureHub,
                  DriverDone, GiveUp, Destroy, objects, services
    <3>3. CASE NextLoop(n) \/ ConfigureChild(n) \/ HubStatusGood(n) \/ HubConfigured(n)
      BY <3>3 DEF NextLoop, ConfigureChild, HubStatusGood, HubConfigured, DriverDone,
                  objects, services
    <3> QED BY <1>5, <3>1, <3>2, <3>3 DEF SilentAction
  <2>3. Undisturbed
    BY <1>1, <2>2 DEF Undisturbed
  <2> QED BY <2>1, <2>2, <2>3, AddressKept
<1>6. ASSUME NEW n \in Node, PortAction(n)
      PROVE  AddressInv'
  <2>1. ControlInv' /\ Moves /\ NoneFound
    BY <1>6, PlainControl
  <2>2. address' = address /\ next' = next
    BY <1>6 DEF PortAction, SkipPort, PortBreaksHub, HubStatusBad, RecheckPort, DriverDone,
                objects, services
  <2>3. ASSUME NEW c \in Node, pc[c] = "new", hw' = [hw EXCEPT ![c] = Default]
        PROVE  Undisturbed
    BY <1>1, <2>3 DEF Undisturbed
  <2>4. ASSUME NEW S, hw' = SwitchedOff(S)
        PROVE  Undisturbed
    BY <1>1, <2>4 DEF Undisturbed, SwitchedOff
  <2>5. ASSUME hw' = hw
        PROVE  Undisturbed
    BY <1>1, <2>5 DEF Undisturbed
  <2>6. CASE SkipPort(n)
    <3>1. Detecting(n)
      BY <2>6 DEF SkipPort
    <3>2. hw' = hw \/ \E c \in ChildrenAt(n, port[n]) : hw' = [hw EXCEPT ![c] = Default]
      BY <2>6 DEF SkipPort
    <3>3. Undisturbed
      BY <2>3, <2>5, <3>1, <3>2, PortIsFresh
    <3> QED BY <2>1, <2>2, <3>3, AddressKept
  <2>7. CASE PortBreaksHub(n)
    <3>1. Detecting(n)
      BY <2>7 DEF PortBreaksHub
    <3>2. hw' = hw \/ \E c \in ChildrenAt(n, port[n]) : hw' = [hw EXCEPT ![c] = Default]
      BY <2>7 DEF PortBreaksHub
    <3>3. Undisturbed
      BY <2>3, <2>5, <3>1, <3>2, PortIsFresh
    <3> QED BY <2>1, <2>2, <3>3, AddressKept
  <2>8. CASE HubStatusBad(n)
    <3>1. Undisturbed
      BY <2>4, <2>8 DEF HubStatusBad
    <3> QED BY <2>1, <2>2, <3>1, AddressKept
  <2>9. CASE RecheckPort(n)
    <3>1. Undisturbed
      BY <2>4, <2>5, <2>9 DEF RecheckPort
    <3> QED BY <2>1, <2>2, <3>1, AddressKept
  <2> QED BY <1>6, <2>6, <2>7, <2>8, <2>9 DEF PortAction
<1>7. ASSUME NEW n \in Node, AddressAction(n)
      PROVE  AddressInv'
  BY <1>7, GiveControl, AddressGiven
<1>8. ASSUME NEW n \in Node, FindDevice(n)
      PROVE  AddressInv'
  <2>1. PICK c \in Node \ {Root} :
                 /\ Parent[c] = n /\ pc[c] = "new"
                 /\ hw' = [hw EXCEPT ![c] = Default]
                 /\ address' = [address EXCEPT ![c] = 0]
                 /\ route' = [route EXCEPT ![c] = RouteOf(n, c)]
                 /\ pc' = [pc EXCEPT ![c] = "descriptor"]
    BY <1>8, FindControl
  <2>2. ControlInv' /\ Moves /\ next' = next
    BY <1>8, FindControl DEF FindDevice, services
  <2>3. address' = address
    <3>1. address[c] = 0
      BY <2>1 DEF AddressInv, Unaddressed
    <3> QED BY <1>1, <2>1, <3>1
  <2>4. Undisturbed
    BY <1>1, <2>1 DEF Undisturbed
  <2>5. \A m \in Node : pc[m] = "new" /\ pc'[m] # "new" => hw'[m] = Default
    <3>1. pc \in [Node -> Pcs]
      BY DEF ControlInv, TreeTypes
    <3> QED BY <1>1, <2>1, <3>1
  <2> QED BY <2>2, <2>3, <2>4, <2>5, AddressKept
<1> QED BY <1>2, <1>3, <1>4, <1>5, <1>6, <1>7, <1>8
        DEF Next, HostMove, SilentAction, PortAction, AddressAction

-----------------------------------------------------------------------------
(* Routes.                                                                 *)

(* What Chain computes, without recursion: the members of every set that   *)
(* holds the device and the parents of its members.                        *)
Closed(S) == \A k \in S : Parent[k] \in Node => Parent[k] \in S
Above(n) == {m \in Node : \A S \in SUBSET Node : n \in S /\ Closed(S) => m \in S}

LEMMA AboveStep ==
    ASSUME NEW n \in Node
    PROVE  Above(n) = {n} \cup (IF Parent[n] \in Node THEN Above(Parent[n]) ELSE {})
<1>1. n \in Above(n)
  BY DEF Above
<1>2. CASE Parent[n] \in Node
  <2>1. ASSUME NEW m \in Above(Parent[n])
        PROVE  m \in Above(n)
    BY <1>2 DEF Above, Closed
  <2>2. ASSUME NEW m \in Above(n), m # n
        PROVE  m \in Above(Parent[n])
    <3>1. SUFFICES ASSUME NEW S \in SUBSET Node, Parent[n] \in S, Closed(S)
                   PROVE  m \in S
      BY DEF Above
    <3>2. S \cup {n} \in SUBSET Node /\ n \in S \cup {n} /\ Closed(S \cup {n})
      BY <3>1 DEF Closed
    <3>3. m \in S \cup {n}
      BY <3>2 DEF Above
    <3> QED BY <2>2, <3>3
  <2> QED BY <1>1, <1>2, <2>1, <2>2
<1>3. CASE Parent[n] \notin Node
  <2>1. Closed({n}) /\ {n} \in SUBSET Node
    BY <1>3 DEF Closed
  <2>2. Above(n) \subseteq {n}
    BY <2>1 DEF Above
  <2> QED BY <1>1, <1>3, <2>2
<1> QED BY <1>2, <1>3

(* So the recursion of Chain has a solution, and Chain is one.             *)
LEMMA ChainStep ==
    /\ Chain[Root] = {Root}
    /\ \A n \in Node \ {Root} : Chain[n] = {n} \cup Chain[Parent[n]]
<1> DEFINE D == Node \cup {Host}
           P(f) == f = [n \in D |-> IF n = Host THEN {} ELSE {n} \cup f[Parent[n]]]
           g == [n \in D |-> IF n = Host THEN {} ELSE Above(n)]
<1>1. P(g)
  <2>1. ASSUME NEW n \in D
        PROVE  (IF n = Host THEN {} ELSE Above(n)) = IF n = Host THEN {} ELSE {n} \cup g[Parent[n]]
    <3>1. CASE n = Host
      BY <3>1
    <3>2. CASE n # Host
      <4>1. n \in Node /\ Parent[n] \in D
        BY <3>2, UsbTreeConstants
      <4>2. g[Parent[n]] = IF Parent[n] = Host THEN {} ELSE Above(Parent[n])
        BY <4>1
      <4>3. Parent[n] \in Node <=> Parent[n] # Host
        BY <4>1, UsbTreeConstants
      <4>4. Above(n) = {n} \cup (IF Parent[n] \in Node THEN Above(Parent[n]) ELSE {})
        BY <4>1, AboveStep
      <4> QED BY <3>2, <4>2, <4>3, <4>4
    <3> QED BY <3>1, <3>2
  <2> QED BY <2>1
<1>2. Chain = CHOOSE f : P(f)
  BY DEF Chain
<1>3. P(Chain)
  <2> HIDE DEF P
  <2> QED BY <1>1, <1>2
<1>4. /\ Chain[Host] = {}
      /\ \A n \in Node : Chain[n] = {n} \cup Chain[Parent[n]]
  <2>1. \A n \in D : Chain[n] = IF n = Host THEN {} ELSE {n} \cup Chain[Parent[n]]
    BY <1>3
  <2> QED BY <2>1, UsbTreeConstants
<1>5. Parent[Root] = Host /\ Root \in Node
  BY UsbTreeConstants
<1> QED BY <1>4, <1>5

LEMMA SlowEndStep ==
    /\ SlowEnd(Root) = {}
    /\ \A n \in Node \ {Root} :
          SlowEnd(n) = SlowEnd(Parent[n]) \cup
                       (IF Speed[n] # "high" /\ Speed[Parent[n]] = "high" THEN {n} ELSE {})
  BY ChainStep DEF SlowEnd

(* The hub above a device that was found has an address, and keeps it.     *)
LEMMA HubPlaced ==
    ASSUME ControlInv, RouteInv, NEW n \in Node, pc[n] # "new", NEW c \in SlowEnd(n)
    PROVE  /\ c \in Node \ {Root} /\ Parent[c] \in Node
           /\ HubEntered(Parent[c]) /\ pc[Parent[c]] \notin Unaddressed
<1>1. c \in Chain[n] /\ c \in Node \ {Root} /\ pc[c] # "new"
  BY DEF SlowEnd, RouteInv
<1>2. Parent[c] \in Node
  BY <1>1, UsbTreeConstants
<1>3. HubEntered(Parent[c])
  BY <1>1 DEF ControlInv, PortInv
<1> QED BY <1>1, <1>2, <1>3, EntersLater

(* Steps that find no device leave the routes alone, and give an address   *)
(* to no hub whose ports have been visited.                                *)
LEMMA RouteKept ==
    ASSUME ControlInv, RouteInv, NoneFound, route' = route,
           \A m \in Node : pc[m] # "new" => pc'[m] # "new",
           \A m \in Node : pc[m] \notin Unaddressed => address'[m] = address[m]
    PROVE  RouteInv'
<1>1. \A m \in Node : pc'[m] # "new" <=> pc[m] # "new"
  BY DEF NoneFound
<1>2. ASSUME NEW n \in Node, pc'[n] # "new"
      PROVE  /\ Chain[n] \subseteq Node
             /\ \A c \in Chain[n] : pc'[c] # "new" /\ (Speed[n] = "high" => Speed[c] = "high")
             /\ SlowEnd(n) = {} => ~route'[n].split
             /\ \A c \in SlowEnd(n) : /\ route'[n].split /\ route'[n].port = PortOf[c]
                                      /\ route'[n].hub = address'[Parent[c]]
  <2>1. pc[n] # "new"
    BY <1>1, <1>2
  <2>2. /\ Chain[n] \subseteq Node
        /\ \A c \in Chain[n] : pc'[c] # "new" /\ (Speed[n] = "high" => Speed[c] = "high")
        /\ SlowEnd(n) = {} => ~route'[n].split
    BY <1>1, <2>1 DEF RouteInv
  <2>3. ASSUME NEW c \in SlowEnd(n)
        PROVE  /\ route'[n].split /\ route'[n].port = PortOf[c]
               /\ route'[n].hub = address'[Parent[c]]
    <3>1. Parent[c] \in Node /\ pc[Parent[c]] \notin Unaddressed
      BY <2>1, HubPlaced
    <3> QED BY <2>1, <3>1 DEF RouteInv
  <2> QED BY <2>2, <2>3
<1>3. route' \in [Node -> [split : BOOLEAN, hub : Nat, port : Nat]]
  BY DEF RouteInv
<1> QED BY <1>2, <1>3 DEF RouteInv, SlowEnd

(* A device that is found takes the route of its hub, or the hub becomes   *)
(* its translator; then no hub further up is one.                          *)
LEMMA RouteFound ==
    ASSUME ControlInv, AddressInv, RouteInv, NEW n \in Node, NEW c \in Node \ {Root},
           pc[n] # "new", pc[c] = "new", Parent[c] = n,
           address' = [address EXCEPT ![c] = 0],
           route' = [route EXCEPT ![c] = RouteOf(n, c)],
           pc' = [pc EXCEPT ![c] = "descriptor"]
    PROVE  RouteInv'
<1> DEFINE R == [split : BOOLEAN, hub : Nat, port : Nat]
<1>1. /\ route \in [Node -> R] /\ address \in [Node -> Nat] /\ pc \in [Node -> Pcs]
      /\ PortOf[c] \in Nat /\ n # c
  BY UsbTreeConstants DEF RouteInv, AddressInv, ControlInv, TreeTypes
<1>2. RouteOf(n, c) \in R
  <2>1. [split |-> TRUE, hub |-> address[n], port |-> PortOf[c]] \in R
    BY <1>1
  <2> QED BY <1>1, <2>1 DEF RouteOf
<1>3. /\ route' \in [Node -> R] /\ route'[c] = RouteOf(n, c)
      /\ \A m \in Node \ {c} : route'[m] = route[m]
  BY <1>1, <1>2
<1>4. address' = address
  <2>1. address[c] = 0
    BY DEF AddressInv, Unaddressed
  <2> QED BY <1>1, <2>1
<1>5. pc'[c] = "descriptor" /\ \A m \in Node \ {c} : pc'[m] = pc[m]
  BY <1>1
<1>6. /\ Chain[c] = {c} \cup Chain[n]
      /\ SlowEnd(c) = SlowEnd(n) \cup
                      (IF Speed[c] # "high" /\ Speed[n] = "high" THEN {c} ELSE {})
  BY ChainStep, SlowEndStep
<1>7. /\ Chain[n] \subseteq Node
      /\ \A d \in Chain[n] : pc[d] # "new" /\ (Speed[n] = "high" => Speed[d] = "high")
      /\ SlowEnd(n) = {} => ~route[n].split
      /\ \A d \in SlowEnd(n) : /\ route[n].split /\ route[n].port = PortOf[d]
                               /\ route[n].hub = address[Parent[d]]
  BY DEF RouteInv
<1>8. Speed[c] = "high" => Speed[n] = "high"
  BY UsbTreeConstants
<1>9. /\ Chain[c] \subseteq Node
      /\ \A d \in Chain[c] : pc'[d] # "new" /\ (Speed[c] = "high" => Speed[d] = "high")
  BY <1>5, <1>6, <1>7, <1>8
<1>10. Speed[n] = "high" => SlowEnd(n) = {}
  BY <1>7 DEF SlowEnd
<1>11. /\ SlowEnd(c) = {} => ~route'[c].split
       /\ \A d \in SlowEnd(c) : /\ route'[c].split /\ route'[c].port = PortOf[d]
                                /\ route'[c].hub = address'[Parent[d]]
  <2>1. CASE Speed[n] = "high" /\ Speed[c] # "high"
    <3>1. SlowEnd(n) = {} /\ ~route[n].split /\ SlowEnd(c) = {c}
      BY <1>6, <1>7, <1>10, <2>1
    <3>2. route'[c] = [split |-> TRUE, hub |-> address[n], port |-> PortOf[c]]
      BY <1>3, <2>1, <3>1 DEF RouteOf
    <3> QED BY <1>4, <3>1, <3>2
  <2>2. CASE ~(Speed[n] = "high" /\ Speed[c] # "high")
    <3>1. SlowEnd(c) = SlowEnd(n) /\ route'[c] = route[n]
      BY <1>3, <1>6, <2>2 DEF RouteOf
    <3> QED BY <1>4, <1>7, <3>1
  <2> QED BY <2>1, <2>2
<1>12. ASSUME NEW m \in Node, pc'[m] # "new"
       PROVE  /\ Chain[m] \subseteq Node
              /\ \A d \in Chain[m] : pc'[d] # "new" /\ (Speed[m] = "high" => Speed[d] = "high")
              /\ SlowEnd(m) = {} => ~route'[m].split
              /\ \A d \in SlowEnd(m) : /\ route'[m].split /\ route'[m].port = PortOf[d]
                                       /\ route'[m].hub = address'[Parent[d]]
  <2>1. CASE m = c
    BY <1>9, <1>11, <2>1
  <2>2. CASE m # c
    <3>1. pc[m] # "new" /\ route'[m] = route[m]
      BY <1>3, <1>5, <1>12, <2>2
    <3>2. \A d \in Node : pc[d] # "new" => pc'[d] # "new"
      BY <1>5
    <3> QED BY <1>4, <3>1, <3>2 DEF RouteInv
  <2> QED BY <2>1, <2>2
<1> QED BY <1>3, <1>12 DEF RouteInv, SlowEnd

LEMMA RouteStep ==
    ASSUME ControlInv, AddressInv, RouteInv, Next
    PROVE  RouteInv'
<1>1. ASSUME HostMove
      PROVE  RouteInv'
  <2>1. route' = route /\ address' = address /\ pc' = pc
    BY <1>1 DEF HostMove, HostFails, HostPowersUp, InitCore, InitHost, Initialized, objects
  <2> QED BY <2>1, RouteKept DEF NoneFound
<1>2. ASSUME EnableRootPort
      PROVE  RouteInv'
  <2>1. \A m \in Node : pc[m] = "new"
    BY <1>2 DEF EnableRootPort, HostAt, ControlInv, CallInv
  <2>2. route' = [route EXCEPT ![Root] = NoRoute] /\ pc' = [pc EXCEPT ![Root] = "descriptor"]
    BY <1>2 DEF EnableRootPort, Create
  <2>3. /\ pc'[Root] = "descriptor" /\ \A m \in Node \ {Root} : pc'[m] = "new"
        /\ Root \in Node
    BY <2>1, <2>2, UsbTreeConstants DEF ControlInv, TreeTypes
  <2>4. /\ NoRoute \in [split : BOOLEAN, hub : Nat, port : Nat] /\ NoRoute.split = FALSE
    BY DEF NoRoute
  <2>5. /\ route' \in [Node -> [split : BOOLEAN, hub : Nat, port : Nat]]
        /\ route'[Root].split = FALSE
    BY <2>2, <2>3, <2>4 DEF RouteInv
  <2>6. Chain[Root] = {Root} /\ SlowEnd(Root) = {}
    BY ChainStep, SlowEndStep
  <2> QED BY <2>3, <2>5, <2>6 DEF RouteInv, SlowEnd
<1>3. ASSUME RootOverCurrent
      PROVE  RouteInv'
  <2>1. Moves /\ NoneFound
    BY <1>3, OverCurrentKeeps
  <2>2. route' = route /\ address' = address
    BY <1>3 DEF RootOverCurrent, Destroy
  <2> QED BY <2>1, <2>2, RouteKept DEF Moves
<1>4. ASSUME NEW n \in Node, SilentAction(n) \/ PortAction(n)
      PROVE  RouteInv'
  <2>1. Moves /\ NoneFound
    BY <1>4, PlainControl
  <2>2. route' = route /\ address' = address
    <3>1. CASE ReadDescriptor(n) \/ InitializeFails(n) \/ CreateFunctions(n)
               \/ SetConfiguration(n) \/ SetConfigurationFails(n)
      BY <3>1 DEF ReadDescriptor, InitializeFails, CreateFunctions, SetConfiguration,
                  SetConfigurationFails, GiveUp, Destroy, objects
    <3>2. CASE DriverFails(n) \/ DriverRegisters(n) \/ DriverFindsNoChannel(n)
               \/ Configured(n) \/ ConfigureHub(n)
      BY <3>2 DEF DriverFails, DriverRegisters, DriverFindsNoChannel, Configured, ConfigureHub,
                  DriverDone, GiveUp, Destroy, objects
    <3>3. CASE NextLoop(n) \/ ConfigureChild(n) \/ HubStatusGood(n) \/ HubConfigured(n)
      BY <3>3 DEF NextLoop, ConfigureChild, HubStatusGood, HubConfigured, DriverDone, objects
    <3>4. CASE PortAction(n)
      BY <3>4 DEF PortAction, SkipPort, PortBreaksHub, HubStatusBad, RecheckPort, DriverDone, objects
    <3> QED BY <1>4, <3>1, <3>2, <3>3, <3>4 DEF SilentAction
  <2> QED BY <2>1, <2>2, RouteKept DEF Moves
<1>5. ASSUME NEW n \in Node, AddressAction(n)
      PROVE  RouteInv'
  <2>1. GiveStep(n) /\ NoneFound
    BY <1>5, GiveControl
  <2>2. route' = route
    BY <1>5 DEF AddressAction, SetAddress, NoAddressLeft, GiveUp, Destroy
  <2>3. \A m \in Node : pc[m] # "new" => pc'[m] # "new"
    BY <2>1 DEF GiveStep
  <2>4. \A m \in Node : pc[m] \notin Unaddressed => address'[m] = address[m]
    BY <2>1 DEF GiveStep, Unaddressed, AddressInv
  <2> QED BY <2>1, <2>2, <2>3, <2>4, RouteKept
<1>6. ASSUME NEW n \in Node, FindDevice(n)
      PROVE  RouteInv'
  <2>1. pc[n] # "new"
    BY <1>6 DEF FindDevice, Detecting, At
  <2>2. PICK c \in Node \ {Root} :
                 /\ Parent[c] = n /\ pc[c] = "new"
                 /\ hw' = [hw EXCEPT ![c] = Default]
                 /\ address' = [address EXCEPT ![c] = 0]
                 /\ route' = [route EXCEPT ![c] = RouteOf(n, c)]
                 /\ pc' = [pc EXCEPT ![c] = "descriptor"]
    BY <1>6, FindControl
  <2> QED BY <2>1, <2>2, RouteFound
<1> QED BY <1>1, <1>2, <1>3, <1>4, <1>5, <1>6
        DEF Next, HostMove, SilentAction, PortAction, AddressAction

-----------------------------------------------------------------------------
(* Drivers.                                                                *)

(* The drivers that are registered and live stay so, the root device's     *)
(* excepted.                                                               *)
KeptStay == \A m \in Node \ {Root} : \A i : Kept(m, i) => Kept(m, i)'

LEMMA FuncsSame ==
    ASSUME ControlInv, FuncsInv, funcs' = funcs, fi' = fi,
           \A m \in Node : pc'[m] \in Ready => pc[m] \in Ready,
           \A m \in Node : pc[m] \in Served => pc'[m] \in Served
    PROVE  FuncsInv' /\ KeptStay
  BY DEF FuncsInv, KeptStay, Kept

(* A driver's Configure has returned.                                      *)
LEMMA FuncsDone ==
    ASSUME ControlInv, FuncsInv, NEW n \in Node, NEW ok, DriverDone(n, ok),
           pc[n] \in {"drivers"} \cup HubPc
    PROVE  /\ FuncsInv' /\ KeptStay
           /\ \A k \in DOMAIN Drivers[n] : ok /\ k = fi[n] => Kept(n, k)'
<1>1. /\ pc'[n] = "drivers" /\ fi'[n] = fi[n] + 1 /\ fi[n] \in Nat
      /\ \A m \in Node \ {n} : pc'[m] = pc[m] /\ fi'[m] = fi[m]
  BY DEF DriverDone, ControlInv, TreeTypes
<1>2. /\ DOMAIN funcs' = Node /\ \A m \in Node \ {n} : funcs'[m] = funcs[m]
      /\ funcs'[n] \in [DOMAIN Drivers[n] -> {"none", "live", "freed"}]
      /\ \A i \in DOMAIN Drivers[n] : i # fi[n] \/ ok => funcs'[n][i] = funcs[n][i]
  <2>1. DOMAIN funcs = Node /\ funcs[n] \in [DOMAIN Drivers[n] -> {"none", "live", "freed"}]
    BY DEF FuncsInv
  <2>2. CASE ok
    BY <2>1, <2>2 DEF DriverDone
  <2>3. CASE ~ok
    <3>1. funcs' = [funcs EXCEPT ![n] = [funcs[n] EXCEPT ![fi[n]] = "freed"]]
      BY <2>3 DEF DriverDone
    <3> QED BY <2>1, <2>3, <3>1
  <2> QED BY <2>2, <2>3
<1>3. pc[n] \in Ready /\ pc[n] \in Served
  BY DEF Ready, Served, ConfigPc
<1>4. \A i \in DOMAIN Drivers[n] : i \in Nat
  BY DriverIndex
<1>5. FuncsInv'
  <2>1. ASSUME NEW m \in Node
        PROVE  /\ funcs'[m] \in [DOMAIN Drivers[m] -> {"none", "live", "freed"}]
               /\ pc'[m] \in Ready =>
                     \A i \in DOMAIN Drivers[m] : i >= fi'[m] => funcs'[m][i] = "live"
    <3>1. CASE m = n
      <4>1. ASSUME NEW i \in DOMAIN Drivers[n], i >= fi'[n]
            PROVE  funcs'[n][i] = "live"
        <5>1. i >= fi[n] /\ i # fi[n]
          BY <1>1, <1>4, <4>1
        <5> QED BY <1>2, <1>3, <5>1 DEF FuncsInv
      <4> QED BY <1>2, <3>1, <4>1
    <3>2. CASE m # n
      BY <1>1, <1>2, <3>2 DEF FuncsInv
    <3> QED BY <3>1, <3>2
  <2> QED BY <1>2, <2>1 DEF FuncsInv
<1>6. KeptStay
  <2>1. ASSUME NEW m \in Node, NEW i, Kept(m, i)
        PROVE  Kept(m, i)'
    <3>1. CASE m = n
      <4>1. i \in DOMAIN Drivers[n] /\ i < fi[n] /\ funcs[n][i] = "live"
        BY <2>1, <3>1 DEF Kept
      <4>2. i # fi[n] /\ i < fi'[n]
        BY <1>1, <1>4, <4>1
      <4>3. pc'[n] \in Served
        BY <1>1 DEF Served
      <4> QED BY <1>2, <3>1, <4>1, <4>2, <4>3 DEF Kept
    <3>2. CASE m # n
      BY <1>1, <1>2, <2>1, <3>2 DEF Kept
    <3> QED BY <3>1, <3>2
  <2> QED BY <2>1 DEF KeptStay
<1>7. ASSUME NEW k \in DOMAIN Drivers[n], ok, k = fi[n]
      PROVE  Kept(n, k)'
  <2>1. k >= fi[n] /\ k < fi'[n]
    BY <1>1, <1>7
  <2>2. funcs[n][k] = "live"
    BY <1>3, <2>1 DEF FuncsInv
  <2>3. funcs'[n][k] = "live"
    BY <1>2, <1>7, <2>2
  <2>4. pc'[n] \in Served
    BY <1>1 DEF Served
  <2> QED BY <2>1, <2>3, <2>4 DEF Kept
<1> QED BY <1>5, <1>6, <1>7

(* A device is given up that has no driver registered.                     *)
LEMMA FuncsFreed ==
    ASSUME ControlInv, FuncsInv, NEW n \in Node, fi' = fi,
           funcs' = [funcs EXCEPT ![n] = Freed(@)],
           pc' = [pc EXCEPT ![n] = "gone"],
           \/ n = Root \/ pc[n] \notin Served
           \/ \A i \in DOMAIN Drivers[n] : funcs[n][i] # "live"
    PROVE  FuncsInv' /\ KeptStay
<1>1. pc'[n] = "gone" /\ \A m \in Node \ {n} : pc'[m] = pc[m]
  BY DEF ControlInv, TreeTypes
<1>2. /\ DOMAIN funcs' = Node /\ \A m \in Node \ {n} : funcs'[m] = funcs[m]
      /\ funcs'[n] = Freed(funcs[n])
  BY DEF FuncsInv
<1>3. Freed(funcs[n]) \in [DOMAIN Drivers[n] -> {"none", "live", "freed"}]
  <2>1. funcs[n] \in [DOMAIN Drivers[n] -> {"none", "live", "freed"}]
    BY DEF FuncsInv
  <2> QED BY <2>1 DEF Freed
<1>4. FuncsInv'
  <2>1. pc'[n] \notin Ready
    BY <1>1 DEF Ready, ConfigPc, HubPc
  <2>2. ASSUME NEW m \in Node
        PROVE  /\ funcs'[m] \in [DOMAIN Drivers[m] -> {"none", "live", "freed"}]
               /\ pc'[m] \in Ready =>
                     \A i \in DOMAIN Drivers[m] : i >= fi'[m] => funcs'[m][i] = "live"
    <3>1. CASE m = n
      BY <1>2, <1>3, <2>1, <3>1
    <3>2. CASE m # n
      BY <1>1, <1>2, <3>2 DEF FuncsInv
    <3> QED BY <3>1, <3>2
  <2> QED BY <1>2, <2>2 DEF FuncsInv
<1>5. KeptStay
  <2>1. ASSUME NEW m \in Node \ {Root}, NEW i, Kept(m, i)
        PROVE  Kept(m, i)'
    <3>1. m # n
      BY <2>1 DEF Kept
    <3> QED BY <1>1, <1>2, <2>1, <3>1 DEF Kept
  <2> QED BY <2>1 DEF KeptStay
<1> QED BY <1>4, <1>5

(* The functions of a device are created; none was registered before.      *)
LEMMA FuncsCreated ==
    ASSUME ControlInv, FuncsInv, NEW n \in Node, NEW s, fi' = fi, pc[n] = "configuration",
           funcs' = [funcs EXCEPT ![n] = [i \in DOMAIN @ |-> "live"]],
           pc' = [pc EXCEPT ![n] = s]
    PROVE  FuncsInv' /\ KeptStay
<1>1. pc'[n] = s /\ \A m \in Node \ {n} : pc'[m] = pc[m]
  BY DEF ControlInv, TreeTypes
<1>2. /\ DOMAIN funcs' = Node /\ \A m \in Node \ {n} : funcs'[m] = funcs[m]
      /\ funcs'[n] = [i \in DOMAIN Drivers[n] |-> "live"]
  BY DEF FuncsInv
<1>3. FuncsInv'
  <2>1. ASSUME NEW m \in Node
        PROVE  /\ funcs'[m] \in [DOMAIN Drivers[m] -> {"none", "live", "freed"}]
               /\ pc'[m] \in Ready =>
                     \A i \in DOMAIN Drivers[m] : i >= fi'[m] => funcs'[m][i] = "live"
    <3>1. CASE m = n
      BY <1>2, <3>1
    <3>2. CASE m # n
      BY <1>1, <1>2, <3>2 DEF FuncsInv
    <3> QED BY <3>1, <3>2
  <2> QED BY <1>2, <2>1 DEF FuncsInv
<1>4. KeptStay
  <2>1. pc[n] \notin Served
    BY DEF Served, HubPc
  <2> QED BY <1>1, <1>2, <2>1 DEF KeptStay, Kept
<1> QED BY <1>3, <1>4

LEMMA FuncsStep ==
    ASSUME ControlInv, FuncsInv, Next
    PROVE  FuncsInv' /\ KeptStay
<1>1. /\ fi = [m \in Node |-> fi[m]] /\ pc \in [Node -> Pcs]
  BY DEF ControlInv, TreeTypes
<1>2. ASSUME NEW n \in Node, NEW s, pc' = [pc EXCEPT ![n] = s], funcs' = funcs, fi' = fi,
             s \in Ready => pc[n] \in Ready, pc[n] \in Served => s \in Served
      PROVE  FuncsInv' /\ KeptStay
  <2>1. pc'[n] = s /\ \A m \in Node \ {n} : pc'[m] = pc[m]
    BY <1>1, <1>2
  <2>2. /\ \A m \in Node : pc'[m] \in Ready => pc[m] \in Ready
        /\ \A m \in Node : pc[m] \in Served => pc'[m] \in Served
    BY <1>2, <2>1
  <2> QED BY <1>2, <2>2, FuncsSame
<1>3. ASSUME pc' = pc, funcs' = funcs, fi' = fi
      PROVE  FuncsInv' /\ KeptStay
  BY <1>3, FuncsSame
<1>4. ASSUME HostMove
      PROVE  FuncsInv' /\ KeptStay
  <2>1. pc' = pc /\ funcs' = funcs /\ fi' = fi
    BY <1>4 DEF HostMove, HostFails, HostPowersUp, InitCore, InitHost, Initialized, objects
  <2> QED BY <1>3, <2>1
<1>5. ASSUME EnableRootPort
      PROVE  FuncsInv' /\ KeptStay
  <2>1. pc' = [pc EXCEPT ![Root] = "descriptor"] /\ funcs' = funcs /\ fi' = fi
    BY <1>5 DEF EnableRootPort, Create
  <2>2. pc[Root] \notin Served /\ "descriptor" \notin Ready /\ Root \in Node
    BY <1>5, RootPortKeeps, UsbTreeConstants DEF Served, Ready, HubPc, ConfigPc
  <2> QED BY <1>2, <2>1, <2>2
<1>6. ASSUME RootOverCurrent
      PROVE  FuncsInv' /\ KeptStay
  <2>1. /\ pc' = [pc EXCEPT ![Root] = "gone"] /\ fi' = fi
        /\ funcs' = [funcs EXCEPT ![Root] = Freed(@)]
    BY <1>6 DEF RootOverCurrent, Destroy
  <2> QED BY <2>1, FuncsFreed, UsbTreeConstants
<1>7. ASSUME NEW n \in Node, GiveUp(n),
             \/ pc[n] \notin Served
             \/ \A i \in DOMAIN Drivers[n] : funcs[n][i] # "live"
      PROVE  FuncsInv' /\ KeptStay
  BY <1>7, FuncsFreed DEF GiveUp, Destroy, ReturnToCaller
<1>8. ASSUME NEW n \in Node, InitializeFails(n) \/ SetConfigurationFails(n) \/ NoAddressLeft(n)
      PROVE  FuncsInv' /\ KeptStay
  <2>1. GiveUp(n) /\ pc[n] \notin Served
    BY <1>8 DEF InitializeFails, SetConfigurationFails, NoAddressLeft, At, Served, HubPc
  <2> QED BY <1>7, <2>1
<1>9. ASSUME NEW n \in Node, SetAddress(n)
      PROVE  FuncsInv' /\ KeptStay
  <2>1. pc[n] = "address" /\ pc[n] \notin Served /\ "configuration" \notin Ready
    BY <1>9 DEF SetAddress, At, Served, HubPc, Ready, ConfigPc
  <2>2. \/ GiveUp(n)
        \/ pc' = [pc EXCEPT ![n] = "configuration"] /\ funcs' = funcs /\ fi' = fi
    BY <1>9 DEF SetAddress
  <2> QED BY <1>2, <1>7, <2>1, <2>2
<1>10. ASSUME NEW n \in Node, ReadDescriptor(n)
       PROVE  FuncsInv' /\ KeptStay
  <2>1. pc' = [pc EXCEPT ![n] = "address"] /\ funcs' = funcs /\ fi' = fi
    BY <1>10 DEF ReadDescriptor, objects
  <2>2. pc[n] \notin Served /\ "address" \notin Ready
    BY <1>10 DEF ReadDescriptor, At, Served, HubPc, Ready, ConfigPc
  <2> QED BY <1>2, <2>1, <2>2
<1>11. ASSUME NEW n \in Node, CreateFunctions(n)
       PROVE  FuncsInv' /\ KeptStay
  <2>1. /\ fi' = fi /\ funcs' = [funcs EXCEPT ![n] = [i \in DOMAIN @ |-> "live"]]
        /\ pc[n] = "configuration"
    BY <1>11 DEF CreateFunctions, At
  <2>2. \E s : pc' = [pc EXCEPT ![n] = s]
    BY <1>11 DEF CreateFunctions, ReturnToCaller
  <2> QED BY <2>1, <2>2, FuncsCreated
<1>12. ASSUME NEW n \in Node, SetConfiguration(n)
       PROVE  FuncsInv' /\ KeptStay
  <2>1. pc' = [pc EXCEPT ![n] = "drivers"] /\ funcs' = funcs /\ fi' = [fi EXCEPT ![n] = 1]
    BY <1>12 DEF SetConfiguration, objects
  <2>2. pc[n] = "configure" /\ fi[n] = 1
    BY <1>12 DEF SetConfiguration, At, ControlInv, FunctionInv
  <2>3. fi' = fi
    BY <1>1, <2>1, <2>2
  <2>4. pc[n] \in Ready /\ pc[n] \notin Served
    BY <2>2 DEF Ready, ConfigPc, Served, HubPc
  <2> QED BY <1>2, <2>1, <2>3, <2>4
<1>13. ASSUME NEW n \in Node,
              \/ DriverFails(n) \/ DriverRegisters(n) \/ DriverFindsNoChannel(n)
              \/ PortBreaksHub(n) \/ HubStatusBad(n) \/ HubConfigured(n)
       PROVE  FuncsInv' /\ KeptStay
  <2>1. \E ok : DriverDone(n, ok)
    BY <1>13 DEF DriverFails, DriverRegisters, DriverFindsNoChannel, PortBreaksHub, HubStatusBad,
                 HubConfigured
  <2>2. pc[n] \in {"drivers"} \cup HubPc
    BY <1>13 DEF DriverFails, DriverRegisters, DriverFindsNoChannel, PortBreaksHub, HubStatusBad,
                 HubConfigured, ConfigureDriver, Detecting, At, HubPc
  <2> QED BY <2>1, <2>2, FuncsDone
<1>14. ASSUME NEW n \in Node, Configured(n)
       PROVE  FuncsInv' /\ KeptStay
  <2>1. CASE \E i \in DOMAIN funcs[n] : funcs[n][i] = "live"
    <3>1. pc' = [pc EXCEPT ![n] = "configured"] /\ funcs' = funcs /\ fi' = fi
      BY <1>14, <2>1 DEF Configured, ReturnToCaller, objects
    <3>2. "configured" \in Served /\ "configured" \notin Ready
      BY DEF Served, Ready, ConfigPc, HubPc
    <3> QED BY <1>2, <3>1, <3>2
  <2>2. CASE ~\E i \in DOMAIN funcs[n] : funcs[n][i] = "live"
    <3>1. GiveUp(n)
      BY <1>14, <2>2 DEF Configured
    <3>2. DOMAIN funcs[n] = DOMAIN Drivers[n]
      BY DEF FuncsInv
    <3> QED BY <1>7, <2>2, <3>1, <3>2
  <2> QED BY <2>1, <2>2
<1>15. ASSUME NEW n \in Node, ConfigureHub(n) \/ NextLoop(n) \/ HubStatusGood(n)
       PROVE  FuncsInv' /\ KeptStay
  <2>1. \E s \in HubPc : pc' = [pc EXCEPT ![n] = s] /\ funcs' = funcs /\ fi' = fi
    BY <1>15 DEF ConfigureHub, NextLoop, HubStatusGood, HubPc, objects
  <2>2. pc[n] \in Ready
    BY <1>15 DEF ConfigureHub, ConfigureDriver, NextLoop, HubStatusGood, At, Ready, ConfigPc, HubPc
  <2>3. \A s \in HubPc : s \in Served
    BY DEF Served
  <2> QED BY <1>2, <2>1, <2>2, <2>3
<1>16. ASSUME NEW n \in Node, SkipPort(n) \/ RecheckPort(n)
       PROVE  FuncsInv' /\ KeptStay
  <2>1. pc' = pc /\ funcs' = funcs /\ fi' = fi
    BY <1>16 DEF SkipPort, RecheckPort, objects
  <2> QED BY <1>3, <2>1
<1>17. ASSUME NEW n \in Node, ConfigureChild(n)
       PROVE  FuncsInv' /\ KeptStay
  <2>1. funcs' = funcs /\ fi' = fi
    BY <1>17 DEF ConfigureChild, objects
  <2>2. pc[n] = "children"
    BY <1>17 DEF ConfigureChild, At
  <2>3. ASSUME NEW c \in Node, CallStep(n, c)
        PROVE  FuncsInv' /\ KeptStay
    <3>1. pc[c] = "initialized" /\ pc' = [pc EXCEPT ![c] = "configure"]
      BY <2>2, <2>3, CalledOnce DEF CallStep
    <3>2. pc[c] \in Ready /\ pc[c] \notin Served
      BY <3>1 DEF Ready, Served, HubPc
    <3> QED BY <1>2, <2>1, <3>1, <3>2
  <2>4. ASSUME LocalStep(n, "children", fi[n], port[n] + 1)
        PROVE  FuncsInv' /\ KeptStay
    <3>1. pc' = [pc EXCEPT ![n] = "children"]
      BY <2>4 DEF LocalStep
    <3> QED BY <1>2, <2>1, <2>2, <3>1
  <2> QED BY <1>17, <2>3, <2>4, CallShapes
<1>18. ASSUME NEW n \in Node, FindDevice(n)
       PROVE  FuncsInv' /\ KeptStay
  <2>1. PICK c \in Node : pc[c] = "new" /\ pc' = [pc EXCEPT ![c] = "descriptor"]
    BY <1>18, FindControl
  <2>2. funcs' = funcs /\ fi' = fi
    BY <1>18 DEF FindDevice, Create
  <2>3. pc[c] \notin Served /\ "descriptor" \notin Ready
    BY <2>1 DEF Served, Ready, HubPc, ConfigPc
  <2> QED BY <1>2, <2>1, <2>2, <2>3
<1> QED BY <1>4, <1>5, <1>6, <1>8, <1>9, <1>10, <1>11, <1>12, <1>13, <1>14, <1>15, <1>16,
           <1>17, <1>18 DEF Next, HostMove

LEMMA NamesKept ==
    ASSUME NamesInv, KeptStay, names' = names, number' = number, library' = library
    PROVE  NamesInv'
<1>1. ASSUME NEW e \in DOMAIN names
      PROVE  \/ names'[e].kind = "umidi" \/ names'[e].node = Root
             \/ Kept(names[e].node, names[e].fn)'
  <2>1. names[e].node \in Node
    <3>1. names \in Seq(Entries)
      BY DEF NamesInv, Entries
    <3>2. names[e] \in Entries
      BY <3>1
    <3> QED BY <3>2 DEF Entries
  <2> QED BY <2>1 DEF NamesInv, KeptStay
<1> QED BY <1>1 DEF NamesInv, Kept

(* A driver registers at the head of the list.                             *)
LEMMA NamesGrow ==
    ASSUME ControlInv, NamesInv, KeptStay, NEW n \in Node, ConfigureDriver(n), Register(n),
           library' = library,
           \A k \in DOMAIN Drivers[n] : k = fi[n] =>
               Drivers[n][k] = "umidi" \/ Kept(n, k)'
    PROVE  NamesInv'
<1> DEFINE k == fi[n]
           r == [kind |-> Driver(n), number |-> number[Driver(n)], node |-> n, fn |-> k]
<1>1. k \in DOMAIN Drivers[n] /\ k \in Nat /\ Driver(n) = Drivers[n][k]
  <2>1. fi[n] \in Nat \ {0} /\ fi[n] <= Len(Drivers[n])
    BY DEF ConfigureDriver, MoreDrivers, ControlInv, TreeTypes
  <2> QED BY <2>1, DriverIndex DEF Driver
<1>2. Driver(n) \in Kinds
  <2>1. Drivers[n] \in Seq(Kinds)
    BY UsbTreeConstants
  <2> HIDE DEF Kinds
  <2> QED BY <1>1, <2>1
<1>3. /\ names \in Seq(Entries) /\ number \in [Kinds -> Nat]
      /\ names' = <<r>> \o names /\ number' = [number EXCEPT ![Driver(n)] = @ + 1]
  BY DEF NamesInv, Entries, Register
<1>4. r \in Entries /\ number' \in [Kinds -> Nat]
  BY <1>1, <1>2, <1>3 DEF Entries
<1>5. r.kind = Driver(n) /\ r.node = n /\ r.fn = k
  OBVIOUS
<1> HIDE DEF r
<1>6. /\ names' \in Seq(Entries) /\ DOMAIN names' = 1 .. Len(names) + 1 /\ Len(names) \in Nat
      /\ DOMAIN names = 1 .. Len(names)
      /\ names'[1] = r
      /\ \A e \in DOMAIN names : names'[e + 1] = names[e]
  <2>1. <<r>> \in Seq(Entries) /\ Len(<<r>>) = 1 /\ <<r>>[1] = r
    BY <1>4
  <2>2. Len(names) \in Nat /\ DOMAIN names = 1 .. Len(names)
    BY <1>3
  <2>3. /\ names' \in Seq(Entries) /\ Len(names') = 1 + Len(names)
        /\ \A e \in 1 .. 1 + Len(names) :
              names'[e] = IF e <= 1 THEN <<r>>[e] ELSE names[e - 1]
    BY <1>3, <2>1, ConcatProperties
  <2>4. DOMAIN names' = 1 .. Len(names) + 1
    BY <2>2, <2>3
  <2>5. names'[1] = r
    BY <2>1, <2>2, <2>3
  <2>6. ASSUME NEW e \in DOMAIN names
        PROVE  names'[e + 1] = names[e]
    <3>1. e \in Nat /\ e >= 1 /\ e + 1 \in 1 .. 1 + Len(names) /\ (e + 1) - 1 = e /\ ~(e + 1 <= 1)
      BY <2>2
    <3> QED BY <2>3, <3>1
  <2> QED BY <2>2, <2>3, <2>4, <2>5, <2>6
<1>7. ASSUME NEW f \in DOMAIN names'
      PROVE  \/ names'[f].kind = "umidi" \/ names'[f].node = Root
             \/ Kept(names[f].node, names[f].fn)'
  <2>1. PICK d \in Entries : names'[f] = d
    BY <1>6
  <2>2. PICK m \in Node, j \in Nat : m = d.node /\ j = d.fn
    BY DEF Entries
  <2>3. d.kind = "umidi" \/ m = Root \/ Kept(m, j)'
    <3>1. CASE f = 1
      <4>1. d.kind = Drivers[n][k] /\ m = n /\ j = k
        BY <1>1, <1>5, <1>6, <2>1, <2>2, <3>1
      <4> HIDE DEF k
      <4>2. Drivers[n][k] = "umidi" \/ Kept(n, j)'
        <5>1. j \in DOMAIN Drivers[n] /\ j = fi[n]
          BY <1>1, <4>1 DEF k
        <5> QED BY <4>1, <5>1
      <4> QED BY <4>1, <4>2
    <3>2. CASE f # 1
      <4>1. f - 1 \in DOMAIN names /\ f = (f - 1) + 1
        BY <1>6, <3>2
      <4>2. d = names[f - 1]
        BY <1>6, <2>1, <4>1
      <4>3. d.kind = "umidi" \/ m = Root \/ Kept(m, j)
        BY <2>2, <4>1, <4>2 DEF NamesInv
      <4> QED BY <4>3 DEF KeptStay
    <3> QED BY <3>1, <3>2
  <2> QED BY <2>1, <2>2, <2>3
<1>8. ASSUME NEW p \in Pointers, NEW d \in library'[p]
      PROVE  \E f \in DOMAIN names' : d = names'[f]
  <2>1. PICK e \in DOMAIN names : d = names[e]
    BY DEF NamesInv
  <2>2. e + 1 \in DOMAIN names'
    BY <1>6
  <2> QED BY <1>6, <2>1, <2>2
<1> QED BY <1>4, <1>6, <1>7, <1>8 DEF NamesInv, Entries

LEMMA NamesStep ==
    ASSUME ControlInv, FuncsInv, NamesInv, Next
    PROVE  NamesInv'
<1>1. KeptStay
  BY FuncsStep
<1>2. ASSUME Initialized
      PROVE  NamesInv'
  <2>1. names' = names /\ number' = number /\ library' = [p \in Pointers |-> Lookup(p[1], p[2])]
    BY <1>2 DEF Initialized, services
  <2>2. pc' = pc /\ fi' = fi /\ funcs' = funcs
    BY <1>2 DEF Initialized, objects
  <2>3. ASSUME NEW p \in Pointers, NEW d \in library'[p]
        PROVE  \E e \in DOMAIN names : d = names[e]
    <3>1. d \in Lookup(p[1], p[2])
      BY <2>1
    <3> QED BY <3>1 DEF Lookup
  <2> QED BY <2>1, <2>2, <2>3 DEF NamesInv, Kept
<1>3. ASSUME NEW n \in Node, DriverRegisters(n)
      PROVE  NamesInv'
  <2>1. ConfigureDriver(n) /\ Register(n) /\ library' = library /\ DriverDone(n, TRUE)
    BY <1>3 DEF DriverRegisters
  <2>2. pc[n] \in {"drivers"} \cup HubPc
    BY <2>1 DEF ConfigureDriver, At
  <2>3. \A k \in DOMAIN Drivers[n] : k = fi[n] => Kept(n, k)'
    BY <2>1, <2>2, FuncsDone
  <2> QED BY <1>1, <2>1, <2>3, NamesGrow
<1>4. ASSUME NEW n \in Node, DriverFindsNoChannel(n)
      PROVE  NamesInv'
  <2>1. ConfigureDriver(n) /\ Register(n) /\ library' = library /\ Driver(n) = "umidi"
    BY <1>4 DEF DriverFindsNoChannel
  <2>2. \A k \in DOMAIN Drivers[n] : k = fi[n] => Drivers[n][k] = "umidi"
    BY <2>1 DEF Driver
  <2> QED BY <1>1, <2>1, <2>2, NamesGrow
<1>5. ASSUME \/ HostFails \/ HostPowersUp \/ InitCore \/ InitHost
             \/ EnableRootPort \/ RootOverCurrent
      PROVE  NamesInv'
  <2>1. names' = names /\ number' = number /\ library' = library
    BY <1>5 DEF HostFails, HostPowersUp, InitCore, InitHost, EnableRootPort, RootOverCurrent, services
  <2> QED BY <1>1, <2>1, NamesKept
<1>6. ASSUME NEW n \in Node,
             \/ ReadDescriptor(n) \/ InitializeFails(n) \/ SetAddress(n) \/ NoAddressLeft(n)
             \/ CreateFunctions(n) \/ SetConfiguration(n) \/ SetConfigurationFails(n)
             \/ DriverFails(n) \/ Configured(n)
      PROVE  NamesInv'
  <2>1. names' = names /\ number' = number /\ library' = library
    BY <1>6 DEF ReadDescriptor, InitializeFails, SetAddress, NoAddressLeft, CreateFunctions,
                SetConfiguration, SetConfigurationFails, DriverFails, Configured, GiveUp, services
  <2> QED BY <1>1, <2>1, NamesKept
<1>7. ASSUME NEW n \in Node,
             \/ ConfigureHub(n) \/ SkipPort(n) \/ PortBreaksHub(n) \/ FindDevice(n)
             \/ NextLoop(n) \/ ConfigureChild(n)
             \/ HubStatusGood(n) \/ HubStatusBad(n) \/ RecheckPort(n) \/ HubConfigured(n)
      PROVE  NamesInv'
  <2>1. names' = names /\ number' = number /\ library' = library
    BY <1>7 DEF ConfigureHub, SkipPort, PortBreaksHub, FindDevice, NextLoop, ConfigureChild,
                HubStatusGood, HubStatusBad, RecheckPort, HubConfigured, services
  <2> QED BY <1>1, <2>1, NamesKept
<1> QED BY <1>2, <1>3, <1>4, <1>5, <1>6, <1>7 DEF Next

-----------------------------------------------------------------------------
(* The theorems.                                                           *)

LEMMA ControlStep ==
    ASSUME ControlInv, Next
    PROVE  ControlInv'
<1>1. CASE HostMove
  BY <1>1, HostKeeps
<1>2. CASE EnableRootPort \/ RootOverCurrent
  BY <1>2, RootPortKeeps, OverCurrentKeeps
<1>3. CASE \E n \in Node : SilentAction(n) \/ PortAction(n)
  BY <1>3, PlainControl
<1>4. CASE \E n \in Node : AddressAction(n)
  BY <1>4, GiveControl
<1>5. CASE \E n \in Node : FindDevice(n)
  BY <1>5, FindControl
<1> QED BY <1>1, <1>2, <1>3, <1>4, <1>5
        DEF Next, HostMove, SilentAction, PortAction, AddressAction

LEMMA InitTreeInv == Init => TreeInv
<1> SUFFICES ASSUME Init
             PROVE  TreeInv
  OBVIOUS
<1> USE UsbTreeConstants
<1>1. ControlInv
  <2>1. TreeTypes
    <3>1. host \in [pc : {"vendor", "core", "host", "root", "ready", "done", "failed"},
                    handler : BOOLEAN, int : BOOLEAN, mask : BOOLEAN, channels : Nat]
      <4>1. host \in [pc : {"vendor"}, handler : {FALSE}, int : BOOLEAN, mask : BOOLEAN,
                      channels : {0}]
        BY DEF Init
      <4>2. FALSE \in BOOLEAN /\ 0 \in Nat
        OBVIOUS
      <4> QED BY <4>1, <4>2
    <3>2. /\ cur \in Node \cup {Host} /\ pc \in [Node -> Pcs]
          /\ fi \in [Node -> Nat \ {0}] /\ port \in [Node -> Nat \ {0}]
          /\ object \in [Node -> {"none", "live", "freed"}]
      BY DEF Init, Pcs
    <3> QED BY <3>1, <3>2 DEF TreeTypes
  <2>2. \A n \in Node : pc[n] = "new" /\ fi[n] = 1 /\ object[n] = "none"
    BY DEF Init
  <2>3. \A n \in Node : ~Running(n)
    BY <2>2 DEF Running, InitPc, ConfigPc, HubPc
  <2>4. CallInv
    <3>1. cur = Host /\ host.pc = "vendor"
      BY DEF Init
    <3> QED BY <2>2, <2>3, <3>1 DEF CallInv
  <2>5. LiveInv /\ FunctionInv /\ PortInv
    BY <2>2 DEF LiveInv, FunctionInv, PortInv, HubPc
  <2> QED BY <2>1, <2>4, <2>5 DEF ControlInv
<1>2. AddressInv
  <2>1. /\ \A n \in Node : address[n] = 0 /\ hw[n] = Quiet /\ pc[n] = "new"
        /\ address \in [Node -> Nat] /\ hw \in [Node -> [on : BOOLEAN, addr : Nat]] /\ next = 1
    BY DEF Init, Quiet
  <2>2. \A n \in Node : ~Placed(n)
    BY <1>1, <2>1, EntersLater DEF Unaddressed
  <2>3. 1 <= Cardinality(Given) + 1
    BY GivenFinite
  <2>4. Quiet.on = FALSE /\ Quiet.addr = 0
    BY DEF Quiet
  <2> QED BY <2>1, <2>2, <2>3, <2>4 DEF AddressInv
<1>3. RouteInv
  BY DEF Init, RouteInv, NoRoute
<1>4. FuncsInv
  <2>1. \A n \in Node : pc[n] \notin Ready
    BY DEF Init, Ready, ConfigPc, HubPc
  <2> QED BY <2>1 DEF FuncsInv, Init
<1>5. NamesInv
  <2>1. names = <<>> /\ \A p \in Pointers : library[p] = {}
    BY DEF Init
  <2>2. number \in [Kinds -> Nat]
    BY DEF Init, FirstNumber
  <2>3. names \in Seq(Entries) /\ DOMAIN names = {}
    BY <2>1
  <2> QED BY <2>1, <2>2, <2>3 DEF NamesInv
<1> QED BY <1>1, <1>2, <1>3, <1>4, <1>5 DEF TreeInv

LEMMA NextTreeInv == TreeInv /\ [Next]_vars => TreeInv'
<1>1. ASSUME TreeInv, Next
      PROVE  TreeInv'
  BY <1>1, ControlStep, AddressStep, RouteStep, FuncsStep, NamesStep DEF TreeInv
<1>2. ASSUME TreeInv, UNCHANGED vars
      PROVE  TreeInv'
  <2>1. ControlInv'
    BY <1>2 DEF TreeInv, ControlInv, TreeTypes, CallInv, LiveInv, FunctionInv, PortInv, Running,
                HubEntered, vars, objects
  <2>2. AddressInv' /\ RouteInv'
    BY <1>2 DEF TreeInv, AddressInv, RouteInv, Given, Placed, HubEntered, Live, SlowEnd, vars,
                objects, services
  <2>3. FuncsInv' /\ NamesInv'
    BY <1>2 DEF TreeInv, FuncsInv, NamesInv, Kept, vars, objects, services
  <2> QED BY <2>1, <2>2, <2>3 DEF TreeInv
<1> QED BY <1>1, <1>2

(* The calls nest, the addresses that are given out stay apart, the routes *)
(* name the translators, and the drivers that are registered stay: the     *)
(* conjunction is kept by every step of USPiInitialize.                    *)
THEOREM TreeInvHolds == Spec => []TreeInv
<1>1. Init => TreeInv
  BY InitTreeInv
<1>2. TreeInv /\ [Next]_vars => TreeInv'
  BY NextTreeInv
<1> QED BY <1>1, <1>2, PTL DEF Spec

(* USBDeviceInitialize: a device that was given an address is the only one *)
(* in use that hears it, and only the device that is being initialised     *)
(* hears the default address, whatever fails and however the tree looks.   *)
THEOREM AddressTheorem == Spec => []AddressesUnique
<1>1. TreeInv => AddressesUnique
  <2> SUFFICES ASSUME TreeInv
               PROVE  AddressesUnique
    OBVIOUS
  <2> USE DEF TreeInv
  <2>1. ASSUME NEW m \in Node, Live(m), pc[m] \in Unaddressed
        PROVE  cur = m /\ address[m] = 0 /\ hw[m].addr = 0
    <3>1. pc[m] \in {"descriptor", "address"}
      BY <2>1 DEF Live, ControlInv, LiveInv, Unaddressed
    <3>2. cur = m
      BY <3>1 DEF ControlInv, CallInv, Running, InitPc
    <3> QED BY <3>1, <3>2 DEF AddressInv, Unaddressed
  <2>2. ASSUME NEW m \in Node, Live(m), pc[m] \notin Unaddressed
        PROVE  address[m] # 0 /\ (hw[m].on => hw[m].addr = address[m])
    <3>1. Placed(m)
      BY <2>2 DEF Live, ControlInv, LiveInv, Placed
    <3> QED BY <3>1 DEF AddressInv
  <2>3. \A m \in Node : ~hw[m].on => hw[m].addr = 0
    BY DEF AddressInv
  <2>4. ASSUME NEW n \in Node, Live(n)
        PROVE  /\ hw[n] = Default => cur = n /\ address[n] = 0
               /\ address[n] # 0 => (hw[n].on => hw[n].addr = address[n])
    <3>1. Default.on /\ Default.addr = 0
      BY DEF Default
    <3> QED BY <2>1, <2>2, <2>4, <3>1
  <2>5. ASSUME NEW n \in Node, NEW m \in Node \ {n}, Live(n), Live(m), address[n] # 0
        PROVE  address[m] # address[n] /\ hw[m].addr # address[n]
    <3>1. address[m] # address[n]
      BY <2>5 DEF AddressInv
    <3>2. hw[m].addr = 0 \/ hw[m].addr = address[m]
      BY <2>1, <2>2, <2>3, <2>5
    <3> QED BY <2>5, <3>1, <3>2
  <2> QED BY <2>4, <2>5 DEF AddressesUnique
<1> QED BY <1>1, TreeInvHolds, PTL

(* USBStandardHubEnumeratePorts: the split transfers of a device name the  *)
(* address that its transaction translator hears and the port there, for   *)
(* every arrangement of slow and fast hubs.                                *)
THEOREM TranslatorTheorem == Spec => []TranslatorRight
<1>1. TreeInv => TranslatorRight
  <2> SUFFICES ASSUME TreeInv, NEW n \in Node, Live(n)
               PROVE  IF SlowEnd(n) = {} THEN ~route[n].split
                      ELSE \A c \in SlowEnd(n) :
                              /\ route[n].split /\ route[n].port = PortOf[c]
                              /\ hw[Parent[c]].on => route[n].hub = hw[Parent[c]].addr
    BY DEF TranslatorRight
  <2> USE DEF TreeInv
  <2>1. pc[n] # "new"
    BY DEF Live, ControlInv, LiveInv
  <2>2. SlowEnd(n) = {} => ~route[n].split
    BY <2>1 DEF RouteInv
  <2>3. ASSUME NEW c \in SlowEnd(n)
        PROVE  /\ route[n].split /\ route[n].port = PortOf[c]
               /\ hw[Parent[c]].on => route[n].hub = hw[Parent[c]].addr
    <3>1. Parent[c] \in Node /\ HubEntered(Parent[c])
      BY <2>1, HubPlaced
    <3>2. hw[Parent[c]].on => hw[Parent[c]].addr = address[Parent[c]]
      BY <3>1 DEF AddressInv, Placed
    <3> QED BY <2>1, <3>2 DEF RouteInv
  <2> QED BY <2>2, <2>3
<1> QED BY <1>1, TreeInvHolds, PTL

(* USPiInitialize hands out no driver that was freed, but for the MIDI     *)
(* driver without a channel and the drivers of a root device that is       *)
(* switched off.                                                           *)
THEOREM DriverTheorem == Spec => []DriversAlive
<1>1. TreeInv => DriversAlive
  <2> SUFFICES ASSUME TreeInv, NEW p \in Pointers, NEW d \in library[p],
                      funcs[d.node][d.fn] = "freed"
               PROVE  d.kind = "umidi" \/ d.node = Root
    BY DEF DriversAlive
  <2>1. PICK e \in DOMAIN names : d = names[e]
    BY DEF TreeInv, NamesInv
  <2>2. d.kind = "umidi" \/ d.node = Root \/ Kept(d.node, d.fn)
    BY <2>1 DEF TreeInv, NamesInv
  <2> QED BY <2>2 DEF Kept
<1> QED BY <1>1, TreeInvHolds, PTL
=============================================================================
