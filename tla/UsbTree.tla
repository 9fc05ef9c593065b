------------------------------- MODULE UsbTree -------------------------------
(***************************************************************************)
(* USPiInitialize: the host controller is set up and the devices behind    *)
(* the root port are found, given an address, configured and registered.   *)
(* Everything runs on core 0, one call inside the other: a hub's Configure *)
(* initialises and then configures the devices at its ports, which may be  *)
(* hubs again.  cur is the device whose code runs; the call returns to its *)
(* parent, so no stack is needed.                                          *)
(*                                                                         *)
(* Any control message may fail.  The devices are external: powered or     *)
(* not, and listening at an address.                                       *)
(***************************************************************************)
EXTENDS Naturals, Sequences, FiniteSets

CONSTANTS
    Node, Root,   \* the devices that are plugged in, and the one at the root port
    Parent,       \* the hub a device is plugged into
    PortOf,       \* and the port there
    NumPorts,     \* bNbrPorts of a hub
    Speed,        \* "low", "full" or "high"
    Drivers,      \* per device the function drivers that its descriptors select
    Channels,     \* m_nChannels
    MaxAddress,   \* USB_MAX_ADDRESS
    MaxPorts      \* USB_HUB_MAX_PORTS

Host == "host"
Hids == {"ukbd", "umouse", "upad", "umidi"}
Kinds == Hids \cup {"hub", "umsd", "smsc", "lan"}

(* A bus has 127 devices at most, fewer than s_ucNextAddress can count,    *)
(* and a hub has one hub interface.                                        *)
ASSUME UsbTreeConstants ==
    /\ IsFiniteSet(Node) /\ Root \in Node /\ Host \notin Node
    /\ Cardinality(Node) < 255
    /\ Parent \in [Node -> Node \cup {Host}]
    /\ \A n \in Node : Parent[n] = Host <=> n = Root
    /\ Drivers \in [Node -> Seq(Kinds)]
    /\ \A n \in Node : \A i, j \in DOMAIN Drivers[n] :
          Drivers[n][i] = "hub" /\ Drivers[n][j] = "hub" => i = j
    /\ NumPorts \in [Node -> Nat] /\ PortOf \in [Node -> Nat]
    /\ \A n \in Node \ {Root} : PortOf[n] \in 1 .. NumPorts[Parent[n]]
    /\ \A m, n \in Node : Parent[m] = Parent[n] /\ PortOf[m] = PortOf[n] => m = n
    /\ Speed \in [Node -> {"low", "full", "high"}]
    /\ \A n \in Node \ {Root} : Speed[n] = "high" => Speed[Parent[n]] = "high"
    /\ Channels \in Nat /\ MaxPorts \in Nat /\ MaxAddress \in 1 .. 254

VARIABLES
    cur,       \* whose code runs: Host or a device
    host,      \* the controller: next step, handler, registers, m_nChannels
    pc,        \* per device: where its initialisation or configuration is
    fi,        \* per device: nFunction of USBDeviceConfigure
    port,      \* per hub: nPort of EnumeratePorts
    good,      \* bResult of EnumeratePorts, in its last loop
    object,    \* per device: TUSBDevice is "none", "live" or "freed"
    funcs,     \* per device and driver: the same for m_pFunction
    address,   \* m_ucAddress
    route,     \* m_bSplitTransfer, m_ucHubAddress and m_ucHubPortNumber
    hw,        \* the devices themselves: port enabled, and the address they hear
    next,      \* s_ucNextAddress
    names,     \* m_pList of the name service
    number,    \* s_nDeviceNumber of each driver
    busy,      \* channels that report requests hold for good
    library    \* s_pLibrary: what USPiInitialize has found

objects == <<object, funcs, address, route>>
services == <<next, names, number, busy>>
vars == <<cur, host, pc, fi, port, good, objects, hw, services, library>>

(* "eth0" and "eth10" tell the two Ethernet controllers apart.             *)
FirstNumber(k) == CASE k = "smsc" -> 0 [] k = "lan" -> 10 [] OTHER -> 1

NoRoute == [split |-> FALSE, hub |-> 0, port |-> 1]
Quiet == [on |-> FALSE, addr |-> 0]
Default == [on |-> TRUE, addr |-> 0]

(* The pointers that USPiInitialize keeps.                                 *)
Pointers == ({"umsd", "upad"} \X (1 .. 4))
            \cup {<<"ukbd", 1>>, <<"umouse", 1>>, <<"umidi", 1>>, <<"smsc", 0>>, <<"lan", 10>>}

Init ==
    /\ cur = Host
    /\ host \in [pc : {"vendor"}, handler : {FALSE}, int : BOOLEAN, mask : BOOLEAN, channels : {0}]
    /\ pc = [n \in Node |-> "new"]
    /\ fi = [n \in Node |-> 1] /\ port = [n \in Node |-> 1] /\ good = TRUE
    /\ object = [n \in Node |-> "none"]
    /\ funcs = [n \in Node |-> [i \in DOMAIN Drivers[n] |-> "none"]]
    /\ address = [n \in Node |-> 0]
    /\ route = [n \in Node |-> NoRoute]
    /\ hw = [n \in Node |-> Quiet]
    /\ next = 1
    /\ names = <<>>
    /\ number = [k \in Kinds |-> FirstNumber(k)]
    /\ busy = 0
    /\ library = [p \in Pointers |-> {}]

-----------------------------------------------------------------------------
(* The host controller.                                                    *)

HostAt(step) == cur = Host /\ host.pc = step

(* DeviceNameServiceGetDevice: the list is searched from its newest entry; *)
(* the empty set is a null pointer.                                        *)
Lookup(k, i) ==
    LET match == {e \in DOMAIN names : names[e].kind = k /\ names[e].number = i} IN
    {names[e] : e \in {e \in match : \A f \in match : e <= f}}

HostStep(step) == host' = [host EXCEPT !.pc = step]

(* Vendor, power or core reset fail: the library is freed again.           *)
HostFails ==
    /\ HostAt("vendor") \/ HostAt("core")
    /\ HostStep("failed")
    /\ UNCHANGED <<cur, pc, fi, port, good, objects, hw, services, library>>

(* The controller is known and powered: no interrupts until it is set up.  *)
HostPowersUp ==
    /\ HostAt("vendor")
    /\ host' = [host EXCEPT !.pc = "core", !.int = FALSE, !.handler = TRUE]
    /\ UNCHANGED <<cur, pc, fi, port, good, objects, hw, services, library>>

(* DWHCIDeviceReset: the soft reset clears the masks of the core.          *)
Reset(h) == [h EXCEPT !.int = FALSE, !.mask = FALSE]

EnableGlobalInterrupts(h) == [h EXCEPT !.int = TRUE]

(* Of the interrupts of the core only those of channels are let through.   *)
EnableHostInterrupts(h) == [h EXCEPT !.mask = TRUE]

(* After the reset the number of channels is read, DMA is switched on and  *)
(* pending interrupts are dropped.                                         *)
InitCore ==
    /\ HostAt("core")
    /\ host' = [Reset(host) EXCEPT !.pc = "host", !.channels = Channels]
    /\ UNCHANGED <<cur, pc, fi, port, good, objects, hw, services, library>>

(* EnableGlobalInterrupts and InitHost, which flushes the FIFOs (a flush   *)
(* that does not end is ignored), powers the root port and lets channel    *)
(* interrupts through.                                                     *)
InitHost ==
    /\ HostAt("host")
    /\ host' = [EnableHostInterrupts(EnableGlobalInterrupts(host)) EXCEPT !.pc = "root"]
    /\ UNCHANGED <<cur, pc, fi, port, good, objects, hw, services, library>>

(* USPiInitialize has returned; a host without devices is not an error.    *)
Initialized ==
    /\ HostAt("root") \/ HostAt("ready")
    /\ HostStep("done")
    /\ library' = [p \in Pointers |-> Lookup(p[1], p[2])]
    /\ UNCHANGED <<cur, pc, fi, port, good, objects, hw, services>>

-----------------------------------------------------------------------------
(* Devices.                                                                *)

At(n, step) == cur = n /\ pc[n] = step

(* Every control message needs a channel and a device that listens.        *)
Replies(n) ==
    IF busy < Channels /\ hw[n].on /\ hw[n].addr = address[n] THEN BOOLEAN ELSE {FALSE}

(* USBDevice: a new object, still at the default address.                  *)
Create(n, r) ==
    /\ object' = [object EXCEPT ![n] = "live"]
    /\ address' = [address EXCEPT ![n] = 0]
    /\ route' = [route EXCEPT ![n] = r]
    /\ pc' = [pc EXCEPT ![n] = "descriptor"]
    /\ cur' = n
    /\ UNCHANGED funcs

Freed(f) == [i \in DOMAIN f |-> IF f[i] = "live" THEN "freed" ELSE f[i]]

(* Faulty variant: the destructor of a hub is called for its function.     *)
DestroyDeep(n) ==
    /\ object' = [m \in Node |-> IF (m = n \/ Parent[m] = n) /\ object[m] = "live"
                                 THEN "freed" ELSE object[m]]
    /\ funcs' = [m \in Node |-> IF m = n \/ Parent[m] = n THEN Freed(funcs[m]) ELSE funcs[m]]
    /\ UNCHANGED <<address, route>>

(* _USBDevice and free.  _USBFunction is called for a function, whatever   *)
(* its driver is: the devices at the ports of a hub stay.                  *)
Destroy(n) ==
    /\ object' = [object EXCEPT ![n] = "freed"]
    /\ funcs' = [funcs EXCEPT ![n] = Freed(@)]
    /\ UNCHANGED <<address, route>>

(* The loop over the ports that called goes on; the root port's caller is  *)
(* done with its work.                                                     *)
ReturnToCaller(n, step) ==
    /\ pc' = [pc EXCEPT ![n] = step]
    /\ cur' = Parent[n]
    /\ port' = IF n = Root THEN port ELSE [port EXCEPT ![Parent[n]] = @ + 1]

(* Initialize or Configure fails: the caller destroys the device.          *)
GiveUp(n) ==
    /\ Destroy(n)
    /\ ReturnToCaller(n, "gone")
    /\ UNCHANGED <<host, fi, good, library>>

(* EnableRootPort and RootPortInitialize up to USBDeviceInitialize: a      *)
(* device is connected, was reset and shows its speed.                     *)
EnableRootPort ==
    /\ HostAt("root")
    /\ HostStep("ready")
    /\ hw' = [hw EXCEPT ![Root] = Default]
    /\ Create(Root, NoRoute)
    /\ UNCHANGED <<fi, port, good, services, library>>

(* USBDeviceInitialize reads the device descriptor, first its head.        *)
ReadDescriptor(n) ==
    /\ At(n, "descriptor")
    /\ TRUE \in Replies(n)
    /\ pc' = [pc EXCEPT ![n] = "address"]
    /\ UNCHANGED <<cur, host, fi, port, good, objects, hw, services, library>>

(* A message of USBDeviceInitialize fails or its answer is not valid; the  *)
(* device stays as it is, at whatever address it listens.                  *)
InitializeFails(n) ==
    /\ At(n, "descriptor") \/ At(n, "configuration")
    /\ GiveUp(n)
    /\ UNCHANGED <<hw, services>>

(* All devices that listen at the default address hear SET_ADDRESS.        *)
Addressed(a) == [m \in Node |-> IF hw[m] = Default THEN [on |-> TRUE, addr |-> a] ELSE hw[m]]

(* Faulty variant: the counter stays at the last address.                  *)
SetAddressLast(n) ==
    /\ At(n, "address")
    /\ next' = IF next < MaxAddress THEN next + 1 ELSE next
    /\ \/ /\ TRUE \in Replies(n)
          /\ hw' = Addressed(next)
          /\ address' = [address EXCEPT ![n] = next]
          /\ pc' = [pc EXCEPT ![n] = "configuration"]
          /\ UNCHANGED <<cur, host, fi, port, good, object, funcs, route, library>>
       \/ /\ hw' \in {hw, Addressed(next)}
          /\ GiveUp(n)
    /\ UNCHANGED <<names, number, busy>>

(* A new address for the device.  If the message fails the device may      *)
(* still have taken it.                                                    *)
SetAddress(n) ==
    /\ At(n, "address")
    /\ next' = (next + 1) % 256
    /\ next <= MaxAddress
    /\ \/ /\ TRUE \in Replies(n)
          /\ hw' = Addressed(next)
          /\ address' = [address EXCEPT ![n] = next]
          /\ pc' = [pc EXCEPT ![n] = "configuration"]
          /\ UNCHANGED <<cur, host, fi, port, good, object, funcs, route, library>>
       \/ /\ hw' \in {hw, Addressed(next)}
          /\ GiveUp(n)
    /\ UNCHANGED <<names, number, busy>>

(* Too many devices.                                                       *)
NoAddressLeft(n) ==
    /\ At(n, "address")
    /\ next > MaxAddress
    /\ next' = (next + 1) % 256
    /\ GiveUp(n)
    /\ UNCHANGED <<hw, names, number, busy>>

(* The configuration descriptor is valid and selects a driver at least:    *)
(* the functions are created.  The root device is configured at once.      *)
CreateFunctions(n) ==
    /\ At(n, "configuration")
    /\ TRUE \in Replies(n)
    /\ Drivers[n] # <<>>
    /\ funcs' = [funcs EXCEPT ![n] = [i \in DOMAIN @ |-> "live"]]
    /\ IF n = Root
       THEN pc' = [pc EXCEPT ![n] = "configure"] /\ UNCHANGED <<cur, port>>
       ELSE ReturnToCaller(n, "initialized")
    /\ UNCHANGED <<host, fi, good, object, address, route, hw, services, library>>

(* USBDeviceConfigure: SET_CONFIGURATION.                                  *)
SetConfiguration(n) ==
    /\ At(n, "configure")
    /\ TRUE \in Replies(n)
    /\ pc' = [pc EXCEPT ![n] = "drivers"]
    /\ fi' = [fi EXCEPT ![n] = 1]
    /\ UNCHANGED <<cur, host, port, good, objects, hw, services, library>>

SetConfigurationFails(n) ==
    /\ At(n, "configure")
    /\ GiveUp(n)
    /\ UNCHANGED <<hw, services>>

MoreDrivers(n) == fi[n] <= Len(Drivers[n])
Driver(n) == Drivers[n][fi[n]]

(* The result of the current driver's Configure; a failed one is freed.    *)
DriverDone(n, ok) ==
    /\ funcs' = IF ok THEN funcs ELSE [funcs EXCEPT ![n][fi[n]] = "freed"]
    /\ fi' = [fi EXCEPT ![n] = @ + 1]
    /\ pc' = [pc EXCEPT ![n] = "drivers"]
    /\ UNCHANGED <<object, address, route>>

ConfigureDriver(n) == At(n, "drivers") /\ MoreDrivers(n)

(* A driver's descriptors or one of its messages fail.                     *)
DriverFails(n) ==
    /\ ConfigureDriver(n)
    /\ DriverDone(n, FALSE)
    /\ UNCHANGED <<cur, host, port, good, hw, services, library>>

(* A driver adds itself to the name service.                               *)
Register(n) ==
    /\ names' = <<[kind |-> Driver(n), number |-> number[Driver(n)], node |-> n,
                   fn |-> fi[n]]>> \o names
    /\ number' = [number EXCEPT ![Driver(n)] = @ + 1]

(* A driver configures its device and registers.  Configure of an input    *)
(* device ends with the first report request, which holds a channel for    *)
(* good; the messages before it have shown that there is one.              *)
DriverRegisters(n) ==
    /\ ConfigureDriver(n)
    /\ Driver(n) # "hub"
    /\ TRUE \in Replies(n)
    /\ Register(n)
    /\ busy' = IF Driver(n) \in Hids THEN busy + 1 ELSE busy
    /\ DriverDone(n, TRUE)
    /\ UNCHANGED <<cur, host, port, good, hw, next, library>>

(* The MIDI driver sends no message when its alternate setting is 0: it    *)
(* registers and only then finds that there is no channel.                 *)
DriverFindsNoChannel(n) ==
    /\ ConfigureDriver(n)
    /\ Driver(n) = "umidi"
    /\ busy = Channels
    /\ Register(n)
    /\ DriverDone(n, FALSE)
    /\ UNCHANGED <<cur, host, port, good, hw, next, busy, library>>

(* USBDeviceConfigure is done: one configured driver is enough.            *)
Configured(n) ==
    /\ At(n, "drivers") /\ ~MoreDrivers(n)
    /\ IF \E i \in DOMAIN funcs[n] : funcs[n][i] = "live"
       THEN /\ ReturnToCaller(n, "configured")
            /\ UNCHANGED <<host, fi, good, objects, library>>
       ELSE GiveUp(n)
    /\ UNCHANGED <<hw, services>>

-----------------------------------------------------------------------------
(* Hubs.                                                                   *)

ChildrenAt(n, p) == {c \in Node : Parent[c] = n /\ PortOf[c] = p}

(* A device and the hubs it hangs on.                                      *)
Chain[n \in Node \cup {Host}] == IF n = Host THEN {} ELSE {n} \cup Chain[Parent[n]]

(* A port without power silences everything behind it.                     *)
SwitchedOff(S) == [m \in Node |-> IF Chain[m] \cap S # {} THEN Quiet ELSE hw[m]]

(* USBStandardHubConfigure and the first loop of EnumeratePorts, in which  *)
(* all ports get power; every failure is DriverFails.                      *)
ConfigureHub(n) ==
    /\ ConfigureDriver(n)
    /\ Driver(n) = "hub"
    /\ TRUE \in Replies(n)
    /\ NumPorts[n] <= MaxPorts
    /\ pc' = [pc EXCEPT ![n] = "detect"]
    /\ port' = [port EXCEPT ![n] = 1]
    /\ UNCHANGED <<cur, host, fi, good, objects, hw, services, library>>

Detecting(n) == At(n, "detect") /\ port[n] <= NumPorts[n]

(* Faulty variant: the loop does not step over a port without a device.    *)
SkipPortStays(n) ==
    /\ Detecting(n)
    /\ hw' \in {hw} \cup {[hw EXCEPT ![c] = Default] : c \in ChildrenAt(n, port[n])}
    /\ UNCHANGED <<cur, host, pc, fi, port, good, objects, services, library>>

(* No status, no device, no reset or no enabled port.  A reset whose       *)
(* message is lost may have happened.                                      *)
SkipPort(n) ==
    /\ Detecting(n)
    /\ hw' \in {hw} \cup {[hw EXCEPT ![c] = Default] : c \in ChildrenAt(n, port[n])}
    /\ port' = [port EXCEPT ![n] = @ + 1]
    /\ UNCHANGED <<cur, host, pc, fi, good, objects, services, library>>

(* After the reset the status cannot be read or shows over-current; the    *)
(* request to switch the port off may be lost.                             *)
PortBreaksHub(n) ==
    /\ Detecting(n)
    /\ TRUE \in Replies(n)
    /\ \E c \in ChildrenAt(n, port[n]) : hw' \in {[hw EXCEPT ![c] = Default], hw}
    /\ DriverDone(n, FALSE)
    /\ UNCHANGED <<cur, host, port, good, services, library>>

(* Faulty variant: every hub becomes the translator of its slow devices.   *)
RouteOfLast(n, c) ==
    IF Speed[c] # "high"
    THEN [split |-> TRUE, hub |-> address[n], port |-> PortOf[c]]
    ELSE route[n]

(* Split transfers start at the first high-speed hub with a slower device  *)
(* behind it; further down its address and port are inherited.             *)
RouteOf(n, c) ==
    IF ~route[n].split /\ Speed[n] = "high" /\ Speed[c] # "high"
    THEN [split |-> TRUE, hub |-> address[n], port |-> PortOf[c]]
    ELSE route[n]

(* A device answers at the default address: it gets an object and is       *)
(* initialised.                                                            *)
FindDevice(n) ==
    /\ Detecting(n)
    /\ TRUE \in Replies(n)
    /\ \E c \in ChildrenAt(n, port[n]) :
          /\ hw' = [hw EXCEPT ![c] = Default]
          /\ Create(c, RouteOf(n, c))
    /\ UNCHANGED <<host, fi, port, good, services, library>>

(* The loop that detects and the loop that configures reach their end.     *)
NextLoop(n) ==
    /\ port[n] > NumPorts[n]
    /\ \/ At(n, "detect") /\ pc' = [pc EXCEPT ![n] = "children"]
       \/ At(n, "children") /\ pc' = [pc EXCEPT ![n] = "status"]
    /\ port' = [port EXCEPT ![n] = 1]
    /\ UNCHANGED <<cur, host, fi, good, objects, hw, services, library>>

(* The devices that were initialised are configured, in the order of ports.*)
ConfigureChild(n) ==
    /\ At(n, "children") /\ port[n] <= NumPorts[n]
    /\ LET found == {c \in ChildrenAt(n, port[n]) : object[c] = "live"} IN
       IF found = {}
       THEN port' = [port EXCEPT ![n] = @ + 1] /\ UNCHANGED <<cur, pc>>
       ELSE /\ \E c \in found : cur' = c /\ pc' = [pc EXCEPT ![c] = "configure"]
            /\ UNCHANGED port
    /\ UNCHANGED <<host, fi, good, objects, hw, services, library>>

(* The status of the hub itself.                                           *)
HubStatusGood(n) ==
    /\ At(n, "status")
    /\ TRUE \in Replies(n)
    /\ pc' = [pc EXCEPT ![n] = "recheck"]
    /\ good' = TRUE
    /\ UNCHANGED <<cur, host, fi, port, objects, hw, services, library>>

(* It cannot be read, or it shows over-current and the ports are switched  *)
(* off, those whose message is not lost.                                   *)
HubStatusBad(n) ==
    /\ At(n, "status")
    /\ \E S \in SUBSET {c \in Node : Parent[c] = n} :
          /\ S # {} => TRUE \in Replies(n)
          /\ hw' = SwitchedOff(S)
    /\ DriverDone(n, FALSE)
    /\ UNCHANGED <<cur, host, port, good, services, library>>

(* The ports are tested once more; one with over-current makes the hub     *)
(* fail, but only after the last port.                                     *)
RecheckPort(n) ==
    /\ At(n, "recheck") /\ port[n] <= NumPorts[n]
    /\ port' = [port EXCEPT ![n] = @ + 1]
    /\ \/ UNCHANGED <<good, hw>>
       \/ /\ TRUE \in Replies(n)
          /\ good' = FALSE
          /\ hw' \in {hw, SwitchedOff(ChildrenAt(n, port[n]))}
    /\ UNCHANGED <<cur, host, pc, fi, objects, services, library>>

HubConfigured(n) ==
    /\ At(n, "recheck") /\ port[n] > NumPorts[n]
    /\ DriverDone(n, good)
    /\ UNCHANGED <<cur, host, port, good, hw, services, library>>

(* Over-current at the root port: it is switched off, the device destroyed.*)
RootOverCurrent ==
    /\ HostAt("ready") /\ pc[Root] = "configured"
    /\ hw' = SwitchedOff({Root})
    /\ Destroy(Root)
    /\ pc' = [pc EXCEPT ![Root] = "gone"]
    /\ UNCHANGED <<cur, host, fi, port, good, services, library>>

-----------------------------------------------------------------------------
Next ==
    \/ HostFails \/ HostPowersUp \/ InitCore \/ InitHost
    \/ EnableRootPort \/ RootOverCurrent \/ Initialized
    \/ \E n \in Node :
          \/ ReadDescriptor(n) \/ InitializeFails(n) \/ SetAddress(n) \/ NoAddressLeft(n)
          \/ CreateFunctions(n) \/ SetConfiguration(n) \/ SetConfigurationFails(n)
          \/ DriverFails(n) \/ DriverRegisters(n) \/ DriverFindsNoChannel(n)
          \/ Configured(n)
          \/ ConfigureHub(n) \/ SkipPort(n) \/ PortBreaksHub(n) \/ FindDevice(n)
          \/ NextLoop(n) \/ ConfigureChild(n)
          \/ HubStatusGood(n) \/ HubStatusBad(n) \/ RecheckPort(n) \/ HubConfigured(n)

Spec == Init /\ [][Next]_vars

(* Core 0 runs the calls to their end.  A wait for a register or a port is *)
(* one step: it has a time-out.  So is a blocking request, which waits for *)
(* its completion routine without one (TransferStage loops on m_bWaiting): *)
(* that it returns is BlockingReturns of UsbTransfer, taken for granted    *)
(* here.                                                                   *)
FairSpec == Spec /\ WF_vars(Next)

-----------------------------------------------------------------------------
Live(n) == object[n] = "live"

(* The addresses that USBDeviceInitialize gives out are unique: a device   *)
(* that was given one is the only one in use that hears it, it hears it as *)
(* long as its port has power, and of the devices in use only the one that *)
(* is being initialised hears the default address, where SET_ADDRESS goes. *)
AddressesUnique ==
    \A n \in Node : Live(n) =>
        /\ hw[n] = Default => cur = n /\ address[n] = 0
        /\ address[n] # 0 =>
             /\ hw[n].on => hw[n].addr = address[n]
             /\ \A m \in Node \ {n} :
                  Live(m) => address[m] # address[n] /\ hw[m].addr # address[n]

(* The hub whose transaction translator serves a device: the last one of   *)
(* high speed above it, if what follows there is slower.                   *)
SlowEnd(n) == {c \in Chain[n] \ {Root} : Speed[c] # "high" /\ Speed[Parent[c]] = "high"}

(* USBStandardHubEnumeratePorts: split transfers of a device name the      *)
(* address that its translator hears, and the port of that hub.            *)
TranslatorRight ==
    \A n \in Node : Live(n) =>
        IF SlowEnd(n) = {} THEN ~route[n].split
        ELSE \A c \in SlowEnd(n) :
                /\ route[n].split /\ route[n].port = PortOf[c]
                /\ hw[Parent[c]].on => route[n].hub = hw[Parent[c]].addr

(* What USPiInitialize hands out is not freed memory, although a hub that  *)
(* fails after its devices are configured is.  Two drivers are not covered:*)
(* a MIDI driver that finds no channel registers first, and over-current   *)
(* at the root port frees a driver of the root device itself.              *)
DriversAlive ==
    \A p \in Pointers : \A d \in library[p] :
        funcs[d.node][d.fn] = "freed" => d.kind = "umidi" \/ d.node = Root

(* USPiInitialize returns, whichever devices and messages fail.            *)
EnumerationEnds == <>(host.pc \in {"done", "failed"})
=============================================================================
