---------------------------- MODULE UsbDescriptors ----------------------------
(***************************************************************************)
(* The second half of USBDeviceInitialize: the configuration descriptor is *)
(* validated by TUSBConfigurationParser, its interfaces are given to the   *)
(* device factory one by one, and the drivers look for their endpoints.    *)
(*                                                                         *)
(* A descriptor is [type, len, num, name, num_eps, dir]: its length in     *)
(* bytes, and for an interface its number, the name that the factory knows *)
(* it by and bNumEndpoints, for an endpoint its transfer type and          *)
(* direction, for a HID descriptor wReportDescriptorLength as its number.  *)
(***************************************************************************)
EXTENDS Naturals, Sequences, FiniteSets

CONSTANTS
    Blobs,          \* what devices send: [desc, bytes, claimed, vendor]
    MaxFunctions    \* USBDEV_MAX_FUNCTIONS

(* Where the descriptors of a configuration end.                           *)
EndOf(d) == LET f[i \in 0 .. Len(d)] == IF i = 0 THEN 0 ELSE f[i - 1] + d[i].len IN f

Descriptors ==
    [type : STRING, len : Nat \ {0}, num : Nat, name : STRING, num_eps : Nat, dir : STRING]

(* A buffer is cut into descriptors by their lengths; the last may reach   *)
(* beyond it.  The walk does not end on a length of 0.                     *)
ASSUME BlobsAssumption ==
    \A b \in Blobs :
        /\ b.desc \in Seq(Descriptors) /\ b.desc # <<>>
        /\ b.bytes \in Nat /\ b.claimed \in Nat
        /\ b.bytes <= EndOf(b.desc)[Len(b.desc)]

Supported == {"hub", "umsd", "ukbd", "umouse", "smsc", "lan", "upad", "umidi"}

(* Lengths of the descriptors that have a fixed one.                       *)
ConfLen == 9
InterfaceLen == 9
EndpointLen(audio) == IF audio THEN 9 ELSE 7

VARIABLES
    blob,      \* the device: descriptors, nBufLen, wTotalLength, ven name
    phase,     \* "header", "walk", "interfaces", "drivers", "done", "assert"
    pos,       \* the next descriptor (m_pNextPosition): its index
    off,       \* and its offset in bytes
    last,      \* ucLastDescType
    audio,     \* bInAudioInterface
    valid,     \* m_bValid
    ifno,      \* ucInterfaceNumber
    functions, \* m_pFunction: [name, at] in the order they were created
    picked     \* the endpoints that each driver takes, {} if it fails

descVars == <<blob, phase, pos, off, last, audio, valid, ifno, functions, picked>>

desc == blob.desc
end == blob.claimed

DescInit ==
    /\ blob \in Blobs
    /\ phase = "header"
    /\ pos = 1 /\ off = 0
    /\ last = "none" /\ audio = FALSE /\ valid = FALSE
    /\ ifno = 0
    /\ functions = <<>> /\ picked = <<>>

(* The total length must exist and fit, and what starts the buffer must be *)
(* a configuration descriptor.                                             *)
CheckHeader ==
    /\ phase = "header"
    /\ phase' = IF /\ blob.bytes \in 4 .. 512
                   /\ desc[1].type = "conf" /\ desc[1].len = ConfLen
                   /\ end <= blob.bytes
                THEN "walk" ELSE "done"
    /\ UNCHANGED <<blob, pos, off, last, audio, valid, ifno, functions, picked>>

(* What a descriptor may follow, and its length.                           *)
InPlace(d) ==
    CASE d.type = "conf" -> last = "none"
      [] d.type = "interface" -> last # "none"
      [] d.type = "endpoint" -> last \notin {"none", "conf"}
      [] OTHER -> TRUE

(* Faulty variant: endpoints of audio interfaces have no length of their   *)
(* own.                                                                    *)
RightLengthNoAudio(d) ==
    CASE d.type = "conf" -> d.len = ConfLen
      [] d.type = "interface" -> d.len = InterfaceLen
      [] d.type = "endpoint" -> d.len = EndpointLen(FALSE)
      [] OTHER -> TRUE

RightLength(d) ==
    CASE d.type = "conf" -> d.len = ConfLen
      [] d.type = "interface" -> d.len = InterfaceLen
      [] d.type = "endpoint" -> d.len = EndpointLen(audio)
      [] OTHER -> TRUE

(* One turn of the loop of the parser.                                     *)
Walk ==
    /\ phase = "walk"
    /\ off + 2 < end
    /\ LET d == desc[pos] IN
       IF off + d.len <= end /\ InPlace(d) /\ RightLength(d)
       THEN /\ pos' = pos + 1 /\ off' = off + d.len /\ last' = d.type
            /\ audio' = IF d.type = "interface" THEN d.name \in {"umidi", "audio"} ELSE audio
            /\ UNCHANGED phase
       ELSE /\ phase' = "done"
            /\ UNCHANGED <<pos, off, last, audio>>
    /\ UNCHANGED <<blob, valid, ifno, functions, picked>>

(* Less than three bytes are left.  The parser starts from the beginning   *)
(* for those who ask it for descriptors.                                   *)
WalkEnds ==
    /\ phase = "walk"
    /\ off + 2 >= end
    /\ valid' = (off = end)
    /\ phase' = IF off = end THEN "interfaces" ELSE "done"
    /\ pos' = 1
    /\ UNCHANGED <<blob, off, last, audio, ifno, functions, picked>>

(* The descriptors in front of the end; Offset[i] is where number i stops. *)
Offset == EndOf(desc)
Count == {i \in DOMAIN desc : Offset[i] <= end}

(* The search for an endpoint stops at the next interface.                 *)
Within(t, p, i) == t = "endpoint" => \A j \in p .. i : desc[j].type # "interface"

(* What USBConfigurationParserGetDescriptor finds from position p on: the  *)
(* descriptors of a type that repeated calls return, and the next one; the *)
(* empty set is a null pointer.                                            *)
Hits(t, p) == {i \in Count : i >= p /\ desc[i].type = t /\ Within(t, p, i)}
GetDescriptor(t, p) == {i \in Hits(t, p) : \A j \in Hits(t, p) : i <= j}

(* USBDeviceFactoryGetDevice: the first function may be chosen by vendor   *)
(* and product, every other by the class of its interface.                 *)
FactoryGetDevice(i) ==
    IF functions = <<>> /\ blob.vendor \in Supported THEN blob.vendor ELSE desc[i].name

(* Faulty variant: an alternate setting is a function of its own.          *)
NextNumberSame(n) == n

(* After a function its interface number is done with, so that alternate   *)
(* settings are passed over.                                               *)
NextNumber(n) == n + 1

(* One interface: its alternate settings are tried until one is supported. *)
NextInterface ==
    /\ phase = "interfaces"
    /\ \E i \in GetDescriptor("interface", pos) :
          /\ pos' = i + 1
          /\ LET num == IF desc[i].num > ifno THEN desc[i].num ELSE ifno
                 name == FactoryGetDevice(i)
             IN IF desc[i].num = num /\ name \in Supported
                THEN /\ functions' = Append(functions, [name |-> name, at |-> i])
                     /\ IF Len(functions') = MaxFunctions
                        THEN phase' = "drivers" /\ ifno' = num
                        ELSE ifno' = NextNumber(num) /\ UNCHANGED phase
                ELSE ifno' = num /\ UNCHANGED <<functions, phase>>
    /\ UNCHANGED <<blob, off, last, audio, valid, picked>>

NoMoreInterfaces ==
    /\ phase = "interfaces"
    /\ GetDescriptor("interface", pos) = {}
    /\ phase' = IF functions = <<>> THEN "done" ELSE "drivers"
    /\ UNCHANGED <<blob, pos, off, last, audio, valid, ifno, functions, picked>>

(* Configure of a driver.  Its parser is the copy that was made when its   *)
(* interface was current; drivers of mice and game pads look for the HID   *)
(* descriptor first, and fail if its report descriptor has length 0.       *)
HidDescriptor(f) == {i \in GetDescriptor("hid", f.at + 1) : desc[i].num # 0}
Starts(f) == IF f.name \in {"umouse", "upad"}
             THEN {i + 1 : i \in HidDescriptor(f)} ELSE {f.at + 1}
OfKind(f, dir) == {i \in UNION {Hits("endpoint", p) : p \in Starts(f)} : desc[i].dir = dir}
First(S) == {i \in S : \A j \in S : i <= j}

(* bNumEndpoints that a driver asks for.                                   *)
EndpointsFit(name, n) ==
    CASE name = "hub" -> n = 1
      [] name \in {"smsc", "lan"} -> n = 3
      [] name = "umsd" -> n >= 2
      [] OTHER -> n >= 1

(* USBMIDIDeviceConfigure goes on after a bulk endpoint that is not        *)
(* followed at once by its class-specific descriptor: the search for that  *)
(* one crosses interfaces.                                                 *)
Streaming[p \in 1 .. Len(desc) + 1] ==
    UNION {UNION {(IF c = i + 1 THEN {i} ELSE {}) \cup Streaming[c + 1]
                    : c \in GetDescriptor("cs", i + 1)}
             : i \in First({i \in Hits("endpoint", p) : desc[i].dir = "bulk-in"})}

(* The endpoints that a driver takes; none means that Configure fails.  A  *)
(* second endpoint of a kind is an error for some, and some stop at the    *)
(* first.                                                                  *)
Chosen(f) ==
    LET one(dir) == Cardinality(OfKind(f, dir)) = 1
        all(dirs) == UNION {OfKind(f, d) : d \in dirs}
    IN CASE f.name \in {"ukbd", "umouse"} -> First(OfKind(f, "int-in"))
         [] f.name = "hub" -> First(all({"int-in", "int-out", "bulk-in", "bulk-out"}))
                                \cap OfKind(f, "int-in")
         [] f.name \in {"umsd", "smsc", "lan"} ->
               IF one("bulk-in") /\ one("bulk-out") THEN all({"bulk-in", "bulk-out"}) ELSE {}
         [] f.name = "upad" ->
               IF one("int-in") /\ Cardinality(OfKind(f, "int-out")) <= 1
               THEN all({"int-in", "int-out"}) ELSE {}
         [] f.name = "umidi" -> Streaming[f.at + 1]

(* The next driver.  A second MIDI stream is an assertion that fails.      *)
DriverPicks ==
    /\ phase = "drivers"
    /\ Len(picked) < Len(functions)
    /\ LET f == functions[Len(picked) + 1]
           eps == IF EndpointsFit(f.name, desc[f.at].num_eps) THEN Chosen(f) ELSE {}
       IN IF f.name = "umidi" /\ Cardinality(eps) > 1
          THEN phase' = "assert" /\ UNCHANGED picked
          ELSE picked' = Append(picked, eps) /\ UNCHANGED phase
    /\ UNCHANGED <<blob, pos, off, last, audio, valid, ifno, functions>>

DriversDone ==
    /\ phase = "drivers" /\ Len(picked) = Len(functions)
    /\ phase' = "done"
    /\ UNCHANGED <<blob, pos, off, last, audio, valid, ifno, functions, picked>>

DescNext ==
    \/ CheckHeader \/ Walk \/ WalkEnds
    \/ NextInterface \/ NoMoreInterfaces \/ DriverPicks \/ DriversDone

DescSpec == DescInit /\ [][DescNext]_descVars

-----------------------------------------------------------------------------
(* The interface that a descriptor belongs to.                             *)
Owner(i) == {k \in 1 .. i : desc[k].type = "interface"
                            /\ \A j \in k + 1 .. i : desc[j].type # "interface"}

(* What number i of a configuration has to look like.  A descriptor of     *)
(* type 0 counts as none for the one behind it.                            *)
RightAt(i) ==
    /\ desc[i].type = "conf" => desc[i].len = 9 /\ (i = 1 \/ desc[i - 1].type = "none")
    /\ desc[i].type = "interface" => desc[i].len = 9 /\ desc[i - 1].type # "none"
    /\ desc[i].type = "endpoint" =>
          /\ desc[i - 1].type \notin {"none", "conf"}
          /\ desc[i].len = IF \E k \in Owner(i) : desc[k].name \in {"umidi", "audio"} THEN 9 ELSE 7

(* A configuration, stated without the parser.                             *)
WellFormed ==
    /\ blob.bytes \in 4 .. 512 /\ end <= blob.bytes
    /\ desc[1].type = "conf"
    /\ \E n \in DOMAIN desc : Offset[n] = end /\ \A i \in 1 .. n : RightAt(i)

(* The last descriptor is one of two bytes: the parser never looks at it   *)
(* and rejects the configuration.                                          *)
EndsShort == \E i \in DOMAIN desc : Offset[i] = end /\ desc[i].len <= 2

(* Nothing at all, by wTotalLength, behind a header that is right.         *)
ClaimsNothing ==
    blob.bytes \in 4 .. 512 /\ end = 0 /\ desc[1].type = "conf" /\ desc[1].len = 9

(* USBConfigurationParser accepts the well-formed configurations and no    *)
(* others, but for those that end with a descriptor of two bytes and for   *)
(* a wTotalLength of 0; and its position never passes wTotalLength.        *)
ParseExact ==
    /\ phase # "header" => off <= end
    /\ phase \in {"interfaces", "drivers"} => WellFormed \/ ClaimsNothing
    /\ phase = "done" => (valid <=> (WellFormed /\ ~EndsShort) \/ ClaimsNothing)

Ascending == \A i, j \in Count :
    i < j /\ desc[i].type = "interface" /\ desc[j].type = "interface" => desc[i].num <= desc[j].num

(* USBDeviceInitialize: no two functions share an interface number, a      *)
(* function gets the first alternate setting that has a driver, and no     *)
(* interface with a driver is left out if the numbers ascend.              *)
FunctionsRight ==
    /\ \A f, g \in DOMAIN functions :
          desc[functions[f].at].num = desc[functions[g].at].num => f = g
    /\ blob.vendor \notin Supported =>
          \A f \in DOMAIN functions : \A i \in Count :
             desc[i].type = "interface" /\ desc[i].num = desc[functions[f].at].num
             /\ desc[i].name \in Supported => functions[f].at <= i
    /\ phase = "done" /\ valid /\ Ascending =>
          \A i \in Count :
             desc[i].type = "interface" /\ desc[i].name \in Supported =>
                \/ Len(functions) = MaxFunctions
                \/ \E f \in DOMAIN functions : desc[functions[f].at].num = desc[i].num

(* A driver takes endpoints of its own interface only, if its interface    *)
(* has what the driver asks for first: the HID descriptor, or the          *)
(* class-specific descriptor of every MIDI stream.                         *)
PicksOwn ==
    \A f \in DOMAIN picked :
        LET at == functions[f].at
            own(t) == {i \in Count : desc[i].type = t /\ at \in Owner(i)}
        IN \/ functions[f].name \in {"umouse", "upad"} /\ own("hid") = {}
           \/ functions[f].name = "umidi" /\ \E i \in own("endpoint") : i + 1 \notin own("cs")
           \/ picked[f] \subseteq own("endpoint")

(* Which driver gets which interface, and which endpoints in it.           *)
DriversMatch == FunctionsRight /\ PicksOwn
=============================================================================
