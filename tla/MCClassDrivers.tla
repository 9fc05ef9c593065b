--------------------------- MODULE MCClassDrivers ---------------------------
(***************************************************************************)
(* The drivers of the device classes, each with a device of its own.  The  *)
(* drivers share no state: a behaviour is one of the mass storage driver,  *)
(* of the configuration parser with a descriptor, of one of the two        *)
(* Ethernet drivers, of the keyboard driver, of a mouse, MIDI or game pad  *)
(* driver, or of the transfers of one endpoint packet by packet.  The      *)
(* variables of the others stay as they are: those of the modules that are *)
(* extended say that there is no such device, the rest is 0.               *)
(***************************************************************************)
EXTENDS MassStorage, UsbDescriptors, UsbPackets, Ethernet, Keyboard, Integers, FiniteSets, SequencesExt

VARIABLES
    which,  \* the driver
    kind, pad, steps, length, state, handler, loaded, given, reports, asked, since, late, spoiled

massVars == <<at, cmd, got, tag, count, call, medium, tries, result, dev, faults>>
keyVars == <<held, mods, news, leds, report, lastCode, locks, raw, typed, mask, lastLEDs, used,
             wanted, parity, clean, quiet, told>>
netVars == <<chip, doing, todo, val, nTries, answer, calls, reg, phy, cable, frames, ethFaults>>
inputVars == <<kind, pad, steps, length, state, handler, loaded, given, reports,
               asked, since, late, spoiled>>

-----------------------------------------------------------------------------
(* Configuration descriptors.  Bodies of up to three descriptors of every  *)
(* kind, and bodies with two interfaces; the length that the device claims *)
(* is right, up to two bytes too small, or 0.                              *)

D(t, len) ==
    [type |-> t, len |-> len, num |-> 0, name |-> "none", num_eps |-> 0, dir |-> "none"]
Hid(n) == [D("hid", 9) EXCEPT !.num = n]
I(n, name, eps) ==
    [type |-> "interface", len |-> 9, num |-> n, name |-> name, num_eps |-> eps, dir |-> "none"]
E(dir, len) ==
    [type |-> "endpoint", len |-> len, num |-> 0, name |-> "none", num_eps |-> 0, dir |-> dir]

Singles ==
    {I(0, "ukbd", 1), I(0, "umidi", 1), I(0, "other", 1), I(1, "umouse", 1), I(1, "umsd", 2),
     [I(0, "ukbd", 1) EXCEPT !.len = 8], E("int-in", 7), E("bulk-in", 7), E("bulk-in", 9),
     E("bulk-out", 7), Hid(50), D("cs", 5), D("x", 2), D("conf", 9), D("none", 3)}
Subs == {Hid(0), Hid(50), D("cs", 5), E("int-in", 7), E("bulk-in", 9), E("bulk-in", 7), E("bulk-out", 7)}
Heads == {I(0, "umouse", 1), I(0, "umidi", 1), I(0, "ukbd", 1)}
Seconds == {I(1, "ukbd", 1), I(1, "umsd", 2), I(1, "umidi", 1)}
UpTo(S, n) == UNION {[1 .. k -> S] : k \in 0 .. n}
Bodies == UpTo(Singles, 3)
Pairs == {<<h>> \o a \o <<s>> \o b : h \in Heads, s \in Seconds, a \in UpTo(Subs, 2), b \in UpTo(Subs, 1)}
Bytes(body) == 9 + FoldLeft(LAMBDA n, d : n + d.len, 0, body)
Blob(body, less, vendor) ==
    [desc |-> <<D("conf", 9)>> \o body, bytes |-> Bytes(body), claimed |-> Bytes(body) - less,
     vendor |-> vendor]
Configurations ==
    {Blob(b, 0, v) : b \in Bodies, v \in {"smsc", "none"}}
    \union {Blob(b, l, "none") : b \in UpTo(Singles, 2), l \in 1 .. 2}
    \union {Blob(b, Bytes(b), "none") : b \in UpTo(Singles, 1)}
    \union {Blob(b, 0, "none") : b \in Pairs}

-----------------------------------------------------------------------------
(* Two game pads: one whose report has no ID, with a signed axis, an axis  *)
(* that spans two bytes and two hats; and one with two reports,            *)
(* of which the driver knows the first, with an axis, padding and buttons. *)

T(t, a) == [tag |-> t, arg |-> a]
F(o, l, s) == [off |-> o, len |-> l, signed |-> s]
Layout(pairs) == [f \in {p[1] : p \in pairs} |-> (CHOOSE p \in pairs : p[1] = f)[2]]
PadPlain ==
    [id |-> 0,
     items |-> <<T("usage", "gamepad"), T("usage", "axis"), T("lmin", -127), T("size", 8),
                 T("count", 1), T("input", 2),
                 T("usage", "axis"), T("lmin", 0), T("size", 10), T("input", 2),
                 T("usage", "hat"), T("size", 2), T("count", 2), T("input", 2)>>,
     layout |-> Layout({<< <<"axis", 1>>, F(0, 8, TRUE)>>, << <<"axis", 2>>, F(8, 10, FALSE)>>,
                        << <<"hat", 1>>, F(18, 2, FALSE)>>, << <<"hat", 2>>, F(20, 2, FALSE)>>})]
PadWithId ==
    [id |-> 1,
     items |-> <<T("usage", "gamepad"), T("id", 1), T("usage", "axis"), T("pmin", 0), T("size", 8),
                 T("count", 1), T("input", 2), T("size", 2), T("input", 1),
                 T("page", "buttons"), T("size", 1), T("count", 3), T("input", 2),
                 T("id", 2), T("size", 8), T("input", 2)>>,
     layout |-> Layout({<< <<"axis", 1>>, F(8, 8, FALSE)>>, << <<"buttons", 1>>, F(18, 3, FALSE)>>})]
DeviceReports ==
    [mouse |-> {<<1, 5, 250>>, <<0, 255, 1>>, <<2, 3>>, <<>>},
     midi |-> {<<25, 1, 2, 3, 0, 0, 0, 0, 12, 7, 8, 0>>, <<15, 250, 0, 0>>, <<9, 1>>, <<>>},
     pad |-> {<<1, 200, 151>>, <<130, 7, 196>>, <<0, 255>>, <<>>}]

KeyStrokes ==
    {<<"a", {}>>, <<"a", {"shift"}>>, <<"caps", {"shift"}>>,
     <<"num", {}>>, <<"kp1", {}>>, <<"kpdel", {"ctrl", "alt"}>>}

(* Ethernet chips as boot loaders left them: with the receiver on, another *)
(* filter, an access to the PHY or a reset under way; a LAN7800 as it      *)
(* comes, and a chip of another type.                                      *)
Chip(c, id, led, bits) ==
    [chip |-> c, led |-> led,
     reg |-> [r \in Registers |-> IF r = "ID_REV" THEN {id}
                                  ELSE UNION {b[2] : b \in {x \in bits : x[1] = r}}]]
Chips ==
    {Chip("smsc", "ec00", {}, {<<"MAC_CR", {"RXEN", "ALL"}>>, <<"ADDRH", {"other"}>>, <<"MII_DATA", {"link"}>>,
                               <<"MII_ACC", {"BUSY", "status"}>>}),
     Chip("lan", "7800", {"default"}, {<<"PMT_CTL", {"READY"}>>, <<"MAC_RX", {"MAX"}>>, <<"HW_CFG", {"MEF"}>>}),
     Chip("lan", "7800", {"other"},
          {<<"MAC_RX", {"MAX", "RXEN"}>>, <<"FCT_RX_CTL", {"EN"}>>, <<"RFE_CTL", {"UCAST"}>>,
           <<"USB_CFG0", {"BIR", "BCE"}>>, <<"PMT_CTL", {"PHY_RST"}>>, <<"HW_CFG", {"LRST", "MEF"}>>,
           <<"MII_ACC", {"BUSY", "WRITE", "led"}>>, <<"MII_DATA", {"link"}>>}),
     Chip("lan", "7850", {"default"}, {<<"PMT_CTL", {"READY"}>>})}

-----------------------------------------------------------------------------
Input == INSTANCE InputReports WITH
    Kinds <- {"mouse", "midi", "pad"}, Reports <- DeviceReports, Pads <- {PadPlain, PadWithId},
    MaxReports <- 2, MaxCalls <- 1

DescOff == blob = [desc |-> <<>>, bytes |-> 0, claimed |-> 0, vendor |-> "none"] /\
           phase = "header" /\ pos = 1 /\ off = 0 /\ last = "none" /\ audio = FALSE /\
           valid = FALSE /\ ifno = 0 /\ functions = <<>> /\ picked = <<>>
MassOff == at = "off" /\ cmd = 0 /\ got = 0 /\ tag = 0 /\ tries = 0 /\ count = 0 /\
           call = NoCall /\ medium = <<>> /\ result = 0 /\ dev = 0 /\ faults = 0
EthOff == chip = "none" /\ doing = "absent" /\ todo = 0 /\ val = {} /\ nTries = 0 /\ answer = "failed" /\
          calls = 0 /\ reg = 0 /\ phy = 0 /\ link = FALSE /\ dropped = FALSE /\ seen = {} /\ past = {} /\ changes = 0 /\
          arrived = <<>> /\ fifo = <<>> /\ torn = {} /\ delivered = <<>> /\ sent = <<>> /\ wire = <<>> /\
          broken = FALSE /\ txEnd = 0 /\ ethFaults = 0
KbdOff == held = <<>> /\ mods = {} /\ news = FALSE /\ leds = {} /\ report = 0 /\
          lastCode = "0" /\ locks = {} /\ raw = FALSE /\ typed = <<>> /\ mask = {} /\
          lastLEDs = {} /\ used = 0 /\ wanted = <<>> /\ parity = {} /\
          clean = FALSE /\ quiet = FALSE /\ told = FALSE
InputOff == kind = 0 /\ pad = 0 /\ steps = 0 /\ length = 0 /\ state = 0 /\
            handler = 0 /\ loaded = 0 /\ given = 0 /\ reports = 0 /\ asked = 0 /\ since = 0 /\
            late = 0 /\ spoiled = FALSE
PktOff == type = "none" /\ split = FALSE /\ pid = "setup" /\ req = 0 /\ stages = <<>> /\ pc = "off" /\
          st = NoStage /\ sched = NoSched /\ chan = 0 /\ peer = 0 /\ buf = <<>> /\ mark = 0 /\
          lost = FALSE /\ odd = FALSE /\ pktFaults = 0

ClassInit ==
    \/ /\ which = "desc" /\ DescInit
       /\ MassOff /\ EthOff /\ KbdOff /\ InputOff /\ PktOff
       /\ step = 0 /\ buffer = 0 /\ urb = 0 /\ task = "off"
    \/ /\ which = "mass" /\ Init
       /\ DescOff /\ EthOff /\ KbdOff /\ InputOff /\ PktOff
       /\ urb = 0 /\ task = "off"
    \/ /\ which = "eth" /\ EthInit
       /\ DescOff /\ MassOff /\ KbdOff /\ InputOff /\ PktOff
       /\ step = 0 /\ buffer = 0 /\ urb = 0 /\ task = "off"
    \/ /\ which = "kbd" /\ KbdInit
       /\ DescOff /\ MassOff /\ EthOff /\ InputOff /\ PktOff
       /\ step = 0 /\ buffer = 0
    \/ /\ which = "input" /\ Input!Init
       /\ DescOff /\ MassOff /\ EthOff /\ KbdOff /\ PktOff
    \/ /\ which = "packets" /\ PktInit
       /\ DescOff /\ MassOff /\ EthOff /\ KbdOff /\ InputOff
       /\ step = 0 /\ buffer = 0 /\ urb = 0 /\ task = "off"

ClassNext ==
    \/ /\ which = "desc" /\ DescNext
       /\ UNCHANGED <<which, massVars, netVars, keyVars, inputVars, pktVars, step, buffer, urb, task>>
    \/ /\ which = "mass" /\ Next
       /\ UNCHANGED <<which, descVars, netVars, keyVars, inputVars, pktVars, urb, task>>
    \/ /\ which = "eth" /\ EthNext
       /\ UNCHANGED <<which, descVars, massVars, keyVars, inputVars, pktVars, step, buffer, urb, task>>
    \/ /\ which = "kbd" /\ KbdNext
       /\ UNCHANGED <<which, descVars, massVars, netVars, inputVars, pktVars, step, buffer>>
    \/ /\ which = "input" /\ Input!Next
       /\ UNCHANGED <<which, descVars, massVars, netVars, keyVars, pktVars>>
    \/ /\ which = "packets" /\ PktNext
       /\ UNCHANGED <<which, descVars, massVars, netVars, keyVars, inputVars, step, buffer, urb, task>>

classVars == <<which, descVars, massVars, netVars, keyVars, inputVars, pktVars, step, buffer, urb, task>>

ClassSpec == ClassInit /\ [][ClassNext]_classVars

-----------------------------------------------------------------------------
(* The other properties are those of the modules that are extended.       *)

(* The completion routines of mouse, MIDI and game pad drivers: handlers   *)
(* are told of every good report.                                          *)
HandlerRight == which = "input" => Input!HandlerRight

(* USBGamePadDeviceDecodeReport in two contexts: at most one old field.    *)
StateSettles == which = "input" => Input!StateSettles
=============================================================================
