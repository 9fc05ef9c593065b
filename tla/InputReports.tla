---------------------------- MODULE InputReports ----------------------------
(***************************************************************************)
(* The drivers of mice, MIDI devices and game pads.  One interrupt request *)
(* is outstanding at a time; its completion routine runs in the FIQ, gives *)
(* the report to the handler of the application and starts the request     *)
(* again.  The game pad driver first decodes the report field by field, as *)
(* the report descriptor says, into m_State.  USPiGamePadGetStatus does    *)
(* the same in the task, with a report of its own in the same buffer.      *)
(*                                                                         *)
(* A report is a sequence of bytes.  An item of a report descriptor is     *)
(* [tag, arg]; long items have been put together by the four cases on the  *)
(* length of the argument.                                                 *)
(***************************************************************************)
EXTENDS Integers, Sequences, SequencesExt

LOCAL INSTANCE Bitwise

CONSTANTS
    Kinds,       \* drivers: "mouse", "midi", "pad"
    Reports,     \* per driver: the reports that its device may send
    Pads,        \* game pads: [items, layout]; the layout is what the HID
                 \* specification makes of the items: [field -> [off, len, signed]]
    MaxReports,  \* bound on the number of reports
    MaxCalls     \* and on calls of USPiGamePadGetStatus

MaxAxis == 6
MaxHats == 6
Undefined == -123456789

VARIABLES
    kind,      \* which driver
    pad,       \* which game pad; its items are m_pHIDReportDescriptor
    steps,     \* what USBGamePadDeviceDecodeReport makes of them
    buffer,    \* m_pReportBuffer, m_pPacketBuffer
    urb,       \* m_URB: "armed", then "done" or "failed" until its completion
    length,    \* its result length
    state,     \* m_State: [field -> value]
    handler,   \* m_pStatusHandler, m_pPacketHandler is set
    task,      \* USPiGamePadGetStatus: "no", "message", "decoding"
    step,      \* and the next step of its decoding
    loaded,    \* bytes of that step's field that it has read and not yet stored
    given,     \* what the handler was called with
    reports,   \* what the device sent to the interrupt endpoint
    asked,     \* and in answer to GET_REPORT
    since,     \* reports completed before there was a handler
    late,      \* the field that the task had read when the completion routine
               \* last decoded a report
    spoiled    \* a transfer that failed has written to the buffer since

device == <<kind, pad, steps>>
status == <<task, step, loaded>>
vars == <<device, buffer, urb, length, state, handler, status, given, reports, asked, since, late, spoiled>>

-----------------------------------------------------------------------------
(* Bits of a report.                                                       *)

Byte(b, i) == IF i + 1 \in DOMAIN b THEN b[i + 1] ELSE 0

(* Faulty variant: the offset inside the byte is forgotten.                *)
BitGetUnsignedAligned(b, offset, len) == Byte(b, offset \div 8) % 2^len

(* BitGetUnsigned: a field inside a byte, or the byte it starts in, whole  *)
(* bytes and the byte it ends in, each put below the one before it.  The   *)
(* mask of the last byte is an u8, so that byte always counts in full.     *)
BitGetUnsigned(b, offset, len) ==
    LET first == offset \div 8
        last == (offset + len - 1) \div 8
        o == offset % 8
        used(i) == 8 * (i - first + 1) - o
    IN IF len = 0 THEN 0
       ELSE IF first = last THEN (Byte(b, first) \div 2^o) % 2^len
       ELSE FoldLeft(LAMBDA r, i : r | Byte(b, i) * 2^(len - used(i)),
                     (Byte(b, first) \div 2^o) * 2^(len - used(first)),
                     [k \in 1 .. last - first - 1 |-> first + k])
            | Byte(b, last)

BitGetSigned(b, offset, len) ==
    LET r == BitGetUnsigned(b, offset, len) IN
    IF r >= 2^(len - 1) THEN r - 2^len ELSE r

(* uspi_char2int.                                                          *)
Char2Int(x) == IF x > 127 THEN x - 256 ELSE x

-----------------------------------------------------------------------------
(* USBGamePadDeviceDecodeReport: what the items make of a report, as steps *)
(* that read one field each.                                               *)

Blank == [state |-> "none", offset |-> 0, size |-> 0, count |-> 0, lmin |-> Undefined,
          pmin |-> Undefined, id |-> 0, axes |-> 0, hats |-> 0, stop |-> FALSE, steps |-> <<>>]

Field(what, k, off, len, signed) ==
    [do |-> "field", to |-> <<what, k>>, off |-> off, len |-> len, signed |-> signed]
IdStep(arg) == [do |-> "id", to |-> <<"id", arg>>, off |-> 0, len |-> 8, signed |-> FALSE]

Least(m, n) == IF m < n THEN m ELSE n
Row(d, what, from, n, signed) ==
    [i \in 1 .. n |-> Field(what, from + i, d.offset + (i - 1) * d.size, d.size, signed)]

(* A state is entered from the state of a game pad only.                   *)
Enter(d, s) == IF d.state = "pad" THEN [d EXCEPT !.state = s] ELSE d

(* INPUT: the fields that the state asks for, if they are variable data.   *)
Input(d, arg) ==
    LET n == Least(d.count, MaxAxis)
        h == Least(d.count, MaxHats)
        min == IF d.lmin # Undefined THEN d.lmin ELSE d.pmin
        rest == [d EXCEPT !.offset = @ + d.count * d.size]
    IN CASE arg % 4 = 2 /\ d.state = "axis" ->
               [rest EXCEPT !.state = "pad", !.axes = @ + n,
                            !.steps = @ \o Row(d, "axis", d.axes, n, min < 0)]
         [] arg % 4 = 2 /\ d.state = "hat" ->
               [rest EXCEPT !.state = "pad", !.hats = @ + h,
                            !.steps = @ \o Row(d, "hat", d.hats, h, FALSE)]
         [] arg % 4 = 2 /\ d.state = "button" ->
               [rest EXCEPT !.state = "pad",
                            !.steps = Append(@, Field("buttons", 1, d.offset, d.size * d.count, FALSE))]
         [] OTHER -> rest

(* A second report ID ends the loop.                                       *)
Item(d, it) ==
    IF d.stop \/ (it.tag = "id" /\ d.id # 0) THEN [d EXCEPT !.stop = TRUE]
    ELSE CASE it.tag = "id" -> [d EXCEPT !.id = it.arg, !.offset = 8, !.steps = Append(@, IdStep(it.arg))]
           [] it.tag = "page" /\ it.arg = "buttons" -> Enter(d, "button")
           [] it.tag = "usage" /\ it.arg = "gamepad" -> [d EXCEPT !.state = "pad"]
           [] it.tag = "usage" /\ it.arg = "axis" -> Enter(d, "axis")
           [] it.tag = "usage" /\ it.arg = "hat" -> Enter(d, "hat")
           [] it.tag = "lmin" -> [d EXCEPT !.lmin = it.arg]
           [] it.tag = "pmin" -> [d EXCEPT !.pmin = it.arg]
           [] it.tag = "size" -> [d EXCEPT !.size = it.arg]
           [] it.tag = "count" -> [d EXCEPT !.count = it.arg]
           [] it.tag = "input" -> Input(d, it.arg)
           [] OTHER -> d

Decoded == FoldLeft(Item, Blank, pad.items)

Value(s, b) ==
    IF s.signed THEN BitGetSigned(b, s.off, s.len) ELSE BitGetUnsigned(b, s.off, s.len)

(* One step; a report with another ID ends the loop.                       *)
Apply(acc, s) ==
    CASE ~acc.live -> acc
      [] acc.live /\ s.do = "id" -> [acc EXCEPT !.live = Byte(acc.buffer, 0) \in {0, s.to[2]}]
      [] acc.live /\ s.do = "field" -> [acc EXCEPT !.state[s.to] = Value(s, acc.buffer)]

(* USBGamePadDeviceDecodeReport, from end to end.                          *)
DecodeReport(b, st) == FoldLeft(Apply, [live |-> TRUE, buffer |-> b, state |-> st], steps).state

-----------------------------------------------------------------------------
(* What a completed request tells the handler.                             *)

(* cin_to_length.                                                          *)
CinToLength == <<0, 0, 2, 3, 3, 1, 2, 3, 3, 3, 3, 3, 2, 2, 3, 1>>

(* The packets of four bytes; one that begins with 0 is padding.           *)
Packet(b, k) ==
    LET cin == Byte(b, 4 * k) % 16 IN
    IF Byte(b, 4 * k) = 0 THEN <<>>
    ELSE << <<Byte(b, 4 * k) \div 16, SubSeq(b, 4 * k + 2, 4 * k + 1 + CinToLength[cin + 1])>> >>

Packets(b, n) ==
    IF n % 4 # 0 THEN <<>>
    ELSE FlattenSeq([k \in 1 .. n \div 4 |-> Packet(b, k - 1)])

(* The calls of the handler that a good report makes, in each driver.      *)
Calls ==
    CASE kind = "mouse" /\ length = 3 -> << <<buffer[1], Char2Int(buffer[2]), Char2Int(buffer[3])>> >>
      [] kind = "midi" -> Packets(buffer, length)
      [] kind = "pad" /\ length > 0 -> <<DecodeReport(buffer, state)>>
      [] OTHER -> <<>>

Good == urb = "done"

-----------------------------------------------------------------------------
(* Configure has decoded the buffer once, with 0 in its first byte and     *)
(* what malloc left in the others, and has started the request.            *)

Targets == {steps[k].to : k \in {j \in DOMAIN steps : steps[j].do = "field"}}
NoField == <<"none", 0>>

(* The buffer has room for every report.                                   *)
Longest == {r \in Reports[kind] : \A q \in Reports[kind] : Len(q) <= Len(r)}

Init ==
    /\ kind \in Kinds
    /\ pad \in IF kind = "pad" THEN Pads ELSE {CHOOSE p \in Pads : TRUE}
    /\ steps = Decoded.steps
    /\ buffer \in {[r EXCEPT ![1] = 0] : r \in Longest}
    /\ state = DecodeReport(buffer, [f \in Targets |-> 0])
    /\ urb = "armed" /\ length = 0
    /\ handler = FALSE /\ since = 0
    /\ task = "no" /\ step = 0 /\ loaded = <<>>
    /\ given = <<>> /\ reports = <<>> /\ asked = <<>>
    /\ late = NoField /\ spoiled = FALSE

(* The device answers the interrupt request: the controller writes what it *)
(* sent over the front of the buffer.                                      *)
Over(r) == r \o SubSeq(buffer, Len(r) + 1, Len(buffer))

Report(r) ==
    /\ urb = "armed"
    /\ Len(reports) < MaxReports
    /\ urb' = "done"
    /\ length' = Len(r)
    /\ buffer' = Over(r)
    /\ reports' = Append(reports, r)
    /\ UNCHANGED <<device, state, handler, status, given, asked, since, late, spoiled>>

(* A transfer may fail after packets of it have been written.              *)
TransferFails(r) ==
    /\ urb = "armed"
    /\ Len(reports) < MaxReports
    /\ urb' = "failed"
    /\ buffer' = Over(r)
    /\ spoiled' = (spoiled \/ r # <<>>)
    /\ UNCHANGED <<device, length, state, handler, status, given, reports, asked, since, late>>

(* The completion routines: in the FIQ, from the report to the next        *)
(* request.  A game pad without a handler does not even decode.            *)
CompletionRoutine ==
    LET decodes == Good /\ handler /\ kind = "pad" /\ length > 0 IN
    /\ urb # "armed"
    /\ given' = IF Good /\ handler THEN given \o Calls ELSE given
    /\ state' = IF decodes THEN DecodeReport(buffer, state) ELSE state
    /\ late' = IF ~decodes THEN late ELSE IF loaded = <<>> THEN NoField ELSE steps[step].to
    /\ spoiled' = (spoiled /\ ~decodes)
    /\ urb' = "armed"
    /\ UNCHANGED <<device, buffer, length, handler, status, reports, asked, since>>

(* Reports whose completion routine has run.                               *)
Completed == IF urb = "done" THEN Front(reports) ELSE reports

(* USPiMouseRegisterStatusHandler, USPiGamePadRegisterStatusHandler and    *)
(* USPiMIDIRegisterPacketHandler.                                          *)
RegisterHandler ==
    /\ ~handler
    /\ handler' = TRUE
    /\ since' = Len(Completed)
    /\ UNCHANGED <<device, buffer, urb, length, state, status, given, reports, asked, late, spoiled>>

-----------------------------------------------------------------------------
(* USPiGamePadGetStatus: GET_REPORT into the same buffer, then a decoding  *)
(* that the completion routine may interrupt between any two bytes it      *)
(* reads, and between the last byte of a field and the store to m_State.   *)
GetStatus ==
    /\ kind = "pad"
    /\ task = "no"
    /\ Len(asked) < MaxCalls
    /\ task' = "message"
    /\ UNCHANGED <<device, buffer, urb, length, state, handler, step, loaded, given, reports, asked, since, late, spoiled>>

Answer(r) ==
    /\ task = "message"
    /\ r # <<>>
    /\ buffer' = Over(r)
    /\ asked' = Append(asked, r)
    /\ task' = "decoding"
    /\ step' = 1
    /\ late' = NoField
    /\ spoiled' = FALSE
    /\ UNCHANGED <<device, urb, length, state, handler, loaded, given, reports, since>>

(* No data, or a failure: the data stage has been written if it is the     *)
(* status stage that failed, but nothing is decoded.                       *)
MessageFails(r) ==
    /\ task = "message"
    /\ task' = "no"
    /\ buffer' = Over(r)
    /\ spoiled' = (spoiled \/ r # <<>>)
    /\ asked' = Append(asked, <<>>)
    /\ UNCHANGED <<device, urb, length, state, handler, step, loaded, given, reports, since, late>>

(* The bytes that a field is in: BitGetUnsigned reads them one by one.     *)
Span(s) == (s.off + s.len - 1) \div 8 - s.off \div 8 + 1

Decoding(do) == task = "decoding" /\ step <= Len(steps) /\ steps[step].do = do

(* Another report ID ends the decoding.                                    *)
DecodeId ==
    /\ Decoding("id")
    /\ step' = IF Byte(buffer, 0) \in {0, steps[step].to[2]} THEN step + 1 ELSE Len(steps) + 1
    /\ UNCHANGED <<device, buffer, urb, length, state, handler, task, loaded, given, reports, asked, since, late, spoiled>>

(* Faulty variant: the task decodes a copy that it has made of the answer. *)
DecodeLoadOfCopy ==
    /\ Decoding("field")
    /\ Len(loaded) < Span(steps[step])
    /\ loaded' = Append(loaded, Byte(Last(asked), steps[step].off \div 8 + Len(loaded)))
    /\ UNCHANGED <<device, buffer, urb, length, state, handler, task, step, given, reports, asked, since, late, spoiled>>

DecodeLoad ==
    /\ Decoding("field")
    /\ Len(loaded) < Span(steps[step])
    /\ loaded' = Append(loaded, Byte(buffer, steps[step].off \div 8 + Len(loaded)))
    /\ UNCHANGED <<device, buffer, urb, length, state, handler, task, step, given, reports, asked, since, late, spoiled>>

DecodeStore ==
    /\ Decoding("field")
    /\ Len(loaded) = Span(steps[step])
    /\ state' = [state EXCEPT ![steps[step].to] = Value([steps[step] EXCEPT !.off = @ % 8], loaded)]
    /\ loaded' = <<>>
    /\ step' = step + 1
    /\ UNCHANGED <<device, buffer, urb, length, handler, task, given, reports, asked, since, late, spoiled>>

StatusReturns ==
    /\ task = "decoding"
    /\ step > Len(steps)
    /\ task' = "no"
    /\ UNCHANGED <<device, buffer, urb, length, state, handler, step, loaded, given, reports, asked, since, late, spoiled>>

Next ==
    \/ \E r \in Reports[kind] : Report(r) \/ TransferFails(r) \/ Answer(r) \/ MessageFails(r)
    \/ CompletionRoutine \/ RegisterHandler
    \/ GetStatus \/ DecodeId \/ DecodeLoad \/ DecodeStore \/ StatusReturns

Spec == Init /\ [][Next]_vars

-----------------------------------------------------------------------------
(* Properties.                                                             *)

(* The report as one little-endian number, and the field at a place in it. *)
Number(b) == FoldRight(LAMBDA x, n : x + 256 * n, b, 0)
FieldOf(b, f) ==
    LET n == (Number(b) \div 2^f.off) % 2^f.len IN
    IF f.signed /\ n >= 2^(f.len - 1) THEN n - 2^f.len ELSE n

(* The field is in one byte, and in the bytes of the report.  BitGetUnsigned *)
(* puts the bytes of a field that spans several together most significant  *)
(* first, where HID has them least significant first: nothing is claimed   *)
(* of such a field.  A short report leaves old bytes behind it.            *)
Plain(f) == Span(pad.layout[f]) = 1
Whole(b, f) == Plain(f) /\ pad.layout[f].off + pad.layout[f].len <= 8 * Len(b)

Signed(x) == ((x + 128) % 256) - 128

(* Bytes of the MIDI message in a packet, by its code index number.        *)
MidiLength(cin) ==
    CASE cin \in {0, 1} -> 0
      [] cin \in {5, 15} -> 1
      [] cin \in {2, 6, 12, 13} -> 2
      [] OTHER -> 3

(* The reports that the handler must have been told of.                    *)
Due == SubSeq(Completed, since + 1, Len(Completed))
Matching(r) == pad.id = 0 \/ r[1] \in {0, pad.id}

(* The handlers are told of every good report once, in order and of no     *)
(* other: a mouse report of exactly three bytes as buttons and signed      *)
(* moves, the packets of a MIDI transfer of whole packets, each with its   *)
(* bytes, and a game pad's fields as the HID layout of its descriptor puts *)
(* them (a report with another ID repeats the state), except fields that   *)
(* span bytes, which the driver puts together wrongly, and fields past the *)
(* end of a short report.  Aimed at the decoders, at short and failed      *)
(* transfers, which may have written to the buffer, and at the restart of  *)
(* the request; a status call, which shares the buffer, is left to         *)
(* StateSettles.                                                           *)
HandlerRight ==
    handler /\ asked = <<>> =>
      CASE kind = "mouse" ->
             given = [k \in 1 .. Len(SelectSeq(Due, LAMBDA r : Len(r) = 3)) |->
                        LET r == SelectSeq(Due, LAMBDA q : Len(q) = 3)[k] IN
                        <<r[1], Signed(r[2]), Signed(r[3])>>]
        [] kind = "midi" ->
             LET whole == FlattenSeq(SelectSeq(Due, LAMBDA r : Len(r) % 4 = 0))
                 starts == SelectSeq([k \in 1 .. Len(whole) \div 4 |-> 4 * k - 3],
                                     LAMBDA i : whole[i] # 0)
             IN given = [k \in DOMAIN starts |->
                           <<whole[starts[k]] \div 16,
                             SubSeq(whole, starts[k] + 1, starts[k] + MidiLength(whole[starts[k]] % 16))>>]
        [] kind = "pad" ->
             LET full == SelectSeq(Due, LAMBDA r : r # <<>>) IN
             /\ Len(given) = Len(full)
             /\ \A k \in DOMAIN full :
                  IF Matching(full[k])
                  THEN /\ DOMAIN given[k] = DOMAIN pad.layout
                       /\ \A f \in DOMAIN pad.layout :
                            Whole(full[k], f) => given[k][f] = FieldOf(full[k], pad.layout[f])
                  ELSE k > 1 => given[k] = given[k - 1]

(* A status call and the completion routine decode into the same m_State   *)
(* from the same buffer, the routine in the middle of the call.  Once both *)
(* are done, the state is what the buffer holds, except at most one field: *)
(* the one that the call had read, and not yet stored, when the routine    *)
(* decoded a later report.  It takes a handler (without one the routine    *)
(* does not decode) and a game pad without report IDs; nothing is claimed  *)
(* of fields that span bytes, nor after a failed transfer or message has   *)
(* written to the buffer, until the next decoding.                         *)
StateSettles ==
    kind = "pad" /\ pad.id = 0 /\ given # <<>> /\ task = "no" /\ urb = "armed" /\ ~spoiled
    => \A f \in DOMAIN pad.layout \ {late} :
          Plain(f) => state[f] = FieldOf(buffer, pad.layout[f])

=============================================================================
