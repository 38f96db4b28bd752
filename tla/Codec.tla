-------------------------------- MODULE Codec --------------------------------
(***************************************************************************)
(* The handlers that convert data, one program at a time, on every input   *)
(* of a set: input reports (module Reports), command frames, and the       *)
(* manufacturer data of an advertisement, whose loop is walked step by     *)
(* step.  A handler leaves its input in data and what it made of it in     *)
(* out; Return is its end.  Only switch2-bt.c keeps a state between calls. *)
(***************************************************************************)
EXTENDS Reports

CONSTANTS
    ReportSet,      \* input reports
    Payloads,       \* data of a command, at most 255 bytes
    AdvBytes,       \* bytes of advertising data
    AdvMax          \* their number, at most 255

ASSUME CodecAssumption ==
    /\ \A r \in ReportSet : Size(r) \in Nat /\ r \in [0 .. Size(r) - 1 -> Byte]
    /\ Payloads \subseteq Seq(Byte) /\ \A p \in Payloads : Len(p) <= 255
    /\ AdvBytes \subseteq Byte /\ AdvMax \in 0 .. 255

VARIABLES
    prog,           \* the program: its handlers are called
    data,           \* the input of the call; in switch2-bt.c the last complete report
    out,            \* its result
    c,              \* switch2-bt.c's ctrl_t
    pos,            \* adv_is_nintendo's position
    reads           \* history: the bytes it has read

vars == <<prog, data, out, c, pos, reads>>

None == <<>>
Programs == {"switch2-bt", "sw2d", "sw2d_btstack", "switch2d", "protocol", "adv"}
Uint(w) == {n \in Nat : n < 2^w}
Axis == {n \in Int : -32768 <= n /\ n <= 32767}

HidReport == [0 .. HID_INPUT_REPORT_SIZE - 1 -> Byte]

TypeOK ==
    /\ prog \in Programs
    /\ prog \in {"switch2-bt", "sw2d"} /\ out # None => out \in HidReport
    /\ prog = "switch2d" /\ out # None =>
         \A a \in {"x", "y", "rx", "ry", "z", "rz"} : out[a] \in Axis
    /\ c.buttons \in Uint(24) /\ c.dpad \in 0 .. 8
    /\ \A a \in {"lx", "ly", "rx", "ry"} : c[a] \in Uint(16)
    /\ pos \in Byte /\ reads \subseteq Nat

Init ==
    /\ prog \in Programs
    /\ data = None /\ out = None /\ c = CtrlInit
    /\ pos = 0 /\ reads = {}

Returned == data = None
Walking == prog = "adv" /\ ~Returned /\ out = None

\* A handler is called with d and returns o.
Call(p, d, o) ==
    /\ prog = p /\ Returned
    /\ data' = d /\ out' = o
    /\ UNCHANGED <<prog, c, pos, reads>>

\* The result is written, printed or sent, and the next input is waited for.
Return ==
    /\ prog # "switch2-bt" /\ ~Returned /\ ~Walking
    /\ data' = None /\ out' = None /\ pos' = 0 /\ reads' = {}
    /\ UNCHANGED <<prog, c>>

-----------------------------------------------------------------------------
(* Input reports *)

\* Mutant: the controller's state is set up anew for every notification.
PropertiesChanged_Forgets(d) ==
    /\ prog = "switch2-bt"
    /\ c' = parse_input(CtrlInit, d)
    /\ out' = build_hid_report(c')
    /\ data' = IF Size(d) < 11 THEN data ELSE d
    /\ UNCHANGED <<prog, pos, reads>>

\* dbus_filter: a Value of the input characteristic is parsed, and a HID
\* report is built and sent whether or not it was long enough.
PropertiesChanged(d) ==
    /\ prog = "switch2-bt"
    /\ c' = parse_input(c, d)
    /\ out' = build_hid_report(c')
    /\ data' = IF Size(d) < 11 THEN data ELSE d
    /\ UNCHANGED <<prog, pos, reads>>

\* run_session of sw2d.c.
Notification(d) == Call("sw2d", d, report09_to_uhid(d))

\* handle_gatt_client_event of sw2d_btstack.c.
GattNotification(d) == Call("sw2d_btstack", d, parse_switch_report(d))

\* handle_report, with a uinput device.
handle_report(d) ==
    LET decoded == decode_report(d) IN
    Call("switch2d", d, IF decoded = Rejected THEN None ELSE update_uinput(decoded))

-----------------------------------------------------------------------------
(* Command frames *)

Cmd == 21            \* the pair command, 0x15
Sub == 1

Header(n) == <<Cmd, 145, 1, Sub, 0, n, 0, 0>>

\* switch2_protocol.c: the length is a uint8_t.
switch2_build_command(p) == [bytes |-> Header(Len(p)) \o p, len |-> (8 + Len(p)) % 256]

\* Mutant: the header carries the length of the whole frame.
build_cmd_Total(p) == [bytes |-> Header((8 + Len(p)) % 256) \o p, len |-> 8 + Len(p)]

\* The bridge: the length is an int.
build_cmd(p) == [bytes |-> Header(Len(p)) \o p, len |-> 8 + Len(p)]

\* switch2-bt.c: a 16-bit length, and a prefix of 33 zero bytes.
build_nwcp(n) == <<Cmd, 145, 1, Sub, 0, n % 256, (n \div 256) % 256, 0>>
NwcpMax == 248       \* what fits its 256-byte buffer
Prefix == [i \in 1 .. 33 |-> 0]

nwcp_send_cmd(p) ==
    LET frame == build_nwcp(Len(p)) \o p
    IN  [bytes |-> Prefix \o frame, len |-> 33 + Len(frame)]

BuildCommand(p) ==
    Call("protocol", p,
         [library |-> switch2_build_command(p), bridge |-> build_cmd(p),
          nwcp |-> IF Len(p) <= NwcpMax THEN nwcp_send_cmd(p) ELSE None])

-----------------------------------------------------------------------------
(* adv_is_nintendo: ad(i) is ad[i], and Size(data) is len *)

NINTENDO_MANUFACTURER == 1363        \* 0x0553
ManufacturerData == 255

\* An advertising report; the walk starts.
AdvertisingReport(d) ==
    /\ prog = "adv" /\ Returned
    /\ data' = d
    /\ UNCHANGED <<prog, out, c, pos, reads>>

Read(is) == reads' = reads \cup is

\* A byte beyond the end could be anything; the model has 0 there.
ad(i) == IF i \in DOMAIN data THEN data[i] ELSE 0

\* Mutant: the structure's end is compared without its length byte.
Fits_Short(elen) == elen # 0 /\ pos + elen <= Size(data)

\* The length byte is not 0 and the structure ends within the data.
Fits(elen) == elen # 0 /\ pos + 1 + elen <= Size(data)

\* The structure at pos names Nintendo.
Names ==
    /\ ad(pos + 1) = ManufacturerData /\ ad(pos) >= 3
    /\ ad(pos + 2) + 256 * ad(pos + 3) = NINTENDO_MANUFACTURER

IdBytes == IF ad(pos + 1) = ManufacturerData /\ ad(pos) >= 3 THEN {pos + 2, pos + 3} ELSE {}

\* pos is a uint8_t.
AdvSkip ==
    /\ Walking /\ pos + 1 < Size(data) /\ Fits(ad(pos))
    /\ Read({pos, pos + 1} \cup IdBytes)
    /\ ~Names
    /\ pos' = (pos + 1 + ad(pos)) % 256
    /\ UNCHANGED <<prog, data, out, c>>

AdvMatch ==
    /\ Walking /\ pos + 1 < Size(data) /\ Fits(ad(pos))
    /\ Read({pos, pos + 1} \cup IdBytes)
    /\ Names
    /\ out' = [nintendo |-> TRUE]
    /\ UNCHANGED <<prog, data, c, pos>>

\* A structure that does not fit, or the end of the data.
AdvEnd ==
    /\ Walking
    /\ IF pos + 1 < Size(data)
       THEN ~Fits(ad(pos)) /\ Read({pos, pos + 1})
       ELSE UNCHANGED reads
    /\ out' = [nintendo |-> FALSE]
    /\ UNCHANGED <<prog, data, c, pos>>

-----------------------------------------------------------------------------
AdvData == UNION {[0 .. n - 1 -> AdvBytes] : n \in 1 .. AdvMax}

Next ==
    \/ \E d \in ReportSet : \/ PropertiesChanged(d)
                            \/ Notification(d)
                            \/ GattNotification(d)
                            \/ handle_report(d)
    \/ \E p \in Payloads : BuildCommand(p)
    \/ prog = "adv" /\ Returned /\ \E d \in AdvData : AdvertisingReport(d)
    \/ AdvSkip
    \/ AdvMatch
    \/ AdvEnd
    \/ Return

Spec == Init /\ [][Next]_vars

-----------------------------------------------------------------------------
(* The reference: fields by their place in a descriptor *)

\* The number in w bits of r from bit off on, least significant bit first, as HID and the
\* packed sticks have it: out of the three bytes from there on, as one number.
At(r, i) == IF i \in DOMAIN r THEN r[i] ELSE 0
Three(r, p) == At(r, p) + 256 * At(r, p + 1) + 65536 * At(r, p + 2)
Field(r, off, w) == (Three(r, off \div 8) \div 2^(off % 8)) % 2^w

\* The bits of the first k items of a descriptor of at most five.
Bits(desc, k) ==
    LET of(i) == IF i <= k THEN desc[i].count * desc[i].size ELSE 0
    IN  of(1) + of(2) + of(3) + of(4) + of(5)

\* The j-th value of the k-th item of the descriptor, after the report ID.
Item(r, desc, k, j) == Field(r, 8 + Bits(desc, k - 1) + j * desc[k].size, desc[k].size)

\* The first item, one bit a button, as one number.
Buttons(r, desc) == Field(r, 8, desc[1].count)

FillsDescriptor(r, desc) == Size(r) = 1 + (Bits(desc, Len(desc)) \div 8)

\* The directions of the d-pad by its buttons 9 to 12, and the hat values clockwise.
DpadBit == [down |-> 8, right |-> 9, left |-> 10, up |-> 11]
Pressed(b) == {x \in DOMAIN DpadBit : Bit(b, DpadBit[x]) = 1}
Compass == <<{"up"}, {"up", "right"}, {"right"}, {"right", "down"},
             {"down"}, {"down", "left"}, {"left"}, {"left", "up"}>>

-----------------------------------------------------------------------------
(* Properties *)

\* switch2-bt.c reports the d-pad twice, as buttons 9 to 12 and as the hat switch.  In every
\* HID report, read with the descriptor, the two agree: the hat is the direction of the pressed
\* buttons, and in its null state exactly if they are no direction (build_hid_report, parse_input).
HatAgreesWithButtons ==
    prog = "switch2-bt" /\ out # None =>
      LET hat == Item(out, hid_report_descriptor, 3, 0)
          pressed == Pressed(Buttons(out, hid_report_descriptor))
      IN  IF pressed \in {Compass[i] : i \in 1 .. 8}
          THEN hat \in 0 .. 7 /\ Compass[hat + 1] = pressed
          ELSE hat = Centre

\* Every HID report of switch2-bt.c is of the last complete input report, also when a short one
\* made dbus_filter build it (parse_input's early return): read with the descriptor, which it
\* fills, it has the report's 21 buttons and the upper eight bits of its y axes, and no axis
\* beyond the logical maximum of 4095.  Before the first complete report nothing is pressed and
\* the sticks are centred.
LastReportKept ==
    prog = "switch2-bt" /\ out # None =>
      LET axis(j) == Item(out, hid_report_descriptor, 2, j)
          pressed == Buttons(out, hid_report_descriptor)
      IN  /\ FillsDescriptor(out, hid_report_descriptor)
          /\ \A j \in 0 .. 3 : axis(j) <= 4095
          /\ IF data = None
             THEN pressed = 0 /\ \A j \in 0 .. 3 : axis(j) = 2048
             ELSE /\ pressed = Field(data, 16, 24) % 2^21
                  /\ axis(1) \div 16 = Field(data, 56, 8) /\ axis(3) \div 16 = Field(data, 80, 8)

\* The sticks are packed as "12-bit packed X,Y" at bytes 5 to 7 and 8 to 10, which the tests'
\* _pack_stick spells out (low byte of x, low nibble of y over high nibble of x, rest of y): the
\* axes of the HID report are these numbers (parse_input).
SticksFollowFormat ==
    prog = "switch2-bt" /\ out # None /\ data # None =>
      \A j \in 0 .. 3 : Item(out, hid_report_descriptor, 2, j) = Field(data, 40 + 12 * j, 12)

\* What sw2d.c writes to its UHID device has the size its descriptor says, and every value
\* the descriptor names there is the one in the report: the packing of four 12-bit axes in six
\* bytes is the descriptor's (report09_to_uhid, gamepad_rdesc).
UhidMatchesDescriptor ==
    prog = "sw2d" /\ out # None =>
      /\ FillsDescriptor(out, gamepad_rdesc)
      /\ \A j \in 0 .. 3 : Item(out, gamepad_rdesc, 2, j) = Field(data, 8 * (3 + 2 * j), 12)
      /\ Buttons(out, gamepad_rdesc) % 2^16 = Field(data, 8, 16)
      /\ Item(out, gamepad_rdesc, 3, 0) \in 0 .. 8 /\ Item(out, gamepad_rdesc, 4, 0) = 0
      /\ \A j \in 0 .. 1 : Item(out, gamepad_rdesc, 5, j) = 255 * Item(out, gamepad_rdesc, 1, 16 + j)

\* The axes that sw2d_btstack.c prints and switch2d.py gives to uinput are those of the packed
\* sticks: the upper eight bits, and 32767 * (v - 2048) / 2047 up to the rounding to three digits
\* (half of 32.767) and the one to an integer (less than 1), never outside the device's range, with
\* y pointing the other way (parse_switch_report, decode_stick12, update_uinput).
AxesFollowSticks ==
    /\ prog = "sw2d_btstack" /\ out # None =>
         /\ out.lx = Field(data, 84, 8) /\ out.ly = Field(data, 96, 8)
         /\ out.rx = Field(data, 108, 8) /\ out.ry = Field(data, 120, 8)
    /\ prog = "switch2d" /\ out # None =>
         LET off(a, v) == 2047 * a - 32767 * (v - 2048)
             near(a, v) == /\ -32767 <= a /\ a <= 32767
                           /\ -2047 * 18 <= off(a, v) /\ off(a, v) <= 2047 * 18
         IN  /\ near(out.x, Field(data, 40, 12)) /\ near(-out.y, Field(data, 52, 12))
             /\ near(out.rx, Field(data, 64, 12)) /\ near(-out.ry, Field(data, 76, 12))

\* The three command builders make the same frame, from whose length byte the receiver finds
\* its end; the length the library reports is right exactly below 248 bytes of data, where its
\* uint8_t does not wrap (switch2_build_command, build_cmd, nwcp_send_cmd).
FramesAgree ==
    prog = "protocol" /\ out # None =>
      LET frame == out.bridge.bytes IN
      /\ Len(frame) = out.bridge.len /\ frame[6] = Len(frame) - 8
      /\ out.library.bytes = frame
      /\ out.library.len = Len(frame) <=> Len(data) < 248
      /\ out.nwcp # None => out.nwcp.bytes = Prefix \o frame /\ out.nwcp.len = 33 + Len(frame)

\* Where the structure at q ends and the next one starts.
End(q) == q + 1 + data[q]

\* p is the start of a structure: the positions that are so are the smallest set that has 0
\* and, with a position, the end of its structure.
IsStart(p) ==
    \A S \in SUBSET (0 .. p) :
        0 \in S /\ (\A q \in S : data[q] # 0 /\ End(q) <= p => End(q) \in S) => p \in S

\* Whatever bytes the advertisement holds, adv_is_nintendo reads none beyond its length, and
\* says yes exactly if a complete structure of manufacturer data with Nintendo's number follows
\* a chain of complete structures.
AdvWalkSound ==
    prog = "adv" /\ ~Returned =>
      LET n == Size(data) IN
      /\ \A i \in reads : i < n
      /\ ~Walking =>
           (out.nintendo <=> \E p \in 0 .. n - 4 :
                               /\ IsStart(p) /\ data[p] >= 3 /\ p + data[p] < n
                               /\ data[p + 1] = ManufacturerData
                               /\ data[p + 2] = 83 /\ data[p + 3] = 5)

=============================================================================
