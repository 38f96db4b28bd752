------------------------------- MODULE Reports -------------------------------
(***************************************************************************)
(* The conversions of an input report, as operators.  A report and a HID   *)
(* report are functions from 0 .. n - 1 to bytes, indexed as in C; bits    *)
(* are taken apart with \div and %, and an | of disjoint bits is a sum.    *)
(*                                                                         *)
(*   switch2-bt.c     parse_input, build_hid_report                        *)
(*   sw2d.c           report09_to_uhid                                     *)
(*   sw2d_btstack.c   parse_switch_report                                  *)
(*   switch2d.py      decode_report, update_uinput                         *)
(***************************************************************************)
EXTENDS Integers, Sequences, FiniteSets, FiniteSetsExt

Byte == 0 .. 255
Size(r) == Cardinality(DOMAIN r)
Bit(n, i) == (n \div 2^i) % 2
Hi(b) == b \div 16
Lo(b) == b % 16
le16(r, p) == r[p] + 256 * r[p + 1]

-----------------------------------------------------------------------------
(* switch2-bt.c *)

\* HID's hat switch counts clockwise from north; 8 is the null state.
Centre == 8

\* The switch over the d-pad bits of byte 3 as a table: Hat[dp + 1] for dp in 0 .. 15, where
\* 1 is down, 2 right, 4 left and 8 up.
Hat == <<8, 4, 2, 3, 6, 5, 8, 8, 0, 8, 1, 8, 7, 8, 8, 8>>

\* Mutant: the cases of Up+Right and Up+Left are exchanged.
dpad_of_Swapped(dp) == CASE dp = 10 -> 7 [] dp = 12 -> 1 [] OTHER -> Hat[dp + 1]

\* Mutant: the null state is 15, as some hat switches have it.
dpad_of_Null15(dp) == IF Hat[dp + 1] = Centre THEN 15 ELSE Hat[dp + 1]

dpad_of(dp) == Hat[dp + 1]

\* ctrl_t as main sets it up.
CtrlInit == [buttons |-> 0, lx |-> 2048, ly |-> 2048, rx |-> 2048, ry |-> 2048, dpad |-> Centre]

\* A report of less than 11 bytes leaves the controller's state as it is.
parse_input(c, d) ==
    IF Size(d) < 11 THEN c
    ELSE [buttons |-> d[2] + 256 * d[3] + 65536 * d[4],
          lx |-> 16 * d[5] + Hi(d[6]), ly |-> 16 * d[7] + Lo(d[6]),
          rx |-> 16 * d[8] + Hi(d[9]), ry |-> 16 * d[10] + Lo(d[9]),
          dpad |-> dpad_of(Lo(d[3]))]

HID_INPUT_REPORT_SIZE == 13

\* Buttons 1 to 21 are copied bit by bit; 22 to 24 are not.
HidButtons(c) == c.buttons % 2^21

build_hid_report(c) ==
    LET b == HidButtons(c) IN
    [i \in 0 .. HID_INPUT_REPORT_SIZE - 1 |->
        <<1, b % 256, (b \div 256) % 256, b \div 65536,
          c.lx % 256, c.lx \div 256, c.ly % 256, c.ly \div 256,
          c.rx % 256, c.rx \div 256, c.ry % 256, c.ry \div 256,
          c.dpad>>[i + 1]]

\* The input report of hid_report_descriptor: Report Count and Report Size of
\* the buttons, the axes, the hat switch and the padding.
hid_report_descriptor == <<[count |-> 24, size |-> 1], [count |-> 4, size |-> 16],
                           [count |-> 1, size |-> 4], [count |-> 1, size |-> 4]>>

-----------------------------------------------------------------------------
(* sw2d.c *)

\* The buttons, the axes, the hat switch, the padding and two triggers.
gamepad_rdesc == <<[count |-> 24, size |-> 1], [count |-> 4, size |-> 12],
                   [count |-> 1, size |-> 4], [count |-> 1, size |-> 4],
                   [count |-> 2, size |-> 8]>>

stick12_at(r, off) == IF off + 1 >= Size(r) THEN 2048 ELSE le16(r, off) % 4096

\* dpad_from_buttons: its four directions are never set.
dpad_from_buttons(b) == Centre

Rejected == <<>>     \* report09_to_uhid's -1

\* Mutant: the low nibble of ly and the high one of lx are exchanged.
report09_to_uhid_Nibbles(r) ==
    IF Size(r) < 11 \/ r[0] # 9 THEN Rejected
    ELSE LET b == le16(r, 1)
             lx == stick12_at(r, 3)
             ly == stick12_at(r, 5)
             rx == stick12_at(r, 7)
             ry == stick12_at(r, 9)
         IN [i \in 0 .. 12 |->
               <<1, b % 256, b \div 256, Bit(b, 6) + 2 * Bit(b, 7),
                 lx % 256, 16 * (lx \div 256) + (ly % 16), ly \div 16,
                 rx % 256, (rx \div 256) + 16 * (ry % 16), ry \div 16,
                 dpad_from_buttons(b), 255 * Bit(b, 6), 255 * Bit(b, 7)>>[i + 1]]

report09_to_uhid(r) ==
    IF Size(r) < 11 \/ r[0] # 9 THEN Rejected
    ELSE LET b == le16(r, 1)
             lx == stick12_at(r, 3)
             ly == stick12_at(r, 5)
             rx == stick12_at(r, 7)
             ry == stick12_at(r, 9)
         IN [i \in 0 .. 12 |->
               <<1, b % 256, b \div 256, Bit(b, 6) + 2 * Bit(b, 7),
                 lx % 256, (lx \div 256) + 16 * (ly % 16), ly \div 16,
                 rx % 256, (rx \div 256) + 16 * (ry % 16), ry \div 16,
                 dpad_from_buttons(b), 255 * Bit(b, 6), 255 * Bit(b, 7)>>[i + 1]]

-----------------------------------------------------------------------------
(* sw2d_btstack.c *)

\* What it prints; nothing for a report of less than 63 bytes.  The 32-bit
\* button word is kept as its bytes.
parse_switch_report(d) ==
    IF Size(d) < 63 THEN Rejected
    ELSE [buttons |-> <<d[4], d[5], d[6], d[7]>>,
          lx |-> (d[10] + 256 * Lo(d[11])) \div 16, ly |-> (Hi(d[11]) + 16 * d[12]) \div 16,
          rx |-> (d[13] + 256 * Lo(d[14])) \div 16, ry |-> (Hi(d[14]) + 16 * d[15]) \div 16,
          l2 |-> d[60], r2 |-> d[61]]

-----------------------------------------------------------------------------
(* switch2d.py *)

\* BUTTON_MAP: the byte and the bit of each button.
BUTTON_MAP ==
    [b |-> <<2, 0>>, a |-> <<2, 1>>, y |-> <<2, 2>>, x |-> <<2, 3>>,
     r |-> <<2, 4>>, zr |-> <<2, 5>>, start |-> <<2, 6>>, r3 |-> <<2, 7>>,
     dpad_down |-> <<3, 0>>, dpad_right |-> <<3, 1>>, dpad_left |-> <<3, 2>>, dpad_up |-> <<3, 3>>,
     l |-> <<3, 4>>, zl |-> <<3, 5>>, back |-> <<3, 6>>, l3 |-> <<3, 7>>,
     home |-> <<4, 0>>, c |-> <<4, 1>>, gr |-> <<4, 2>>, gl |-> <<4, 3>>, screenshot |-> <<4, 4>>]

\* Mutant: the nibble order of switch2-bt.c.
decode_stick12_BtOrder(d, off) ==
    [x |-> 16 * d[off] + Hi(d[off + 1]), y |-> 16 * d[off + 2] + Lo(d[off + 1])]

\* x and y; x_norm and y_norm are computed where they are used.
decode_stick12(d, off) ==
    [x |-> 256 * Lo(d[off + 1]) + d[off], y |-> 16 * d[off + 2] + Hi(d[off + 1])]

decode_report(d) ==
    IF Size(d) < 11 THEN Rejected
    ELSE [pressed |-> {n \in DOMAIN BUTTON_MAP : Bit(d[BUTTON_MAP[n][1]], BUTTON_MAP[n][2]) = 1},
          left |-> decode_stick12(d, 5), right |-> decode_stick12(d, 8)]

\* Round to the nearest (no tie occurs) and towards zero.
Nearest(n, m) == IF n >= 0 THEN (2 * n + m) \div (2 * m) ELSE -((m - 2 * n) \div (2 * m))
Trunc(n, m) == IF n >= 0 THEN n \div m ELSE -((-n) \div m)

\* round((v - 2048) / 2047, 3), in thousandths.
Norm(v) == Nearest(1000 * (v - 2048), 2047)

\* int(v * 32767), clamped to 16 bits; exact, since 32767 and 1000 have no common factor.
axis_val(norm) == Max({-32768, Min({32767, Trunc(norm * 32767, 1000)})})

\* The key events and the axes written to the uinput device.
update_uinput(decoded) ==
    [keys |-> decoded.pressed,
     x |-> axis_val(Norm(decoded.left.x)), y |-> axis_val(-Norm(decoded.left.y)),
     rx |-> axis_val(Norm(decoded.right.x)), ry |-> axis_val(-Norm(decoded.right.y)),
     z |-> IF "zl" \in decoded.pressed THEN 255 ELSE 0,
     rz |-> IF "zr" \in decoded.pressed THEN 255 ELSE 0]

=============================================================================
