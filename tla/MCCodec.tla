------------------------------- MODULE MCCodec -------------------------------
(***************************************************************************)
(* Inputs of the conversions for TLC: every value of the d-pad's byte, and *)
(* three bytes with unlike nibbles at every place of a stick.              *)
(***************************************************************************)
EXTENDS Codec

\* A report of n zero bytes, but 9 (the ID sw2d.c wants) in front, and x, y, z from p on.
MCReport(n, p, x, y, z) ==
    [i \in 0 .. n - 1 |-> CASE i = p -> x [] i = p + 1 -> y [] i = p + 2 -> z
                            [] i = 0 -> 9 [] OTHER -> 0]

MCNibbles == {18, 143, 255}

MCReportSet ==
    {MCReport(63, 3, b, 0, 0) : b \in Byte}
    \cup {MCReport(63, p, x, y, z) : p \in 0 .. 13, x \in MCNibbles, y \in MCNibbles, z \in MCNibbles}
    \cup {MCReport(11, p, x, y, z) : p \in 5 .. 8, x \in MCNibbles, y \in {18}, z \in MCNibbles}
    \cup {MCReport(10, p, 18, 240, 143) : p \in 2 .. 7}

MCPayloads == {[i \in 1 .. n |-> i] : n \in 0 .. 255}

MCAdvBytes == {0, 1, 3, 5, 83, 255}

=============================================================================
