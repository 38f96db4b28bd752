----------------------------- MODULE MCSw2dFinal -----------------------------
(***************************************************************************)
(* Instances of Sw2dFinal for TLC.                                         *)
(***************************************************************************)
EXTENDS Sw2dFinal

MCHandles == {0, 1}

\* A scan, a scan only, a preflight, and a start with no peer at all.
MCArgSets == {{"exclusive_hci", "auto_scan"}, {"usb_init", "scan_only"},
              {"preflight"}, {"host_bdaddr"}}
\* A known address.
MCAddressGiven == {{"bdaddr"}}

=============================================================================
