--------------------------- MODULE MCSwitch2Daemon ---------------------------
(* Instances of Switch2Daemon for TLC. *)
EXTENDS Switch2Daemon

Args(options, p, max) == [options |-> options, profile |-> p, max_reports |-> max]

\* Every mode and profile; uinput, --loose-scan and unlimited reports (as the systemd
\* unit asks for) each somewhere.
MCAllArgs ==
    { Args({"diagnose"}, "auto", 1),
      Args({"diagnose"}, "joycon2cpp-pair", 1),
      Args({"diagnose", "uinput"}, "spro2win", 1),
      Args({"daemon", "uinput"}, "auto", 0),
      Args({"loose_scan"}, "joycon2cpp", 2) }

MCDaemonArgs == { Args({"daemon"}, "joycon2cpp", 0) }
MCAutoArgs == { Args({"diagnose"}, "auto", 1) }

\* A full table, one without the macOS input, one without the command characteristic
\* and one with nothing the profiles subscribe to.
MCGattTables == { Chars, Chars \ {"7492866c"}, Chars \ {"command", "response"}, {"command"} }
MCNoInputTable == { {"command"} }
=============================================================================
