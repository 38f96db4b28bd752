----------------------------- MODULE MCSwitch2Bt -----------------------------
(***************************************************************************)
(* The objects of a controller under bluetoothd, for TLC.                  *)
(***************************************************************************)
EXTENDS Switch2Bt

MCObjects == {<<"other", "adapter", "other">>, <<"other">>,
              <<"other", "input">>, <<"other", "cmd_data">>, <<"ccc">>}

=============================================================================
