---------------------------- MODULE MCSignalTable ----------------------------
(***************************************************************************)
(* An instance of SignalTable: a block that changes its side, and an       *)
(* appointment whose older mapping is the block before.                    *)
(***************************************************************************)
EXTENDS SignalTable

Entry(slot, side, legacy) == [slot |-> slot, side |-> side, legacy |-> legacy]
Blocks == {1, 2}
Plans == {<<Entry(2, "SELL", 2), Entry(2, "BUY", 2)>>,
          <<Entry(1, "BUY", 1), Entry(2, "BUY", 1)>>}
=============================================================================
