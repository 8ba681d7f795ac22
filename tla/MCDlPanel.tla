----------------------------- MODULE MCDlPanel ------------------------------
(* Two effects with a block in common: 0 fits both blocks and is picked on *)
(* the FX1 of T3; 1 fits the second only, and is picked on the FX2 slot of *)
(* that block's own track.  DARK, which reaches both, goes on either FX2.  *)
EXTENDS DlPanel

CONSTANTS T3, T4, DARK, other

MCTracks == {T3, T4}
MCBlocks == {"b3", "b4"}
MCTrackOf == [b \in MCBlocks |-> IF b = "b3" THEN T3 ELSE T4]
Home(b) == [block |-> b, reach |-> {DARK}]
MCHomes == [k \in 0 .. 1 |-> IF k = 0 THEN <<Home("b3"), Home("b4")>>
                                      ELSE <<Home("b4")>>]
MCOffer == [s \in {1, 2} \X MCTracks |->
              CASE s = <<1, T3>> -> {other, 0}
                [] s = <<1, T4>> -> {other}
                [] s = <<2, T3>> -> {other, DARK}
                [] s = <<2, T4>> -> {other, DARK, 1}]
=============================================================================
