--------------------------- MODULE MCDemandLoader ---------------------------
(* Two effects with a block in common, each picked on an FX1 slot, and a   *)
(* reverb that may come to the FX2 slot of effect 0's first home.          *)
EXTENDS DemandLoader

CONSTANTS T3, T4, DARK, other

MCTracks == {T3, T4}
MCBlocks == {"b3", "b4"}
MCTrackOf == [b \in MCBlocks |-> IF b = "b3" THEN T3 ELSE T4]
Home(b) == [block |-> b, reach |-> {DARK}]
MCHomes == [k \in 0 .. 1 |-> IF k = 0 THEN <<Home("b3"), Home("b4")>>
                                      ELSE <<Home("b4")>>]
MCOffer == [s \in {1, 2} \X MCTracks |->
              CASE s = <<1, T3>> -> {other, 0}
                [] s = <<1, T4>> -> {other, 1}
                [] s = <<2, T3>> -> {other, DARK}
                [] s = <<2, T4>> -> {other}]

(* Where writes are lost: effect 0 alone, moved between its homes.         *)
MCLossyOffer == [s \in {1, 2} \X MCTracks |->
                   CASE s = <<1, T3>> -> {other, 0}
                     [] s = <<2, T3>> -> {other, DARK}
                     [] OTHER -> {other}]
=============================================================================
