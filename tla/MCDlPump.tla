------------------------------ MODULE MCDlPump ------------------------------
(* Three effects over two blocks, as in octabam's third and fourth: 0 fits *)
(* both, 1 is soft and fits the second only, 2 fits both and sits above    *)
(* every reverb in the second.                                             *)
EXTENDS DlPump

CONSTANTS T3, T4, DARK, other

MCTracks == {T3, T4}
MCBlocks == {"b3", "b4"}
MCTrackOf == [b \in MCBlocks |-> IF b = "b3" THEN T3 ELSE T4]
Low(b) == [block |-> b, reach |-> {DARK}]
High(b) == [block |-> b, reach |-> {}]
MCHomes == [k \in 0 .. 2 |-> CASE k = 0 -> <<Low("b3"), Low("b4")>>
                               [] k = 1 -> <<Low("b4")>>
                               [] k = 2 -> <<High("b4"), Low("b3")>>]
MCSoft == {1}
MCOffer == [s \in {1, 2} \X MCTracks |->
              CASE s = <<1, T3>> -> {other, 0}
                [] s = <<1, T4>> -> {other, 1}
                [] s = <<2, T3>> -> {other, DARK}
                [] s = <<2, T4>> -> {other, DARK, 2}]
=============================================================================
