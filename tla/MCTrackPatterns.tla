--------------------------- MODULE MCTrackPatterns ---------------------------
(* Two patterns of a bank, the first also the global one in another bank.  *)
(* The first track has 2 and 3 steps in them, the second 1 and none of its *)
(* own; the MASTER LENGTHs, 3 and 2, cut the first track's second pattern  *)
(* short and let its first wrap before the pattern does.                   *)
EXTENDS TrackPatterns

MCTracks == {1, 2}
MCIds == {<<0, 0>>, <<0, 1>>, <<1, 0>>}
MCLength == [x \in {0, 1} \X MCTracks |->
  CASE x = <<0, 1>> -> 2 [] x = <<1, 1>> -> 3
    [] x = <<0, 2>> -> 1 [] x = <<1, 2>> -> 0]
MCMaster == [p \in {0, 1} |-> IF p = 0 THEN 3 ELSE 2]
MCKeys == {<<1, 0>>, <<1, 1>>, <<2, 1>>}
=============================================================================
