----------------------------- MODULE LoopHistory ----------------------------
(***************************************************************************)
(* What FREE LOOP promises of a track's loop, whatever buffers it keeps it *)
(* in (modules/free-loop/README.md, UNDO): the track is on one loop; UNDO  *)
(* puts it back on the loop before the last pass, exactly as it was, and   *)
(* REDO on the last pass again; a pass dropped leaves no trace; a clear    *)
(* leaves no loop at all.                                                  *)
(***************************************************************************)
CONSTANTS
  Loops,     \* the loops there can be
  Silence,   \* no loop
  Nothing    \* nothing to go back to

VARIABLES
  heard,     \* the loop the track is on
  back       \* the loop UNDO or REDO puts it on

history == <<heard, back>>

Init == heard = Silence /\ back = Nothing

(* Recorded over in place: a free take, a pass of a track without an UNDO  *)
(* buffer, a pass on top of UNDO TO's.                                     *)
Record ==
  /\ heard' \in Loops \ {heard, back}
  /\ back' = back

(* The coming pass leaves nothing to go back to.                           *)
Begin == heard' = heard /\ back' = Nothing

(* A pass is over: the track is on the loop it made, and UNDO goes to the  *)
(* one before, unless the next pass already records over it.               *)
Commit ==
  /\ heard' \in Loops \ {heard}
  /\ back' \in {heard, Nothing}

(* UNDO, and REDO after it: the two loops change places.                   *)
Undo == back # Nothing /\ heard' = back /\ back' = heard

Clear == heard' = Silence /\ back' = Nothing

Next == Record \/ Begin \/ Commit \/ Undo \/ Clear

HistorySpec == Init /\ [][Next]_history
=============================================================================
