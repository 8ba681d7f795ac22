----------------------------- MODULE PatternClips ----------------------------
(***************************************************************************)
(* What TRACK PATTERNS promises of each track, whatever bytes it keeps     *)
(* (modules/trackpatterns/README.md, "What it does"): a track plays the    *)
(* global pattern or one of its own; a change asked for waits and lands as *)
(* it is; a change of the global pattern, a bank change included, brings   *)
(* every track back.  A step stock takes from elsewhere is stock's.        *)
(***************************************************************************)
CONSTANTS Tracks, Patterns, Ids, Follow, Silent

VARIABLES
  global,    \* the global pattern, <<bank, pattern>>
  plays,     \* track -> Follow or the pattern it plays
  wants,     \* track -> what it plays from its next pass on
  heard      \* track -> the <<bank, pattern>> of the last step it was given

clips == <<global, plays, wants, heard>>

Choices == Patterns \cup {Follow}

(* The pattern a track on choice x reads.                                  *)
Reads(x) == IF x = Follow THEN global ELSE <<global[1], x>>

Init ==
  /\ global \in Ids
  /\ plays = [t \in Tracks |-> Follow] /\ wants = plays
  /\ heard = [t \in Tracks |-> Silent]

(* A change is asked for, or withdrawn; with the sequencer stopped it      *)
(* applies at once.                                                        *)
Ask ==
  \E t \in Tracks, x \in Choices :
    /\ wants' = [wants EXCEPT ![t] = x]
    /\ plays' \in {plays, [plays EXCEPT ![t] = x]}
    /\ heard' \in {heard, [heard EXCEPT ![t] = Silent]}
    /\ UNCHANGED global

(* A step of every track: some start a pass, and what they want lands;     *)
(* each reads the pattern it plays.                                        *)
Step ==
  /\ \E starts \in SUBSET Tracks :
       plays' = [t \in Tracks |-> IF t \in starts THEN wants[t] ELSE plays[t]]
  /\ heard' = [t \in Tracks |-> Reads(plays'[t])]
  /\ UNCHANGED <<global, wants>>

(* A step stock prepares across a change: every track follows stock.       *)
StepAcross ==
  /\ \E id \in Ids \ {global} : heard' = [t \in Tracks |-> id]
  /\ \E starts \in SUBSET Tracks :
       plays' = [t \in Tracks |-> IF t \in starts THEN wants[t] ELSE plays[t]]
  /\ UNCHANGED <<global, wants>>

Quiet == heard' = [t \in Tracks |-> Silent]

(* The global pattern changes, with a stop or without.                     *)
Change ==
  /\ global' \in Ids \ {global}
  /\ plays' = [t \in Tracks |-> Follow] /\ wants' = plays'
  /\ UNCHANGED heard \/ Quiet

(* The sequencer stops.                                                    *)
Hush == Quiet /\ UNCHANGED <<global, plays, wants>>

Next == Ask \/ Step \/ StepAcross \/ Change \/ Hush

ClipsSpec == Init /\ [][Next]_clips
=============================================================================
