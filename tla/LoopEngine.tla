----------------------------- MODULE LoopEngine -----------------------------
(***************************************************************************)
(* The loop-pedal engine of FREE LOOP (modules/free-loop/freeloop.c), for  *)
(* one FREE or GRID track: the functions that move its FlState.  X is the  *)
(* track's own buffer and recorder, Y its UNDO buffer and the recorder of  *)
(* that buffer.                                                            *)
(*                                                                         *)
(* An operator takes the state s and the track's settings c.  Where the    *)
(* code also returns an FlAction, the operator returns a record: the next  *)
(* state, what the adapter has to do, and how it mutes the track.          *)
(***************************************************************************)
EXTENDS Naturals

CONSTANT NPassMax      \* where the count of recordings stops, 255

ASSUME NPassMaxAssumption == NPassMax \in Nat \ {0}

Buffers == {"X", "Y"}
Flip(b) == IF b = "X" THEN "Y" ELSE "X"

NoPress == [pedal |-> "none", was |-> "idle", undo |-> "none",
            started |-> "none"]

Zeroed == [st |-> "idle", has |-> FALSE, press |-> NoPress,
           qpend |-> "none", cur |-> "X", rec |-> "none", valid |-> FALSE,
           swap |-> FALSE, npass |-> 0, anchorN |-> 0, anchorAt |-> "X",
           inplace |-> FALSE, repl |-> FALSE, rpass |-> "none"]

Configs == [role : {"GRID", "FREE"}, ubuf : BOOLEAN, undoto : 0..16,
            endmute : BOOLEAN, chan : BOOLEAN]

Presses == [pedal : {"none", "rec", "play"},
            was : {"idle", "take", "armed", "overdub"},
            undo : {"none", "mute", "unmute"},
            started : {"none", "play", "take", "launch", "end", "now"}]

States == [st : {"idle", "take", "armed", "overdub"}, has : BOOLEAN,
           press : Presses, qpend : {"none", "mute", "unmute"},
           cur : Buffers, rec : {"none"} \cup Buffers, valid : BOOLEAN,
           swap : BOOLEAN, npass : 0..NPassMax, anchorN : 0..16,
           anchorAt : Buffers, inplace : BOOLEAN, repl : BOOLEAN,
           rpass : {"none", "mute", "unmute", "now"}]

(* The mute that changes what is heard.                                    *)
Toggle(muted) == IF muted THEN "unmute" ELSE "mute"

Result(s, do, mute) == [s |-> s, do |-> do, mute |-> mute]

(* Variant: the count goes on.                                             *)
CountOnAndOn(s, c) == IF c.undoto # 0 THEN s.npass + 1 ELSE s.npass

(* One recording more.  Only UNDO TO reads the count: without it, it is    *)
(* left at 0.                                                              *)
CountOn(s, c) == IF c.undoto # 0 /\ s.npass < NPassMax THEN s.npass + 1
                 ELSE s.npass

(* The recorder the pass in progress records with; the track's own when    *)
(* there is none.                                                          *)
PassRecorder(s) == IF s.rec = "Y" THEN "Y" ELSE "X"

-----------------------------------------------------------------------------
(* Passes *)

(* The pass in progress, if any, is over: the other buffer holds the loop  *)
(* before it, and the recording is counted; the n-th is UNDO TO's.         *)
PassOver(s, c) ==
  IF s.rec = "none" THEN s
  ELSE LET cur == IF s.swap THEN Flip(s.cur) ELSE s.cur
           n == CountOn(s, c)
           nth == c.undoto # 0 /\ n = c.undoto
       IN [s EXCEPT !.cur = cur, !.rec = "none", !.swap = FALSE,
                    !.valid = TRUE, !.inplace = FALSE, !.npass = n,
                    !.anchorN = IF nth THEN n ELSE @,
                    !.anchorAt = IF nth THEN cur ELSE @]

(* The pass in progress, if any, is dropped: the track is back on what it  *)
(* played.                                                                 *)
PassDrop(s) ==
  IF s.rec = "none" THEN s
  ELSE [s EXCEPT !.cur = IF s.inplace \/ s.swap THEN @ ELSE Flip(@),
                 !.valid = s.inplace, !.rec = "none", !.swap = FALSE,
                 !.inplace = FALSE]

(* Variant: a REPLACE pass that is over leaves its mute.                   *)
ReplaceOffMuted(s) == [s EXCEPT !.repl = FALSE, !.rpass = "none"]

(* A REPLACE pass over before its loop start: its mute undone, or not made.*)
ReplaceOff(s) ==
  [s EXCEPT !.repl = FALSE,
            !.rpass = IF @ = "unmute" THEN "now"
                      ELSE IF @ = "mute" THEN "none" ELSE @]

(* What an armed track becomes as its recorder trig comes.                 *)
Taken(s) ==
  IF s.st # "armed" THEN s
  ELSE IF s.repl
       THEN [s EXCEPT !.repl = FALSE, !.st = "idle", !.has = TRUE,
                      !.rpass = "mute", !.qpend = "none", !.npass = 0,
                      !.anchorN = 0, !.anchorAt = "X"]
       ELSE [s EXCEPT !.st = "overdub", !.has = TRUE]

(* Variant: UNDO TO's loop is recorded over like any other.                *)
IntoOther(s, c, replace) ==
  [s EXCEPT !.rec = Flip(s.cur), !.swap = TRUE, !.valid = FALSE,
            !.inplace = FALSE]

(* The buffer a pass of a track with an UNDO buffer records into: the one  *)
(* not played, or, when that one holds UNDO TO's loop, the one played.     *)
Into(s, c, replace) ==
  IF ~replace /\ c.undoto # 0 /\ s.anchorN = c.undoto /\ s.anchorAt # s.cur
  THEN [s EXCEPT !.rec = s.cur, !.swap = FALSE, !.inplace = TRUE,
                 !.valid = TRUE]
  ELSE [s EXCEPT !.rec = Flip(s.cur), !.swap = TRUE, !.valid = FALSE,
                 !.inplace = FALSE]

(* fl_gate: the track's recorder trig comes.  `fires' is the recorder that *)
(* takes it: X at once, Y by the word handed to it (fl_inject).            *)
Gate(s, c) ==
  LET over == PassOver(s, c)
      replace == over.st = "armed" /\ over.repl
      go == over.st \in {"armed", "overdub"}
      taken == Taken(over)
      next == IF go /\ c.ubuf THEN Into(taken, c, replace) ELSE taken
  IN [s |-> next,
      fires |-> IF ~go THEN "none" ELSE IF c.ubuf THEN next.rec ELSE "X"]

(* The UI has seen the pass's recorder run.                                *)
RecRunning(s) ==
  IF s.swap THEN [s EXCEPT !.swap = FALSE, !.cur = Flip(@)] ELSE s

-----------------------------------------------------------------------------
(* Pedals.  `others' is what the other looping tracks are at: "none", a    *)
(* "loop" on one, or a free "take" in progress.  `fits' tells that the     *)
(* take's length gives a tempo in range.                                   *)

(* A press held from now: what its long press will undo.                   *)
Hold(s, pedal, was, undo, started) ==
  [s EXCEPT !.press = [pedal |-> pedal, was |-> was, undo |-> undo,
                       started |-> started]]

(* The end of the free take, or a refusal: the take goes on.               *)
Launch(s, c, fits) ==
  IF ~fits THEN Result(s, "toast", "none")
  ELSE Result([s EXCEPT !.st = "idle", !.has = TRUE,
                        !.npass = IF c.undoto = 0 THEN 0 ELSE 1,
                        !.anchorN = IF c.undoto = 1 THEN 1 ELSE 0,
                        !.anchorAt = IF c.undoto = 1 THEN s.cur ELSE "X"],
              "launch", "none")

(* fl_rec: a take starts or ends, or the overdub is armed or cut.          *)
RecPress(s, c, playing, slave, others, fits) ==
  IF s.st = "take" THEN Launch(s, c, fits)
  ELSE IF others = "take" THEN Result(s, "toast", "none")
  ELSE IF /\ ~playing /\ c.role = "FREE" /\ s.st = "idle"
          /\ ~s.has /\ others = "none"
  THEN IF slave THEN Result(s, "toast", "none")
       ELSE Result(Hold([s EXCEPT !.st = "take"], "rec", s.st, "none", "take"),
                   "take", "none")
  ELSE IF s.st = "idle"
  THEN Result(Hold([s EXCEPT !.st = "armed"], "rec", s.st, "none", "none"),
              "toast", "none")
  ELSE Result(Hold([s EXCEPT !.st = "idle", !.repl = FALSE],
                   "rec", s.st, "none", "none"), "toast", "none")

(* fl_end: at once, or due at the next loop start, or cancelled.           *)
End(s, playing, muted) ==
  IF ~playing THEN Result(s, "nothing", Toggle(muted))
  ELSE IF s.qpend # "none"
  THEN Result([s EXCEPT !.qpend = "none"], "toast", "none")
  ELSE Result([s EXCEPT !.qpend = Toggle(muted)], "toast", "none")

(* fl_play: the end of the take, PLAY, END, or a mute at the press.        *)
PlayPress(s, c, playing, muted, others, fits) ==
  LET held(started, undo) == Hold(s, "play", "idle", undo, started)
      launch == Launch(s, c, fits)
  IN IF s.st # "take" /\ others = "take" THEN Result(s, "toast", "none")
     ELSE IF s.st = "take"
     THEN Result(Hold(launch.s, "play", "idle", "none",
                      IF launch.do = "launch" THEN "launch" ELSE "none"),
                 launch.do, "none")
     ELSE IF ~playing
     THEN Result(held("play", IF muted THEN "mute" ELSE "none"), "play",
                 IF muted THEN "unmute" ELSE "none")
     ELSE IF c.endmute THEN End(held("end", "none"), playing, muted)
     ELSE Result(held("now", Toggle(~muted)), "nothing", Toggle(muted))

(* Variant: a pass dropped is what REDO would give back.                   *)
UndoKeepsRedo(s, c) ==
  IF ~c.ubuf \/ (s.rec = "none" /\ ~s.valid) THEN Result(s, "toast", "none")
  ELSE IF s.rec # "none"
  THEN Result([PassDrop(s) EXCEPT !.st = "idle", !.valid = TRUE,
                 !.rpass = IF @ = "mute" THEN "none" ELSE @], "cut", "none")
  ELSE Result([s EXCEPT !.cur = Flip(@)], "toast", "none")

(* fl_undo: a pass in place is stopped and the track goes back to UNDO     *)
(* TO's loop; any other pass is dropped; at rest the two loops change      *)
(* places.                                                                 *)
Undo(s, c) ==
  IF ~c.ubuf THEN Result(s, "toast", "none")
  ELSE IF s.rec # "none" /\ s.inplace
  THEN Result([s EXCEPT !.rec = "none", !.inplace = FALSE, !.valid = TRUE,
                        !.cur = Flip(@), !.st = "idle"], "cut", "none")
  ELSE IF s.rec # "none"
  THEN Result([PassDrop(s) EXCEPT !.st = "idle",
                 !.rpass = IF @ = "mute" THEN "none" ELSE @], "cut", "none")
  ELSE IF ~s.valid THEN Result(s, "toast", "none")
  ELSE Result([s EXCEPT !.cur = Flip(@)], "toast", "none")

(* fl_hold: the press has lasted one second.                               *)
LongPress(s, c, playing, muted) ==
  LET p == s.press
      up == [s EXCEPT !.press = NoPress]
  IN IF p.pedal = "play"
     THEN IF p.started # "now" THEN Result(up, "nothing", "none")
          ELSE LET end == End(up, playing, p.undo = "mute")
               IN Result(end.s, end.do, p.undo)
     ELSE IF p.started # "take" /\ playing /\ ~muted
     THEN Undo([up EXCEPT !.st = IF s.rec = "none" THEN p.was ELSE @], c)
     ELSE Result([up EXCEPT !.st = "idle", !.has = FALSE], "clear", "none")

(* fl_release: no long press will come of it.                              *)
Release(s, pedal) ==
  IF s.press.pedal = pedal THEN [s EXCEPT !.press = NoPress] ELSE s

-----------------------------------------------------------------------------
(* Patterns, loop starts, stops and clears *)

(* fl_pattern: the pattern that plays is another; `mode' is its ENTRY.     *)
Pattern(s, mode) ==
  IF s.st = "take" \/ mode = "KEEP" THEN s
  ELSE [s EXCEPT !.repl = (mode = "REPLACE"),
                 !.st = IF mode = "OFF" THEN "idle" ELSE "armed"]

(* fl_loop_start and fl_replace_start: what the track's first step takes,  *)
(* a REPLACE pass's over an END's.                                         *)
LoopStart(s) ==
  LET r == CASE s.rpass = "mute" -> "mute"
             [] s.rpass = "unmute" -> "unmute"
             [] OTHER -> "none"
  IN Result([s EXCEPT !.qpend = "none",
                      !.rpass = CASE @ = "mute" -> "unmute"
                                  [] @ = "unmute" -> "none"
                                  [] OTHER -> @],
            "nothing", IF r # "none" THEN r ELSE s.qpend)

(* Variant: the unmute of a REPLACE pass is forgotten.                     *)
EndOnly(s) == s.qpend # "none"

(* fl_end_pending: the step handler has something to do at a loop start.   *)
EndPending(s) == s.qpend # "none" \/ s.rpass \in {"mute", "unmute"}

(* Variant: a STOP leaves a pending END.                                   *)
StoppedKeepsEnd(s) ==
  PassDrop(ReplaceOff([s EXCEPT
    !.st = IF @ \in {"armed", "overdub"} THEN "idle" ELSE @]))

(* fl_stopped: disarmed, the pass in progress dropped.                     *)
Stopped(s) ==
  PassDrop(ReplaceOff([s EXCEPT
    !.st = IF @ \in {"armed", "overdub"} THEN "idle" ELSE @,
    !.qpend = "none"]))

(* fl_cleared: the track's buffers have been emptied.                      *)
Cleared(s) ==
  ReplaceOff([s EXCEPT !.has = FALSE, !.cur = "X", !.rec = "none",
                       !.swap = FALSE, !.valid = FALSE, !.npass = 0,
                       !.anchorN = 0, !.anchorAt = "X", !.inplace = FALSE])

(* fl_reset: the CLEAR ALL and a bank change.                              *)
Reset(s) ==
  Cleared([s EXCEPT !.st = "idle", !.press = NoPress, !.qpend = "none"])
=============================================================================
