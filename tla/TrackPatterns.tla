---------------------------- MODULE TrackPatterns ----------------------------
(***************************************************************************)
(* TRACK PATTERNS (modules/trackpatterns): the engine of trackpattern.c    *)
(* and its glue (adapter.c, hooks.s), called by the frame interrupt, which *)
(* may come between any two steps of the UI task, and by the UI task: the  *)
(* key gesture, the LED pass and the rebuild of the prepared steps.        *)
(*                                                                         *)
(* The sequencer is stock's: it gives every track a step, then advances    *)
(* the tracks' counters, all back to 0 at the MASTER LENGTH.  A change of  *)
(* the global pattern chosen while it plays takes place there; the step    *)
(* given just before it is already a step of the next pattern.             *)
(***************************************************************************)
EXTENDS Integers

CONSTANTS
  Tracks,      \* 0..15 on the unit
  NPatterns,   \* TP_PATTERNS, of a bank
  Ids,         \* the <<bank, pattern>> that play as the global pattern
  Length,      \* <<pattern, track>> -> its length in that pattern, maybe 0
  Master,      \* pattern -> the MASTER LENGTH, the pattern length if NORMAL
  Keys         \* the <<track, pattern>> the gestures ask for

TP_TO_FOLLOW == 255
Patterns == 0 .. NPatterns - 1
Steps == Nat \X Patterns
NoId == <<0, NPatterns>>

ASSUME CountsAssumption == NPatterns \in 1 .. 16
ASSUME IdsAssumption == Ids \subseteq Steps
ASSUME LengthAssumption == Length \in [Patterns \X Tracks -> Nat]
ASSUME MasterAssumption == Master \in [Patterns -> Nat \ {0}]
ASSUME KeysAssumption == Keys \subseteq Tracks \X Patterns

VARIABLES
  tp,        \* TpState
  id,        \* the playing bank and pattern
  pend,      \* the pattern chosen to play next, or NoId
  playing,
  pos,       \* the step of the pattern, counted to the MASTER LENGTH
  counter,   \* track -> its step, 0x800064d0
  across,    \* the step just given belongs to pend
  ui,        \* the UI task within the gesture or the LED pass
  heard,     \* track -> the <<bank, pattern>> of the last step it was given
  told,      \* history: track -> the change its last toast named, as src
  ready      \* history: track -> what the rebuild prepared for the next step

stock == <<id, pend, playing, pos, counter, across>>
vars == <<tp, stock, ui, heard, told, ready>>

Idle == [at |-> "idle"]
Zero == [t \in Tracks |-> 0]
NoSteps == [t \in Tracks |-> NoId]

-----------------------------------------------------------------------------
(* The engine *)

(* What a queued code makes a track's src.                                 *)
Landed(code) == IF code = TP_TO_FOLLOW THEN 0 ELSE code

(* tp_pattern.                                                             *)
Pattern(s, t, global) == IF s.src[t] # 0 THEN s.src[t] - 1 ELSE global

(* Variant: a bank change to the same pattern number is not a change.      *)
GlobalByNumber(s, now) ==
  IF s.seen /\ s.global[2] # now[2]
  THEN [s EXCEPT !.src = Zero, !.next = Zero, !.global = now]
  ELSE [s EXCEPT !.seen = TRUE, !.global = now]

(* tp_global: a change of the global pattern clears every override.        *)
Cleared(s, now) == s.seen /\ s.global # now
Global(s, now) ==
  IF Cleared(s, now)
  THEN [s EXCEPT !.src = Zero, !.next = Zero, !.global = now]
  ELSE [s EXCEPT !.seen = TRUE, !.global = now]

(* tp_queue, in the two halves the interrupt may come between: the code,   *)
(* and the write, with what src was when it was read.                      *)
Code(pattern, global) ==
  IF pattern = global THEN TP_TO_FOLLOW ELSE pattern + 1
Queued(s, t, code, src, runs) ==
  IF ~runs
  THEN [s EXCEPT !.src[t] = Landed(code), !.next[t] = 0]
  ELSE [s EXCEPT !.next[t] = IF Landed(code) = src THEN 0 ELSE code]

(* Variant: a queued change lands at the next step.                        *)
WrapsAlways(s, t, raw) == TRUE

(* Variant: the step a track is given again is no loop start.              *)
WrapsBackOnly(s, t, raw) == ~s.started[t] \/ raw < s.last[t]

(* tp_step: is the track at its loop start, and what landing does.         *)
Wraps(s, t, raw) == ~s.started[t] \/ raw <= s.last[t]
Lands(s, raw) == {t \in Tracks : Wraps(s, t, raw[t]) /\ s.next[t] # 0}
Stepped(s, raw) ==
  [s EXCEPT !.src = [t \in Tracks |-> IF t \in Lands(s, raw)
                                      THEN Landed(s.next[t]) ELSE s.src[t]],
            !.next = [t \in Tracks |-> IF t \in Lands(s, raw)
                                       THEN 0 ELSE s.next[t]],
            !.started = [t \in Tracks |-> TRUE],
            !.last = raw]

(* Variant: the look-ahead takes a queued change for landed.               *)
PeekQueued(s, t, raw, global) ==
  IF s.next[t] # 0
  THEN IF Landed(s.next[t]) # 0 THEN Landed(s.next[t]) - 1 ELSE global
  ELSE Pattern(s, t, global)

(* tp_peek, as hooks.s calls it: len is not known there.                   *)
Peek(s, t, raw, global) ==
  IF Wraps(s, t, raw) /\ s.next[t] # 0
  THEN IF Landed(s.next[t]) # 0 THEN Landed(s.next[t]) - 1 ELSE global
  ELSE Pattern(s, t, global)

(* Variant: the toast names the code the key asked for.                    *)
LabelAsked(s, t, code) == Landed(code)

(* tp_label reads the state again: what the toast names, as src.           *)
Label(s, t, code) == IF s.next[t] # 0 THEN Landed(s.next[t]) ELSE s.src[t]

-----------------------------------------------------------------------------
(* The glue *)

(* tp_track_length: the length the advance compares the counter with.      *)
TrackLength(s, t) ==
  LET len == Length[Pattern(s, t, id[2]), t]
  IN IF len # 0 THEN len ELSE Length[id[2], t]

(* tp_seq_pattern, once its tp_step has left s: the step handler's bank    *)
(* and pattern, stock's choice being chosen.                               *)
Given(s, t, chosen) ==
  IF chosen = id THEN <<id[1], Pattern(s, t, id[2])>> ELSE chosen

(* tp_peek_pattern for the playing pattern.                                *)
PeekPattern(s, t) ==
  <<id[1], IF playing THEN Peek(s, t, counter[t], id[2])
           ELSE Pattern(s, t, id[2])>>

(* What the rebuild leaves prepared while the sequencer plays.             *)
Rebuilt(s) ==
  [t \in Tracks |-> IF playing THEN PeekPattern(s, t) ELSE NoId]

-----------------------------------------------------------------------------
Init ==
  /\ tp = [src |-> Zero, next |-> Zero, last |-> Zero,
           started |-> [t \in Tracks |-> FALSE],
           global |-> NoId, seen |-> FALSE]
  /\ id \in Ids /\ pend = NoId
  /\ playing = FALSE /\ pos = 0 /\ counter = Zero /\ across = FALSE
  /\ ui = Idle
  /\ heard = NoSteps
  /\ told = Zero /\ ready = NoSteps

(* One of these comes between the steps of a gesture or a LED pass, which  *)
(* take well under the time of a step; the UI task finds the unit changed  *)
(* when it goes on.                                                        *)
Between ==
  /\ ui # Idle => ui.calm
  /\ ui' = IF ui = Idle THEN ui ELSE [ui EXCEPT !.calm = FALSE]

(* A toast's word holds until a global change is seen.                     *)
ToldAfter(now) == IF Cleared(tp, now) THEN Zero ELSE told

(* The frame interrupt at a step: every track is given it, then advances.  *)
Tick ==
  LET chosen == IF pos = 0 /\ pend # NoId THEN pend ELSE id
      s == Stepped(Global(tp, id), counter)
      over == pos + 1 >= Master[id[2]]
  IN /\ playing /\ ~across
     /\ tp' = s
     /\ heard' = [t \in Tracks |-> Given(s, t, chosen)]
     /\ counter' = [t \in Tracks |->
                      IF ~over /\ TrackLength(s, t) > counter[t] + 1
                      THEN counter[t] + 1 ELSE 0]
     /\ pos' = IF over THEN 0 ELSE pos + 1
     /\ across' = (chosen # id)
     /\ Between /\ told' = ToldAfter(id) /\ ready' = NoSteps
     /\ UNCHANGED <<id, pend, playing>>

(* The global pattern chosen takes over.                                   *)
ChangeLands ==
  /\ across
  /\ id' = pend /\ pend' = NoId /\ across' = FALSE
  /\ ready' = NoSteps
  /\ UNCHANGED <<tp, playing, pos, counter, ui, heard, told>>

(* A pattern is selected or chained (a key, the arranger, a program        *)
(* change).  While stopped it plays at once: the LED pass has seen the     *)
(* one before.                                                             *)
Choose ==
  \E new \in Ids \ {id} :
    /\ ~across
    /\ IF playing THEN pend' = new /\ id' = id
       ELSE pend' = NoId /\ id' = new /\ (tp.seen => tp.global = id)
    /\ Between /\ ready' = NoSteps
    /\ UNCHANGED <<tp, playing, pos, counter, across, heard, told>>

(* PLAY, or an external start: every counter is back at 0.                 *)
Start ==
  /\ ~playing
  /\ playing' = TRUE
  /\ Between /\ ready' = NoSteps
  /\ UNCHANGED <<tp, id, pend, pos, counter, across, heard, told>>

(* STOP.  A pattern chosen and not landed plays at once.                   *)
Stop ==
  /\ playing /\ ~across
  /\ playing' = FALSE /\ pos' = 0 /\ counter' = Zero
  /\ pend' = NoId
  /\ IF pend \in {NoId, id} THEN id' = id
     ELSE id' = pend /\ (tp.seen => tp.global = id)
  /\ heard' = NoSteps
  /\ Between /\ ready' = NoSteps
  /\ UNCHANGED <<tp, across, told>>

-----------------------------------------------------------------------------
(* The UI task *)

(* tp_gesture, from the trig with a TRACK key held: tp_key begins, and     *)
(* tp_sync has read the playing pattern.                                   *)
Gesture ==
  /\ ui = Idle
  /\ \E k \in Keys :
       ui' = [at |-> "sync", track |-> k[1], pattern |-> k[2],
              id |-> id, calm |-> TRUE]
  /\ UNCHANGED <<tp, stock, heard, told, ready>>

(* tp_leds: it only follows the global pattern.                            *)
LedPass ==
  /\ ui = Idle
  /\ ui' = [at |-> "leds", id |-> id, calm |-> TRUE]
  /\ UNCHANGED <<tp, stock, heard, told, ready>>

(* tp_global with the pattern read before.                                 *)
Sync ==
  /\ ui.at \in {"sync", "leds"}
  /\ tp' = Global(tp, ui.id) /\ told' = ToldAfter(ui.id)
  /\ ui' = IF ui.at = "leds" THEN Idle ELSE [ui EXCEPT !.at = "queue"]
  /\ UNCHANGED <<stock, heard, ready>>

(* tp_queue up to its test.                                                *)
Queue ==
  /\ ui.at = "queue"
  /\ ui' = [at |-> "write", track |-> ui.track, calm |-> ui.calm,
            code |-> Code(ui.pattern, ui.id[2]),
            src |-> tp.src[ui.track], runs |-> playing]
  /\ UNCHANGED <<tp, stock, heard, told, ready>>

(* Its write.  One meant for a stopped track is no part of a pass.         *)
Write ==
  /\ ui.at = "write"
  /\ tp' = Queued(tp, ui.track, ui.code, ui.src, ui.runs)
  /\ heard' = IF ui.runs THEN heard ELSE [heard EXCEPT ![ui.track] = NoId]
  /\ ready' = [ready EXCEPT ![ui.track] = NoId]
  /\ ui' = [at |-> "label", track |-> ui.track, calm |-> ui.calm,
            code |-> ui.code]
  /\ UNCHANGED <<stock, told>>

(* The toast, then the rebuild of every track's prepared step.             *)
Toast ==
  /\ ui.at = "label"
  /\ tp' = Global(tp, id)
  /\ told' = IF Cleared(tp, id) THEN Zero
             ELSE [told EXCEPT ![ui.track] = Label(tp, ui.track, ui.code)]
  /\ ready' = Rebuilt(tp')
  /\ ui' = Idle
  /\ UNCHANGED <<stock, heard>>

(* The rebuild after an edit.                                              *)
Rebuild ==
  /\ ui = Idle
  /\ tp' = Global(tp, id) /\ told' = ToldAfter(id)
  /\ ready' = Rebuilt(tp')
  /\ UNCHANGED <<stock, ui, heard>>

-----------------------------------------------------------------------------
Next ==
  \/ Tick \/ ChangeLands \/ Choose \/ Start \/ Stop
  \/ Gesture \/ LedPass \/ Sync \/ Queue \/ Write \/ Toast \/ Rebuild

(* The frame interrupt keeps coming while the sequencer plays, and the UI  *)
(* task is not held up.                                                    *)
GoesOn == Sync \/ Queue \/ Write \/ Toast

Fairness == SF_vars(Tick) /\ WF_vars(ChangeLands) /\ WF_vars(GoesOn)

TpSpec == Init /\ [][Next]_vars /\ Fairness

-----------------------------------------------------------------------------
(* Properties *)

Codes == 0 .. NPatterns
TpStates ==
  [src : [Tracks -> Codes], next : [Tracks -> Codes \cup {TP_TO_FOLLOW}],
   last : [Tracks -> Nat], started : [Tracks -> BOOLEAN],
   global : Ids \cup {NoId}, seen : BOOLEAN]
UiStates ==
  {Idle} \cup [at : {"leds"}, id : Ids, calm : BOOLEAN]
  \cup [at : {"sync", "queue"}, track : Tracks, pattern : Patterns, id : Ids,
        calm : BOOLEAN]
  \cup [at : {"write"}, track : Tracks, calm : BOOLEAN,
        code : 1 .. NPatterns \cup {TP_TO_FOLLOW}, src : Codes,
        runs : BOOLEAN]
  \cup [at : {"label"}, track : Tracks, calm : BOOLEAN,
        code : 1 .. NPatterns \cup {TP_TO_FOLLOW}]

(* Every variable has its type: a track's src and next are codes of the    *)
(* bank's patterns, and a step is given from a pattern there is.           *)
TpTypeOK ==
  /\ tp \in TpStates /\ ui \in UiStates
  /\ id \in Ids /\ pend \in Ids \cup {NoId}
  /\ playing \in BOOLEAN /\ across \in BOOLEAN
  /\ pos \in Nat /\ counter \in [Tracks -> Nat]
  /\ across => pend # NoId
  /\ heard \in [Tracks -> Steps \cup {NoId}]
  /\ ready \in [Tracks -> Steps \cup {NoId}]
  /\ told \in [Tracks -> Codes]

(* What a track plays from its next pass on, as src.                       *)
Wants(t) == IF tp.next[t] # 0 THEN Landed(tp.next[t]) ELSE tp.src[t]

(* The last toast for a track stays true until a global change is seen,    *)
(* wherever in the gesture the interrupt landed a change or changed the    *)
(* pattern; and a gesture no interrupt came into names what was asked.     *)
ToastIsKept ==
  /\ \A t \in Tracks :
       (ui.at = "label" => ui.track # t) => Wants(t) = told[t]
  /\ ui.at = "label" /\ ui.calm => Wants(ui.track) = Landed(ui.code)

(* Within a pass of its loop a track reads one pattern: whatever is asked  *)
(* for, withdrawn or cleared while it plays, what it is given changes only *)
(* at its own loop start.  (A press that found the sequencer stopped, just *)
(* before an external start, is the exception.)                            *)
PassKeepsItsPattern ==
  [][\A t \in Tracks : heard[t] # NoId /\ heard'[t] \notin {heard[t], NoId}
                       => counter[t] = 0]_vars

(* The rebuild prepares the pattern the step is then given from, unless    *)
(* the state changes first.                                                *)
RebuildAgrees ==
  [][\A t \in Tracks : Tick /\ ~across' /\ ready[t] # NoId
                       => heard'[t] = ready[t]]_vars

(* The engine implements the tracks' clips: an override the engine has not *)
(* yet seen a global change for counts as cleared.                         *)
Unseen == tp.seen /\ tp.global # id
Chosen(src) == IF Unseen \/ src = 0 THEN NPatterns ELSE src - 1
Clips == INSTANCE PatternClips WITH
  Follow <- NPatterns, Silent <- NoId, global <- id,
  plays <- [t \in Tracks |-> Chosen(tp.src[t])],
  wants <- [t \in Tracks |-> Chosen(Wants(t))]
ClipsSpec == Clips!ClipsSpec

(* A queued change lands if the sequencer keeps playing.                   *)
QueuedLands ==
  \A t \in Tracks :
    (playing /\ tp.next[t] # 0) ~> (~playing \/ tp.next[t] = 0)

(* Why it does: a step of the sequencer that leaves a change queued was    *)
(* not the track's loop start and brings it nearer, at most the rest of    *)
(* the MASTER LENGTH away, and no gesture, rebuild or STOP puts it off     *)
(* (trackpattern.c:46-57).                                                 *)
ToLoopStart(t) ==
  IF counter[t] = 0 THEN 0
  ELSE IF pos < Master[id[2]] THEN Master[id[2]] - pos ELSE 1
NearsLoopStart ==
  [][\A t \in Tracks :
       IF Tick THEN tp'.next[t] # 0 => ToLoopStart(t)' < ToLoopStart(t)
       ELSE UNCHANGED id => ToLoopStart(t)' <= ToLoopStart(t)]_vars
=============================================================================
