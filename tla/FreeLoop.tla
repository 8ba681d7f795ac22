------------------------------ MODULE FreeLoop ------------------------------
(***************************************************************************)
(* FREE LOOP at work on one looping track (modules/free-loop/adapter.c and *)
(* hooks.s): the engine called by the MIDI thread (the pedals), by the UI  *)
(* tick and by the step handler, beside the parts of the unit they drive:  *)
(* two recorders with their buffers, the track's Flex slot, its voice and  *)
(* its mute.                                                               *)
(*                                                                         *)
(* The step handler prepares each step while the step before it sounds, so *)
(* a recorder its gate lets through starts one step later.  A recorder     *)
(* told to stop is done a fade-out later.  A voice takes the slot its      *)
(* trig finds at the loop's first step and keeps it for the whole loop.    *)
(***************************************************************************)
EXTENDS LoopEngine

CONSTANTS
  Settings,    \* the settings examined, [c, pedals, slow, under]
  L,           \* steps of the loop
  StepTicks,   \* UI ticks during a slow step, at most
  AuthTicks,   \* FL_AUTH_TICKS
  Contents,    \* what a recording may leave in a buffer
  Empty,       \* what a buffer holds once cleared
  Nothing,     \* no loop to go back to
  Early,       \* UNDO and clears also overtake a start that is prepared
  Chained      \* a REPLACE pattern also follows a REPLACE pass

ASSUME LoopAssumption == L \in Nat \ {0, 1}
ASSUME TicksAssumption ==
  AuthTicks \in Nat \ {0} /\ StepTicks \in Nat /\ StepTicks >= AuthTicks
ASSUME EarlyAssumption == {Early, Chained} \subseteq BOOLEAN
ASSUME ContentsAssumption ==
  Empty \notin Contents /\ Nothing \notin Contents \cup {Empty}
ASSUME FreshAssumption ==
  \A h, i, j \in Contents \cup {Empty} : \E k \in Contents : k \notin {h, i, j}

(* Of a setting: c, the track's own; the pedals and patterns in use; slow, *)
(* steps may outlast the stray guard's count; under, a clear may come under*)
(* a recorder it does not wait for.                                        *)
ASSUME SettingsAssumption ==
  \A x \in Settings : x.c \in Configs /\ {x.slow, x.under} \subseteq BOOLEAN

VARIABLES
  cfg,       \* the setting
  fl,        \* FlState
  clr,       \* fl_clear: 0; 1 asked; 2 its recorders told to stop
  clrall,    \* "asked", fl_clear_all; "bank", SEQ_BANK is another; "no"
  was,       \* fl_playing_was
  ui,        \* the UI tick under way: "idle", or the `run' it has read
  auth,      \* fl_auth of the track's own recorder
  newtake,   \* fl_takes is not what the guard last saw
  qany,      \* fl_qany
  playing, pos, tick,  \* the transport; the step; UI ticks since it began
  due,       \* the recorder start prepared for the coming loop start
  run,       \* recorder -> what it does
  buf,       \* buffer -> what it holds
  lane,      \* the buffer in the track's Flex slot
  voice,     \* the buffer its voice plays
  muted,     \* who muted the track
  entry,     \* a pattern's ENTRY the UI has not seen
  nth,       \* history: what UNDO TO's buffer held when it was marked
  late,      \* history: X starts, or runs, out of the stray guard's time
  uncut      \* history: the recorders a clear has not waited for

engine == <<fl, clr, clrall, was, ui, auth, newtake, qany>>
unit == <<playing, pos, tick, due, run, buf, lane, voice, muted>>
history == <<nth, late, uncut>>
vars == <<cfg, engine, unit, entry, history>>

Kinds == {"off", "pass", "inplace", "take", "ending"}
NoDue == [rec |-> "none", kind |-> "off"]
Dues == {NoDue} \cup [rec : Buffers, kind : {"pass", "inplace"}]

(* fl_auth's marks, above every count.                                     *)
AuthKeep == AuthTicks + 1
AuthStray == AuthTicks + 2
AuthRun == AuthTicks + 3

c == cfg.c
Muted == muted # "no"
Recording(r) == run[r] # "off"
Pass(r) == run[r] \in {"pass", "inplace"}
Quiet == \A r \in Buffers : ~Recording(r)

(* Contents are named again once nothing holds them.                       *)
Fresh == CHOOSE k \in Contents : k \notin {buf["X"], buf["Y"], nth}

(* How a mute changes who mutes the track.                                 *)
MuteBy(how, who, now) == CASE how = "mute" -> who
                           [] how = "unmute" -> "no"
                           [] OTHER -> now

(* The recorders once r has been told to stop; only a running one is.      *)
StopRecorder(r, runs) ==
  IF runs[r] = "off" THEN runs ELSE [runs EXCEPT ![r] = "ending"]

(* What the recorders that end leave: a buffer emptied under one is        *)
(* written again.                                                          *)
Leave(ends) ==
  [r \in Buffers |-> IF r \in ends /\ buf[r] = Empty THEN Fresh ELSE buf[r]]

(* What UNDO TO's buffer held when it was marked, the engine now in s.     *)
Marked(s) ==
  IF s.anchorN = 0 THEN Empty
  ELSE IF <<s.anchorN, s.anchorAt>> = <<fl.anchorN, fl.anchorAt>> THEN nth
  ELSE buf[s.anchorAt]

-----------------------------------------------------------------------------
Init ==
  /\ cfg \in Settings
  /\ fl = Zeroed
  /\ clr = 0 /\ clrall = "no" /\ was = FALSE /\ ui = "idle"
  /\ auth = 0 /\ newtake = FALSE /\ qany = FALSE
  /\ playing = FALSE /\ pos = 0 /\ tick = 0 /\ due = NoDue
  /\ run = [r \in Buffers |-> "off"]
  /\ buf = [r \in Buffers |-> Empty]
  /\ lane = "X" /\ voice = "X" /\ muted = "no"
  /\ entry = "none" /\ nth = Empty /\ late = FALSE /\ uncut = {}

-----------------------------------------------------------------------------
(* The step handler *)

(* A clear the UI tick has yet to carry out.                               *)
ClearDue == clr # 0 \/ clrall # "no"

(* The UI tick has seen the end of the recording the mark tells of.        *)
EndSeen == auth >= AuthKeep => auth = AuthRun /\ Recording("X")

(* The UI ticks begun since the step began.                                *)
Ticks == IF ui = "idle" THEN tick ELSE tick + 1

(* fl_gate_track on the first step's recorder trig, from engine state s:   *)
(* the start is prepared; END and REPLACE wake fl_step_track.              *)
Prepare(s, q) ==
  LET g == Gate(s, c)
      kind == IF c.ubuf /\ ~g.s.inplace THEN "pass" ELSE "inplace"
  IN /\ Early \/ ~ClearDue
     /\ fl' = g.s
     /\ late' = IF g.fires = "X" THEN ~EndSeen ELSE late
     /\ cfg.slow \/ ~late'
     /\ due' = IF g.fires = "none" THEN NoDue
               ELSE [rec |-> g.fires, kind |-> kind]
     /\ newtake' = (newtake \/ g.fires = "X")
     /\ qany' = (q \/ g.s.rpass = "mute")
     /\ nth' = Marked(g.s)
     /\ uncut' = uncut

(* fl_step_track, preparing the second step as the first one sounds.       *)
Toggles ==
  IF qany
  THEN LET r == LoopStart(fl)
       IN /\ fl' = r.s
          /\ qany' = EndPending(r.s)
          /\ muted' = MuteBy(r.mute,
                             IF fl.rpass = "mute" THEN "replace" ELSE "user",
                             muted)
  ELSE UNCHANGED <<fl, qany, muted>>

(* The first step sounds: the passes of the loop before end, the start     *)
(* prepared is made, and the trig takes the slot.                          *)
LoopBegins ==
  LET ends == {r \in Buffers : Pass(r) /\ due.rec # r}
  IN /\ run' = [r \in Buffers |-> CASE r = due.rec -> due.kind
                                     [] r \in ends -> "off"
                                     [] OTHER -> run[r]]
     /\ buf' = [r \in Buffers |-> IF r = due.rec THEN Fresh
                                  ELSE Leave(ends)[r]]
     /\ voice' = lane
     /\ due' = NoDue
     /\ late' = (late \/ (due.rec = "X" /\ Ticks >= AuthTicks))
     /\ cfg.slow \/ ~late'
     /\ Toggles
     /\ uncut' = uncut \ (ends \cup {due.rec})
     /\ UNCHANGED <<newtake, nth>>

(* A step: the UI tick runs at least once between two steps, and recorders *)
(* told to stop are done by the next.                                      *)
SeqStep ==
  /\ playing /\ tick > 0
  /\ \A r \in Buffers : run[r] # "ending"
  /\ pos' = IF pos = L THEN 1 ELSE pos + 1
  /\ tick' = 0
  /\ IF pos' = 1 THEN LoopBegins
     ELSE IF pos' = L
     THEN Prepare(fl, qany) /\ UNCHANGED <<run, buf, voice, muted>>
     ELSE UNCHANGED <<fl, qany, newtake, due, run, buf, voice, muted, history>>
  /\ UNCHANGED <<cfg, clr, clrall, was, ui, auth, playing, lane, entry>>

(* A recorder told to stop is done; without the sequencer, a pass's length *)
(* runs out all the same.                                                  *)
RecorderDone(r) ==
  /\ run[r] = "ending" \/ (Pass(r) /\ ~playing)
  /\ run' = [run EXCEPT ![r] = "off"]
  /\ buf' = Leave({r})
  /\ uncut' = uncut \ {r}
  /\ UNCHANGED <<cfg, engine, playing, pos, tick, due, lane, voice, muted,
                 entry, nth, late>>

-----------------------------------------------------------------------------
(* The transport *)

(* The UI tick has seen the transport as it is.                            *)
Seen == was = playing

(* It has seen a stop too, and what recorded then is done.                 *)
Settled ==
  /\ Seen /\ EndSeen
  /\ \A r \in Buffers : run[r] \in {"off", "take"}

(* The sequencer starts, with the engine in state s: the first step is     *)
(* prepared at once.                                                       *)
Starts(s, q) ==
  /\ playing' = TRUE /\ pos' = 0 /\ tick' = 0
  /\ Prepare(s, q)

Start ==
  /\ ~playing /\ Settled
  /\ Starts(fl, qany)
  /\ UNCHANGED <<cfg, clr, clrall, was, ui, auth, run, buf, lane, voice,
                 muted, entry>>

Stop ==
  /\ playing /\ Seen
  /\ playing' = FALSE /\ pos' = 0 /\ tick' = 0 /\ due' = NoDue
  /\ UNCHANGED <<cfg, engine, run, buf, lane, voice, muted, entry, history>>

-----------------------------------------------------------------------------
(* The pedals: the MIDI thread, CC 90 to 93 *)

Pedal(p) == p \in cfg.pedals

(* No start is prepared.                                                   *)
Calm == Early \/ due = NoDue

(* mute: a CC 49 on the track's channel, if it has one.                    *)
CcMute(how) == IF c.chan THEN MuteBy(how, "user", muted) ELSE muted

(* perform: what the engine asked for.  A pedal then works out fl_qany and *)
(* stores it (adapter.c:427, 435), here in the same step.                  *)
Perform(r, q) ==
  /\ muted' = CcMute(r.mute)
  /\ CASE r.do = "take" ->
            /\ run' = [run EXCEPT !["X"] = "take"]
            /\ buf' = [buf EXCEPT !["X"] = Fresh]
            /\ fl' = r.s /\ qany' = q
            /\ UNCHANGED <<playing, pos, tick, due, newtake, history>>
       [] r.do = "launch" ->
            /\ run' = StopRecorder("X", run)
            /\ Starts(r.s, q)
            /\ UNCHANGED buf
       [] r.do = "play" -> Starts(r.s, q) /\ UNCHANGED <<run, buf>>
       [] OTHER ->
            /\ run' = IF r.do = "cut" THEN StopRecorder(PassRecorder(fl), run)
                      ELSE run
            /\ fl' = r.s /\ qany' = q
            /\ UNCHANGED <<playing, pos, tick, due, newtake, buf, history>>
  /\ UNCHANGED <<cfg, clr, clrall, was, ui, auth, lane, voice, entry>>

Others == {"none", "loop", "take"}

(* One take at a time; one that gives a tempo has lasted many UI ticks.    *)
Lasts(fits, others) ==
  /\ others = "take" => fl.st # "take"
  /\ fits => auth = AuthRun

(* The UI tick has told whether the track has a loop since the last press. *)
Refreshed == ui = "idle" /\ fl.has = (buf[fl.cur] # Empty)

RecDown ==
  /\ Pedal("REC")
  /\ fl.press.pedal # "rec"
  /\ \E slave, fits \in BOOLEAN, others \in Others :
       /\ Lasts(fits, others)
       /\ LET r == RecPress(fl, c, playing, slave, others, fits)
          IN /\ r.do \in {"take", "launch"} => Settled
             /\ r.do = "take" => Refreshed /\ (Early \/ ~ClearDue)
             /\ Perform(r, qany)

PlayDown ==
  /\ Pedal("PLAY")
  /\ fl.press.pedal # "play"
  /\ \E fits \in BOOLEAN, others \in Others :
       /\ Lasts(fits, others)
       /\ LET r == PlayPress(fl, c, playing, Muted, others, fits)
          IN /\ r.do \in {"play", "launch"} => Settled
             /\ Perform(r, EndPending(r.s))

UndoDown ==
  /\ Pedal("UNDO") /\ Calm
  /\ Perform(Undo(fl, c), qany)

EndDown ==
  /\ Pedal("END")
  /\ LET r == End(fl, playing, Muted)
     IN Perform(r, EndPending(r.s))

PedalUp ==
  /\ fl.press.pedal # "none"
  /\ fl' = Release(fl, fl.press.pedal)
  /\ UNCHANGED <<cfg, clr, clrall, was, ui, auth, newtake, qany, unit, entry,
                 history>>

(* Another pattern, whose ENTRY is `mode'; the UI tick sees one at a time. *)
Lands(mode) ==
  /\ entry = "none" /\ entry' = mode
  /\ mode = "REPLACE" => Chained \/ (fl.rpass = "none" /\ ~fl.repl)

Entries == cfg.pedals \cap {"ARM", "OFF", "REPLACE"}

PatternLands ==
  /\ \E mode \in Entries : Lands(mode)
  /\ UNCHANGED <<cfg, engine, unit, history>>

(* CC 84: the UI tick is asked to clear everything.                        *)
ClearAll ==
  /\ Pedal("CLEAR ALL") /\ ~playing
  /\ cfg.under \/ Quiet
  /\ clrall' = "asked"
  /\ UNCHANGED <<cfg, fl, clr, was, ui, auth, newtake, qany, unit, entry,
                 history>>

(* A pattern of another bank: the UI tick that sees it clears everything.  *)
BankLands ==
  /\ Pedal("BANK") /\ playing /\ Calm
  /\ cfg.under \/ Quiet
  /\ clrall' = IF clrall = "no" THEN "bank" ELSE clrall
  /\ \E mode \in Entries \cup {"none"} : Lands(mode)
  /\ UNCHANGED <<cfg, fl, clr, was, ui, auth, newtake, qany, unit, history>>

-----------------------------------------------------------------------------
(* The UI tick *)

(* Variant: only a free take counts.                                       *)
CountedTakes ==
  IF fl.st = "take" /\ auth < AuthKeep THEN AuthTicks ELSE auth

(* The ticks left for a recording to start; a new one let through gives it *)
(* FL_AUTH_TICKS.                                                          *)
Counted ==
  IF (newtake \/ fl.st = "take") /\ auth < AuthKeep THEN AuthTicks ELSE auth

(* stray_guard on the track's own recorder: a recording that nothing let   *)
(* start is told to stop, and a loop it began is lost.                     *)
StrayGuard(runs) ==
  LET on == runs["X"] # "off"
      stray == on /\ Counted = 0
  IN [auth |-> IF on THEN CASE Counted = 0 -> IF fl.has THEN AuthKeep
                                              ELSE AuthStray
                            [] Counted < AuthKeep -> AuthRun
                            [] OTHER -> Counted
               ELSE IF Counted >= AuthKeep \/ Counted = 0 THEN 0
               ELSE Counted - 1,
      runs |-> IF stray THEN StopRecorder("X", runs) ELSE runs,
      lost |-> ~on /\ Counted = AuthStray]

(* Up to the tracks: a stop seen, the stray guard, a clear of everything,  *)
(* the pattern.                                                            *)
UiHead ==
  /\ ui = "idle"
  /\ playing => \/ tick < IF cfg.slow THEN StepTicks ELSE AuthTicks - 1
                \/ due.rec # "X" /\ (ClearDue \/ ~EndSeen)
  /\ LET stopped == was /\ ~playing
         all == clrall = "asked" \/ (clrall = "bank" /\ playing)
         runs == IF stopped /\ fl.rec # "none"
                 THEN StopRecorder(PassRecorder(fl), run) ELSE run
         s == IF stopped THEN Stopped(fl) ELSE fl
         guard == StrayGuard(runs)
         kept == IF guard.lost THEN [s EXCEPT !.has = FALSE] ELSE s
         cleared == IF all THEN Reset(kept) ELSE kept
         armed == IF playing /\ entry # "none" THEN Pattern(cleared, entry)
                  ELSE cleared
     IN /\ fl' = armed
        /\ run' = IF all /\ kept.st = "take"
                  THEN StopRecorder("X", guard.runs) ELSE guard.runs
        /\ buf' = [r \in Buffers |->
                     IF all \/ (guard.lost /\ r = "X") THEN Empty ELSE buf[r]]
        /\ auth' = guard.auth
        /\ qany' = (qany /\ ~stopped)
        /\ nth' = Marked(armed)
        /\ uncut' = IF all THEN {r \in Buffers : Recording(r)} ELSE uncut
  /\ newtake' = FALSE /\ clrall' = "no" /\ was' = playing
  /\ entry' = IF playing THEN "none" ELSE entry
  /\ ui' = IF playing THEN "run" ELSE "stopped"
  /\ UNCHANGED <<cfg, clr, playing, pos, tick, due, lane, voice, muted, late>>

(* Variant: the buffers are emptied as the clear is asked.                 *)
ClearingAtOnce(asked, s, runs) ==
  [done |-> asked # 0, clr |-> 0,
   runs |-> IF asked = 1
            THEN StopRecorder("X", StopRecorder(PassRecorder(s), runs))
            ELSE runs]

(* A clear of the track's loop, with the engine in state s: its recorders  *)
(* are told to stop, its buffers emptied once none of them runs.           *)
Clearing(asked, s, runs) ==
  LET p == PassRecorder(s)
      busy == runs[p] # "off" \/ runs["X"] # "off"
  IN [done |-> asked # 0 /\ ~busy,
      clr |-> IF asked # 0 /\ busy THEN 2 ELSE 0,
      runs |-> IF asked = 1 THEN StopRecorder("X", StopRecorder(p, runs))
               ELSE runs]

(* Variant: the slot waits for the end of the pass.                        *)
FollowAtRest(s) == IF c.ubuf /\ s.rec = "none" THEN s.cur ELSE lane

(* The slot a track with an UNDO buffer plays from its next trig.          *)
Follow(s) == IF c.ubuf THEN s.cur ELSE lane

(* A press has lasted one second, many UI ticks.                           *)
LongHeld ==
  /\ fl.press.pedal # "none"
  /\ fl.press.started = "take" => auth = AuthRun
  /\ fl.press.pedal = "rec" => Calm

(* The track: a long press, the end of a REPLACE, a clear, the switch to   *)
(* the buffer a pass records, and the slot.                                *)
UiTrack(long) ==
  /\ ui # "idle"
  /\ long => LongHeld
  /\ LET h == IF long THEN LongPress(fl, c, ui = "run", Muted)
              ELSE Result(fl, "nothing", "none")
         cut == IF h.do = "cut" THEN StopRecorder(PassRecorder(fl), run)
                ELSE run
         now == h.s.rpass = "now"
         heard == IF now THEN [h.s EXCEPT !.rpass = "none"] ELSE h.s
         asked == IF h.do = "clear" THEN 1 ELSE clr
         clear == Clearing(asked, heard, cut)
         gone == IF clear.done THEN Cleared(heard) ELSE heard
         s == IF clear.runs[PassRecorder(gone)] # "off" THEN RecRunning(gone)
              ELSE gone
         holds == [r \in Buffers |->
                     IF clear.done /\ (c.ubuf \/ r = lane) THEN Empty
                     ELSE buf[r]]
         unknown == {r \in Buffers : Recording(r)} \ {"X", PassRecorder(heard)}
     IN /\ asked # 0 => cfg.under \/ unknown = {}
        /\ fl' = IF ui = "stopped" /\ s.st = "idle"
                 THEN [s EXCEPT !.has = holds[lane] # Empty] ELSE s
        /\ run' = clear.runs
        /\ buf' = holds
        /\ clr' = clear.clr
        /\ muted' = CcMute(IF now THEN "unmute" ELSE h.mute)
        /\ qany' = IF long /\ fl.press.started = "now" /\ ui = "run"
                   THEN EndPending(h.s) ELSE qany
        /\ lane' = Follow(s)
        /\ nth' = Marked(s)
        /\ uncut' = IF clear.done THEN uncut \cup unknown ELSE uncut
  /\ tick' = IF ~playing THEN 0 ELSE IF tick < StepTicks THEN tick + 1
                                    ELSE tick
  /\ ui' = "idle"
  /\ UNCHANGED <<cfg, clrall, was, auth, newtake, playing, pos, due, voice,
                 entry, late>>

UiTick == UiHead \/ \E long \in BOOLEAN : UiTrack(long)

-----------------------------------------------------------------------------
Next ==
  \/ SeqStep
  \/ \E r \in Buffers : RecorderDone(r)
  \/ Start \/ Stop
  \/ RecDown \/ PlayDown \/ UndoDown \/ EndDown \/ PedalUp
  \/ PatternLands \/ ClearAll \/ BankLands
  \/ UiTick

(* The interrupts and the UI tick keep running; nobody has to press.       *)
Fairness ==
  /\ WF_vars(SeqStep)
  /\ \A r \in Buffers : WF_vars(RecorderDone(r))
  /\ WF_vars(UiTick)

FreeSpec == Init /\ [][Next]_vars /\ Fairness

-----------------------------------------------------------------------------
(* Types of the state.                                                     *)
FreeTypeOK ==
  /\ cfg \in Settings /\ fl \in States
  /\ clr \in 0..2 /\ clrall \in {"no", "asked", "bank"} /\ was \in BOOLEAN
  /\ ui \in {"idle", "run", "stopped"}
  /\ auth \in 0..AuthRun /\ newtake \in BOOLEAN /\ qany \in BOOLEAN
  /\ playing \in BOOLEAN /\ pos \in 0..L /\ tick \in 0..StepTicks
  /\ due \in Dues
  /\ run \in [Buffers -> Kinds]
  /\ buf \in [Buffers -> Contents \cup {Empty}]
  /\ lane \in Buffers /\ voice \in Buffers
  /\ muted \in {"no", "user", "replace"}
  /\ entry \in {"none", "ARM", "OFF", "REPLACE"}
  /\ nth \in Contents \cup {Empty} /\ late \in BOOLEAN /\ uncut \subseteq Buffers

(* An overdub of a track with an UNDO buffer never writes the loop it      *)
(* plays (freeloop.h, UNDO): the switch made by the UI tick reaches the    *)
(* slot before the trig that takes it, however presses, stops, clears and  *)
(* unfinished passes come between.                                         *)
NeverWritesWhatPlays ==
  \A r \in Buffers : run[r] = "pass" => voice # r \/ ~playing

(* UNDO TO n's loop stays as it was after the n-th recording, whatever is  *)
(* recorded, undone or dropped since.                                      *)
NthStays ==
  c.ubuf /\ c.undoto # 0 /\ fl.anchorN = c.undoto => buf[fl.anchorAt] = nth

(* The stray guard stops a recording that FREE LOOP let start only if the  *)
(* start came AuthTicks UI ticks or more after the gate let it through, or *)
(* the gate did before a UI tick had seen the recording before it end      *)
(* (adapter.c:852-884).                                                    *)
OwnRecordingIsNotStray == auth \in {AuthKeep, AuthStray} => late

(* A cleared track's buffers (freeloop.h, UNDO: "a clear empties both") are*)
(* filled by recordings that start, and not by what a recorder leaves as it*)
(* stops: a clear of the track waits for the recorders it knows of         *)
(* (adapter.c:964-987); one of everything does not (adapter.c:923-926), and*)
(* what ran under it, no other recorder, may leave what it had.            *)
ClearedStaysEmpty ==
  [][\A r \in Buffers : buf[r] = Empty /\ buf'[r] # Empty =>
       \/ run'[r] \in {"pass", "inplace", "take"} /\ run'[r] # run[r]
       \/ r \in uncut]_vars

(* The loop the track is on: during a pass into the other buffer, the one  *)
(* it was on before.                                                       *)
Heard == IF fl.rec # "none" /\ ~fl.inplace THEN buf[Flip(fl.rec)]
         ELSE buf[fl.cur]
Back == IF fl.valid THEN buf[Flip(fl.cur)] ELSE Nothing

History == INSTANCE LoopHistory WITH
  Loops <- Contents, Silence <- Empty, Nothing <- Nothing,
  heard <- Heard, back <- Back
HistorySpec == History!HistorySpec

(* An END pressed while the sequencer runs comes: at the next loop start,  *)
(* unless it is cancelled or the sequencer stops.                          *)
EndComes == fl.qpend # "none" ~> fl.qpend = "none"

(* A track muted by a REPLACE pass is owed its unmute: a STOP, a clear or  *)
(* an UNDO during the pass unmutes it (README.md, ENTRY), if it has a MIDI *)
(* channel to be unmuted through.                                          *)
UnmuteIsOwed == c.chan /\ muted = "replace" => fl.rpass # "none"

(* The first step of the loop takes what it owes.  An END pressed before   *)
(* it mutes or unmutes the track, unless a REPLACE pass does (freeloop.c,  *)
(* fl_loop_start); and a track that a REPLACE pass muted sounds again,     *)
(* unless the UI tick is about to unmute it, or has tried to without a     *)
(* MIDI channel.                                                           *)
DueAtLoopStart ==
  [][playing /\ pos # 1 /\ pos' = 1 =>
       /\ fl'.qpend = "none"
       /\ fl.qpend # "none" /\ fl.rpass \in {"none", "now"}
            => (muted' # "no" <=> fl.qpend = "mute")
       /\ c.chan /\ muted = "replace" /\ fl.rpass # "now"
            => muted' # "replace"]_vars

(* A track that has a MIDI channel and is muted by a REPLACE pass is heard *)
(* again, also after a stop, a clear or an UNDO during the pass.           *)
ReplaceHeardAgain == c.chan /\ muted = "replace" ~> muted # "replace"
=============================================================================
