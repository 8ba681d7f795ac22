--------------------------- MODULE FreeLoopProofs ---------------------------
(***************************************************************************)
(* FREE LOOP on one track, for any settings and pedals, any loop length    *)
(* and any number of contents.                                             *)
(***************************************************************************)
EXTENDS FreeLoop, TLAPS

-----------------------------------------------------------------------------
(* The engine's functions keep the types of its state. *)

LEMMA FlipFacts ==
  /\ \A b \in Buffers : Flip(b) \in Buffers /\ Flip(b) # b /\ Flip(Flip(b)) = b
  /\ \A a, b \in Buffers : a # b => a = Flip(b)
BY DEF Flip, Buffers

(* A field may be given any value of its type.                             *)
LEMMA SetField ==
  ASSUME NEW s \in States
  PROVE
  /\ \A v \in {"idle", "take", "armed", "overdub"} : [s EXCEPT !.st = v] \in States
  /\ \A v \in BOOLEAN : [s EXCEPT !.has = v] \in States
  /\ \A v \in Presses : [s EXCEPT !.press = v] \in States
  /\ \A v \in {"none", "mute", "unmute"} : [s EXCEPT !.qpend = v] \in States
  /\ \A v \in Buffers : [s EXCEPT !.cur = v] \in States
  /\ \A v \in {"none"} \cup Buffers : [s EXCEPT !.rec = v] \in States
  /\ \A v \in BOOLEAN : [s EXCEPT !.valid = v] \in States
  /\ \A v \in BOOLEAN : [s EXCEPT !.swap = v] \in States
  /\ \A v \in 0..NPassMax : [s EXCEPT !.npass = v] \in States
  /\ \A v \in 0..16 : [s EXCEPT !.anchorN = v] \in States
  /\ \A v \in Buffers : [s EXCEPT !.anchorAt = v] \in States
  /\ \A v \in BOOLEAN : [s EXCEPT !.inplace = v] \in States
  /\ \A v \in BOOLEAN : [s EXCEPT !.repl = v] \in States
  /\ \A v \in {"none", "mute", "unmute", "now"} : [s EXCEPT !.rpass = v] \in States
<1>1. \A v \in {"idle", "take", "armed", "overdub"} : [s EXCEPT !.st = v] \in States
  BY DEF States
<1>2. \A v \in BOOLEAN : [s EXCEPT !.has = v] \in States
  BY DEF States
<1>3. \A v \in Presses : [s EXCEPT !.press = v] \in States
  BY DEF States
<1>4. \A v \in {"none", "mute", "unmute"} : [s EXCEPT !.qpend = v] \in States
  BY DEF States
<1>5. \A v \in Buffers : [s EXCEPT !.cur = v] \in States
  BY DEF States
<1>6. \A v \in {"none"} \cup Buffers : [s EXCEPT !.rec = v] \in States
  BY DEF States
<1>7. \A v \in BOOLEAN : [s EXCEPT !.valid = v] \in States
  BY DEF States
<1>8. \A v \in BOOLEAN : [s EXCEPT !.swap = v] \in States
  BY DEF States
<1>9. \A v \in 0..NPassMax : [s EXCEPT !.npass = v] \in States
  BY DEF States
<1>10. \A v \in 0..16 : [s EXCEPT !.anchorN = v] \in States
  BY DEF States
<1>11. \A v \in Buffers : [s EXCEPT !.anchorAt = v] \in States
  BY DEF States
<1>12. \A v \in BOOLEAN : [s EXCEPT !.inplace = v] \in States
  BY DEF States
<1>13. \A v \in BOOLEAN : [s EXCEPT !.repl = v] \in States
  BY DEF States
<1>14. \A v \in {"none", "mute", "unmute", "now"} : [s EXCEPT !.rpass = v] \in States
  BY DEF States
<1> QED
  BY <1>1, <1>2, <1>3, <1>4, <1>5, <1>6, <1>7, <1>8, <1>9, <1>10, <1>11,
     <1>12, <1>13, <1>14

(* The types of the fields.                                                *)
LEMMA Fields ==
  ASSUME NEW s \in States
  PROVE
  /\ s.st \in {"idle", "take", "armed", "overdub"} /\ s.has \in BOOLEAN
  /\ s.press \in Presses /\ s.qpend \in {"none", "mute", "unmute"}
  /\ s.cur \in Buffers /\ s.rec \in {"none"} \cup Buffers
  /\ s.valid \in BOOLEAN /\ s.swap \in BOOLEAN
  /\ s.npass \in 0..NPassMax /\ s.anchorN \in 0..16 /\ s.anchorAt \in Buffers
  /\ s.inplace \in BOOLEAN /\ s.repl \in BOOLEAN
  /\ s.rpass \in {"none", "mute", "unmute", "now"}
BY DEF States

(* Values the functions store.                                             *)
LEMMA Stored ==
  /\ "X" \in Buffers /\ NoPress \in Presses
  /\ 0 \in 0..16 /\ 1 \in 0..16 /\ 0 \in 0..NPassMax /\ 1 \in 0..NPassMax
BY NPassMaxAssumption DEF Buffers, NoPress, Presses

LEMMA PassDropType ==
  ASSUME NEW s \in States
  PROVE  PassDrop(s) \in States
<1> DEFINE now == IF s.inplace \/ s.swap THEN s.cur ELSE Flip(s.cur)
<1>1. now \in Buffers /\ s.inplace \in BOOLEAN
  BY Fields, FlipFacts
<1>2. [s EXCEPT !.cur = now, !.valid = s.inplace, !.rec = "none",
                !.swap = FALSE, !.inplace = FALSE] \in States
  <2> HIDE DEF now
  <2> QED
    BY <1>1, SetField
<1> QED
  BY <1>2 DEF PassDrop

LEMMA PassOverType ==
  ASSUME NEW s \in States, NEW x \in Configs
  PROVE  PassOver(s, x) \in States
<1> DEFINE now == IF s.swap THEN Flip(s.cur) ELSE s.cur
           n == CountOn(s, x)
           last == x.undoto # 0 /\ n = x.undoto
           an == IF last THEN n ELSE s.anchorN
           at == IF last THEN now ELSE s.anchorAt
<1>1. now \in Buffers
  BY Fields, FlipFacts
<1>2. n \in 0..NPassMax /\ (last => n \in 0..16)
  BY Fields, NPassMaxAssumption DEF CountOn, Configs
<1>3. an \in 0..16 /\ at \in Buffers
  BY Fields, <1>1, <1>2
<1>4. [s EXCEPT !.cur = now, !.rec = "none", !.swap = FALSE, !.valid = TRUE,
                !.inplace = FALSE, !.npass = n, !.anchorN = an,
                !.anchorAt = at] \in States
  <2> HIDE DEF now, n, an, at
  <2> QED
    BY <1>1, <1>2, <1>3, SetField
<1> QED
  BY <1>4 DEF PassOver

LEMMA ReplaceOffType ==
  ASSUME NEW s \in States
  PROVE  ReplaceOff(s) \in States
BY DEF States, ReplaceOff

LEMMA TakenType ==
  ASSUME NEW s \in States
  PROVE  Taken(s) \in States
<1>1. [s EXCEPT !.repl = FALSE, !.st = "idle", !.has = TRUE, !.rpass = "mute",
                !.qpend = "none", !.npass = 0, !.anchorN = 0,
                !.anchorAt = "X"] \in States
  BY SetField, Stored, Zenon
<1>2. [s EXCEPT !.st = "overdub", !.has = TRUE] \in States
  BY SetField
<1> QED
  BY <1>1, <1>2 DEF Taken

LEMMA IntoType ==
  ASSUME NEW s \in States, NEW x \in Configs, NEW replace \in BOOLEAN
  PROVE  Into(s, x, replace) \in States
<1>1. s.cur \in Buffers /\ Flip(s.cur) \in Buffers
  BY Fields, FlipFacts
<1>2. [s EXCEPT !.rec = s.cur, !.swap = FALSE, !.inplace = TRUE,
                !.valid = TRUE] \in States
  BY <1>1, SetField
<1>3. [s EXCEPT !.rec = Flip(s.cur), !.swap = TRUE, !.valid = FALSE,
                !.inplace = FALSE] \in States
  BY <1>1, SetField
<1> QED
  BY <1>2, <1>3 DEF Into

LEMMA GateType ==
  ASSUME NEW s \in States, NEW x \in Configs
  PROVE  /\ Gate(s, x).s \in States
         /\ Gate(s, x).fires \in {"none"} \cup Buffers
<1> DEFINE over == PassOver(s, x)
           replace == over.st = "armed" /\ over.repl
           go == over.st \in {"armed", "overdub"}
           taken == Taken(over)
           next == IF go /\ x.ubuf THEN Into(taken, x, replace) ELSE taken
<1>1. next \in States
  BY PassOverType, TakenType, IntoType
<1>2. next.rec \in {"none"} \cup Buffers
  BY <1>1, Fields
<1> QED
  BY <1>1, <1>2, Stored DEF Gate

LEMMA RecRunningType ==
  ASSUME NEW s \in States
  PROVE  RecRunning(s) \in States
BY SetField, Fields, FlipFacts DEF RecRunning

LEMMA ClearedType ==
  ASSUME NEW s \in States
  PROVE  Cleared(s) \in States
<1>1. [s EXCEPT !.has = FALSE, !.cur = "X", !.rec = "none", !.swap = FALSE,
                !.valid = FALSE, !.npass = 0, !.anchorN = 0, !.anchorAt = "X",
                !.inplace = FALSE] \in States
  BY SetField, Stored, Zenon
<1> QED
  BY <1>1, ReplaceOffType DEF Cleared

LEMMA ResetType ==
  ASSUME NEW s \in States
  PROVE  Reset(s) \in States
<1>1. [s EXCEPT !.st = "idle", !.press = NoPress, !.qpend = "none"] \in States
  BY SetField, Stored
<1> QED
  BY <1>1, ClearedType DEF Reset

LEMMA StoppedType ==
  ASSUME NEW s \in States
  PROVE  Stopped(s) \in States
<1>1. (IF s.st \in {"armed", "overdub"} THEN "idle" ELSE s.st)
        \in {"idle", "take", "armed", "overdub"}
  BY Fields
<1>2. [s EXCEPT !.st = IF s.st \in {"armed", "overdub"} THEN "idle" ELSE s.st,
                !.qpend = "none"] \in States
  BY <1>1, SetField
<1> QED
  BY <1>2, ReplaceOffType, PassDropType DEF Stopped

LEMMA PatternType ==
  ASSUME NEW s \in States, NEW mode
  PROVE  Pattern(s, mode) \in States
<1>1. (IF mode = "OFF" THEN "idle" ELSE "armed")
        \in {"idle", "take", "armed", "overdub"}
  OBVIOUS
<1>2. [s EXCEPT !.repl = (mode = "REPLACE"),
                !.st = IF mode = "OFF" THEN "idle" ELSE "armed"] \in States
  BY <1>1, SetField
<1> QED
  BY <1>2 DEF Pattern

LEMMA ReleaseType ==
  ASSUME NEW s \in States, NEW pedal
  PROVE  Release(s, pedal) \in States
BY SetField, Stored DEF Release

LEMMA HoldType ==
  ASSUME NEW s \in States, NEW pedal \in {"rec", "play"},
         NEW w \in {"idle", "take", "armed", "overdub"},
         NEW undo \in {"none", "mute", "unmute"},
         NEW started \in {"none", "play", "take", "launch", "end", "now"}
  PROVE  Hold(s, pedal, w, undo, started) \in States
<1>1. [pedal |-> pedal, was |-> w, undo |-> undo, started |-> started]
        \in Presses
  BY DEF Presses
<1> QED
  BY <1>1, SetField DEF Hold

(* What a function that also returns an action gives.                      *)
Mutes == {"none", "mute", "unmute"}
GoodResult(r) == r.s \in States /\ r.mute \in Mutes

LEMMA ResultGood ==
  ASSUME NEW s \in States, NEW do, NEW mute \in Mutes
  PROVE  GoodResult(Result(s, do, mute))
BY DEF GoodResult, Result

LEMMA LaunchType ==
  ASSUME NEW s \in States, NEW x \in Configs, NEW fits \in BOOLEAN
  PROVE  GoodResult(Launch(s, x, fits))
<1> DEFINE n == IF x.undoto = 0 THEN 0 ELSE 1
           an == IF x.undoto = 1 THEN 1 ELSE 0
           at == IF x.undoto = 1 THEN s.cur ELSE "X"
<1>1. n \in 0..NPassMax /\ an \in 0..16 /\ at \in Buffers
  BY Fields, Stored
<1>2. [s EXCEPT !.st = "idle", !.has = TRUE, !.npass = n, !.anchorN = an,
                !.anchorAt = at] \in States
  <2> HIDE DEF n, an, at
  <2> QED
    BY <1>1, SetField
<1> QED
  BY <1>2, ResultGood DEF Launch, Mutes

LEMMA RecPressType ==
  ASSUME NEW s \in States, NEW x \in Configs, NEW on \in BOOLEAN,
         NEW slave \in BOOLEAN, NEW others, NEW fits \in BOOLEAN
  PROVE  GoodResult(RecPress(s, x, on, slave, others, fits))
<1>1. /\ s.st \in {"idle", "take", "armed", "overdub"}
      /\ [s EXCEPT !.st = "take"] \in States
      /\ [s EXCEPT !.st = "armed"] \in States
      /\ [s EXCEPT !.st = "idle"] \in States
  BY SetField, Fields
<1>2. [s EXCEPT !.st = "idle", !.repl = FALSE] \in States
  BY SetField
<1>3. /\ Hold([s EXCEPT !.st = "take"], "rec", s.st, "none", "take") \in States
      /\ Hold([s EXCEPT !.st = "armed"], "rec", s.st, "none", "none") \in States
      /\ Hold([s EXCEPT !.st = "idle", !.repl = FALSE],
              "rec", s.st, "none", "none") \in States
  BY <1>1, <1>2, HoldType
<1> QED
  BY <1>3, LaunchType, ResultGood DEF RecPress, Mutes

LEMMA EndType ==
  ASSUME NEW s \in States, NEW on \in BOOLEAN, NEW m \in BOOLEAN
  PROVE  GoodResult(End(s, on, m))
<1>1. Toggle(m) \in {"mute", "unmute"}
  BY DEF Toggle
<1>2. /\ [s EXCEPT !.qpend = "none"] \in States
      /\ [s EXCEPT !.qpend = Toggle(m)] \in States
  BY <1>1, SetField
<1> QED
  BY <1>1, <1>2, ResultGood DEF End, Mutes

LEMMA PlayPressType ==
  ASSUME NEW s \in States, NEW x \in Configs, NEW on \in BOOLEAN,
         NEW m \in BOOLEAN, NEW others, NEW fits \in BOOLEAN
  PROVE  GoodResult(PlayPress(s, x, on, m, others, fits))
<1>1. /\ Toggle(m) \in {"mute", "unmute"}
      /\ Toggle(~m) \in {"mute", "unmute"}
  BY DEF Toggle
<1>2. Launch(s, x, fits).s \in States
  BY LaunchType DEF GoodResult
<1>3. /\ \A started \in {"none", "launch"} :
             Hold(Launch(s, x, fits).s, "play", "idle", "none", started)
               \in States
      /\ \A undo \in {"none", "mute"} :
             Hold(s, "play", "idle", undo, "play") \in States
      /\ Hold(s, "play", "idle", "none", "end") \in States
      /\ Hold(s, "play", "idle", Toggle(~m), "now") \in States
  BY <1>1, <1>2, HoldType
<1> QED
  BY <1>1, <1>3, EndType, ResultGood DEF PlayPress, Mutes

LEMMA UndoType ==
  ASSUME NEW s \in States, NEW x \in Configs
  PROVE  GoodResult(Undo(s, x))
<1>1. s.cur \in Buffers /\ Flip(s.cur) \in Buffers
  BY Fields, FlipFacts
<1>2. [s EXCEPT !.rec = "none", !.inplace = FALSE, !.valid = TRUE,
                !.cur = Flip(s.cur), !.st = "idle"] \in States
  BY <1>1, SetField
<1>3. [s EXCEPT !.cur = Flip(s.cur)] \in States
  BY <1>1, SetField
<1>4. PassDrop(s) \in States
  BY PassDropType
<1>5. (IF PassDrop(s).rpass = "mute" THEN "none" ELSE PassDrop(s).rpass)
         \in {"none", "mute", "unmute", "now"}
  BY <1>4, Fields
<1>6. [PassDrop(s) EXCEPT !.st = "idle",
         !.rpass = IF PassDrop(s).rpass = "mute" THEN "none"
                   ELSE PassDrop(s).rpass] \in States
  BY <1>4, <1>5, SetField
<1> QED
  BY <1>2, <1>3, <1>6, ResultGood DEF Undo, Mutes

LEMMA LongPressType ==
  ASSUME NEW s \in States, NEW x \in Configs, NEW on \in BOOLEAN,
         NEW m \in BOOLEAN
  PROVE  GoodResult(LongPress(s, x, on, m))
<1> DEFINE p == s.press
           up == [s EXCEPT !.press = NoPress]
           end == End(up, on, p.undo = "mute")
           then == IF s.rec = "none" THEN p.was ELSE up.st
<1>1. up \in States /\ p.undo \in Mutes
      /\ p.was \in {"idle", "take", "armed", "overdub"}
  BY SetField, Stored, Fields DEF Presses, Mutes
<1>2. end.s \in States
  BY <1>1, EndType DEF GoodResult
<1>3. GoodResult(Result(end.s, end.do, p.undo))
  BY <1>1, <1>2, ResultGood
<1>4. then \in {"idle", "take", "armed", "overdub"}
  BY <1>1, Fields
<1>5. [up EXCEPT !.st = then] \in States
  <2> HIDE DEF up, then
  <2> QED
    BY <1>1, <1>4, SetField
<1>6. GoodResult(Undo([up EXCEPT !.st = then], x))
  <2> HIDE DEF up, then
  <2> QED
    BY <1>5, UndoType
<1>7. [up EXCEPT !.st = "idle", !.has = FALSE] \in States
  <2> HIDE DEF up
  <2> QED
    BY <1>1, SetField
<1>8. /\ GoodResult(Result(up, "nothing", "none"))
      /\ GoodResult(Result([up EXCEPT !.st = "idle", !.has = FALSE],
                           "clear", "none"))
  <2> HIDE DEF up
  <2> QED
    BY <1>1, <1>7, ResultGood DEF Mutes
<1> QED
  BY <1>3, <1>6, <1>8 DEF LongPress

LEMMA LoopStartType ==
  ASSUME NEW s \in States
  PROVE  GoodResult(LoopStart(s))
<1> DEFINE rp == CASE s.rpass = "mute" -> "unmute"
                   [] s.rpass = "unmute" -> "none"
                   [] OTHER -> s.rpass
           r == CASE s.rpass = "mute" -> "mute"
                  [] s.rpass = "unmute" -> "unmute"
                  [] OTHER -> "none"
<1>1. rp \in {"none", "mute", "unmute", "now"} /\ r \in Mutes /\ s.qpend \in Mutes
  BY Fields DEF Mutes
<1>2. [s EXCEPT !.qpend = "none", !.rpass = rp] \in States
  <2> HIDE DEF rp
  <2> QED
    BY <1>1, SetField
<1>3. (IF r # "none" THEN r ELSE s.qpend) \in Mutes
  BY <1>1
<1> QED
  BY <1>2, <1>3, ResultGood DEF LoopStart

-----------------------------------------------------------------------------
(* Types. *)

LEMMA MuteByType ==
  ASSUME NEW how, NEW who \in {"user", "replace"},
         NEW now \in {"no", "user", "replace"}
  PROVE  MuteBy(how, who, now) \in {"no", "user", "replace"}
BY DEF MuteBy

LEMMA CcMuteType ==
  ASSUME FreeTypeOK, NEW how
  PROVE  CcMute(how) \in {"no", "user", "replace"}
BY MuteByType DEF CcMute, FreeTypeOK

LEMMA StopRecorderType ==
  ASSUME NEW r \in Buffers, NEW runs \in [Buffers -> Kinds]
  PROVE  StopRecorder(r, runs) \in [Buffers -> Kinds]
BY DEF StopRecorder, Kinds

LEMMA PassRecorderType == \A s : PassRecorder(s) \in Buffers
BY DEF PassRecorder, Buffers

(* A recording's content is one that nothing holds.                        *)
LEMMA FreshFacts ==
  ASSUME FreeTypeOK
  PROVE  Fresh \in Contents /\ Fresh \notin {buf["X"], buf["Y"], nth, Empty}
<1>1. {buf["X"], buf["Y"], nth} \subseteq Contents \cup {Empty}
  BY Stored DEF FreeTypeOK, Buffers
<1>2. \E k \in Contents : k \notin {buf["X"], buf["Y"], nth}
  BY <1>1, FreshAssumption
<1> QED
  BY <1>2, ContentsAssumption DEF Fresh

LEMMA MarkedType ==
  ASSUME FreeTypeOK, NEW s \in States
  PROVE  Marked(s) \in Contents \cup {Empty}
BY Fields DEF Marked, FreeTypeOK

LEMMA LeaveType ==
  ASSUME FreeTypeOK, NEW ends
  PROVE  Leave(ends) \in [Buffers -> Contents \cup {Empty}]
BY FreshFacts DEF Leave, FreeTypeOK

LEMMA SettingsFact == FreeTypeOK => c \in Configs
BY SettingsAssumption DEF FreeTypeOK, c

LEMMA PrepareType ==
  ASSUME FreeTypeOK, NEW s \in States, NEW q \in BOOLEAN, Prepare(s, q)
  PROVE  /\ fl' \in States /\ due' \in Dues
         /\ newtake' \in BOOLEAN /\ qany' \in BOOLEAN
         /\ nth' \in Contents \cup {Empty}
         /\ late' \in BOOLEAN /\ uncut' \subseteq Buffers
<1>1. /\ Gate(s, c).s \in States
      /\ Gate(s, c).fires \in {"none"} \cup Buffers
  BY SettingsFact, GateType
<1>2. fl' = Gate(s, c).s /\ nth' = Marked(Gate(s, c).s)
  BY DEF Prepare
<1>3. due' \in Dues
  <2>1. \E kind \in {"pass", "inplace"} :
          due' = IF Gate(s, c).fires = "none" THEN NoDue
                 ELSE [rec |-> Gate(s, c).fires, kind |-> kind]
    BY DEF Prepare
  <2> QED
    BY <2>1, <1>1 DEF Dues
<1>4. newtake' \in BOOLEAN /\ qany' \in BOOLEAN
  BY DEF Prepare, FreeTypeOK
<1>5. late' \in BOOLEAN /\ uncut' \subseteq Buffers
  BY DEF Prepare, FreeTypeOK, EndSeen
<1> QED
  BY <1>1, <1>2, <1>3, <1>4, <1>5, MarkedType

LEMMA TogglesType ==
  ASSUME FreeTypeOK, Toggles
  PROVE  fl' \in States /\ qany' \in BOOLEAN /\ muted' \in {"no", "user", "replace"}
<1>1. CASE qany
  <2>1. GoodResult(LoopStart(fl))
    BY LoopStartType DEF FreeTypeOK
  <2>2. /\ fl' = LoopStart(fl).s /\ qany' = EndPending(LoopStart(fl).s)
        /\ \E who \in {"user", "replace"} :
             muted' = MuteBy(LoopStart(fl).mute, who, muted)
    BY <1>1 DEF Toggles
  <2> QED
    BY <2>1, <2>2, MuteByType DEF GoodResult, EndPending, FreeTypeOK
<1>2. CASE ~qany
  BY <1>2 DEF Toggles, FreeTypeOK
<1> QED
  BY <1>1, <1>2 DEF FreeTypeOK

LEMMA LoopBeginsType ==
  ASSUME FreeTypeOK, LoopBegins
  PROVE  /\ fl' \in States /\ qany' \in BOOLEAN
         /\ muted' \in {"no", "user", "replace"}
         /\ run' \in [Buffers -> Kinds]
         /\ buf' \in [Buffers -> Contents \cup {Empty}]
         /\ voice' \in Buffers /\ due' \in Dues
         /\ newtake' \in BOOLEAN /\ nth' \in Contents \cup {Empty}
         /\ late' \in BOOLEAN /\ uncut' \subseteq Buffers
<1>1. run' \in [Buffers -> Kinds]
  <2>1. \A r \in Buffers : r = due.rec => due.kind \in Kinds
    BY DEF FreeTypeOK, Dues, NoDue, Kinds, Buffers
  <2>2. \E ends : run' = [r \in Buffers |-> CASE r = due.rec -> due.kind
                                              [] r \in ends -> "off"
                                              [] OTHER -> run[r]]
    BY DEF LoopBegins
  <2> QED
    BY <2>1, <2>2 DEF FreeTypeOK, Kinds
<1>2. buf' \in [Buffers -> Contents \cup {Empty}]
  BY FreshFacts, LeaveType DEF LoopBegins
<1>3. /\ voice' \in Buffers /\ due' \in Dues
      /\ newtake' \in BOOLEAN /\ nth' \in Contents \cup {Empty}
      /\ late' \in BOOLEAN /\ uncut' \subseteq Buffers
  BY DEF LoopBegins, FreeTypeOK, Dues
<1> QED
  BY <1>1, <1>2, <1>3, TogglesType DEF LoopBegins

LEMMA SeqStepType ==
  ASSUME FreeTypeOK, SeqStep
  PROVE  FreeTypeOK'
<1>1. pos' \in 0..L /\ tick' \in 0..StepTicks
  BY LoopAssumption, TicksAssumption DEF SeqStep, FreeTypeOK
<1>2. /\ cfg' \in Settings /\ clr' \in 0..2 /\ clrall' \in {"no", "asked", "bank"}
      /\ was' \in BOOLEAN /\ ui' \in {"idle", "run", "stopped"}
      /\ auth' \in 0..AuthRun /\ playing' \in BOOLEAN /\ lane' \in Buffers
      /\ entry' \in {"none", "ARM", "OFF", "REPLACE"}
  BY DEF SeqStep, FreeTypeOK, AuthRun
<1>3. CASE pos' = 1
  BY <1>1, <1>2, <1>3, LoopBeginsType DEF SeqStep, FreeTypeOK
<1>4. CASE pos' # 1 /\ pos' = L
  <2>1. Prepare(fl, qany) /\ UNCHANGED <<run, buf, voice, muted>>
    BY <1>4 DEF SeqStep
  <2>2. fl \in States /\ qany \in BOOLEAN
    BY DEF FreeTypeOK
  <2> QED
    BY <1>1, <1>2, <2>1, <2>2, PrepareType DEF FreeTypeOK
<1>5. CASE pos' # 1 /\ pos' # L
  BY <1>1, <1>2, <1>5 DEF SeqStep, FreeTypeOK, history
<1> QED
  BY <1>3, <1>4, <1>5

LEMMA RecorderDoneType ==
  ASSUME FreeTypeOK, NEW r \in Buffers, RecorderDone(r)
  PROVE  FreeTypeOK'
<1>1. run' \in [Buffers -> Kinds]
  BY DEF RecorderDone, FreeTypeOK, Kinds
<1>2. buf' \in [Buffers -> Contents \cup {Empty}]
  BY LeaveType DEF RecorderDone
<1> QED
  BY <1>1, <1>2 DEF RecorderDone, FreeTypeOK, engine, AuthRun

LEMMA StartsType ==
  ASSUME FreeTypeOK, NEW s \in States, NEW q \in BOOLEAN, Starts(s, q)
  PROVE  /\ fl' \in States /\ due' \in Dues
         /\ newtake' \in BOOLEAN /\ qany' \in BOOLEAN
         /\ nth' \in Contents \cup {Empty}
         /\ late' \in BOOLEAN /\ uncut' \subseteq Buffers
         /\ playing' \in BOOLEAN /\ pos' \in 0..L /\ tick' \in 0..StepTicks
BY PrepareType, LoopAssumption, TicksAssumption DEF Starts

LEMMA TransportType ==
  ASSUME FreeTypeOK, Start \/ Stop
  PROVE  FreeTypeOK'
<1>1. CASE Start
  <2>1. Starts(fl, qany) /\ fl \in States /\ qany \in BOOLEAN
    BY <1>1 DEF Start, FreeTypeOK
  <2> QED
    BY <1>1, <2>1, StartsType DEF Start, FreeTypeOK, AuthRun
<1>2. CASE Stop
  <2>1. playing' = FALSE /\ pos' = 0 /\ tick' = 0
    BY <1>2 DEF Stop
  <2>3. 0 \in 0..L /\ 0 \in 0..StepTicks
    BY LoopAssumption, TicksAssumption
  <2>2. due' \in Dues
    BY <1>2 DEF Stop, Dues
  <2>4. UNCHANGED <<cfg, fl, clr, clrall, was, ui, auth, newtake, qany, run,
                    buf, lane, voice, muted, entry, nth, late, uncut>>
    BY <1>2 DEF Stop, engine, history
  <2>5. playing' \in BOOLEAN /\ pos' \in 0..L /\ tick' \in 0..StepTicks
    BY <2>1, <2>3
  <2> QED
    BY <2>2, <2>4, <2>5 DEF FreeTypeOK, AuthRun
<1> QED
  BY <1>1, <1>2

LEMMA PerformType ==
  ASSUME FreeTypeOK, NEW r, GoodResult(r), NEW q \in BOOLEAN, Perform(r, q)
  PROVE  FreeTypeOK'
<1>1. r.s \in States
  BY DEF GoodResult
<1>2. muted' \in {"no", "user", "replace"}
  BY CcMuteType DEF Perform
<1>3. /\ cfg' \in Settings /\ clr' \in 0..2 /\ clrall' \in {"no", "asked", "bank"}
      /\ was' \in BOOLEAN /\ ui' \in {"idle", "run", "stopped"}
      /\ auth' \in 0..AuthRun /\ lane' \in Buffers /\ voice' \in Buffers
      /\ entry' \in {"none", "ARM", "OFF", "REPLACE"}
  BY DEF Perform, FreeTypeOK, AuthRun
<1>4. /\ StopRecorder("X", run) \in [Buffers -> Kinds]
      /\ StopRecorder(PassRecorder(fl), run) \in [Buffers -> Kinds]
      /\ [run EXCEPT !["X"] = "take"] \in [Buffers -> Kinds]
  BY Stored, StopRecorderType, PassRecorderType DEF FreeTypeOK, Kinds
<1>5. CASE r.do = "take"
  <2>1. buf' \in [Buffers -> Contents \cup {Empty}]
    BY <1>5, FreshFacts DEF Perform, FreeTypeOK
  <2> QED
    BY <1>1, <1>2, <1>3, <1>4, <1>5, <2>1 DEF Perform, FreeTypeOK, history
<1>6. CASE r.do = "launch"
  <2>1. /\ run' = StopRecorder("X", run) /\ Starts(r.s, q) /\ UNCHANGED buf
    BY <1>6 DEF Perform
  <2> QED
    BY <1>1, <1>2, <1>3, <1>4, <2>1, StartsType DEF FreeTypeOK
<1>7. CASE r.do = "play"
  <2>1. Starts(r.s, q) /\ UNCHANGED <<run, buf>>
    BY <1>7 DEF Perform
  <2> QED
    BY <1>1, <1>2, <1>3, <2>1, StartsType DEF FreeTypeOK
<1>8. CASE r.do \notin {"take", "launch", "play"}
  <2>1. /\ run' = IF r.do = "cut" THEN StopRecorder(PassRecorder(fl), run)
                  ELSE run
        /\ fl' = r.s /\ qany' = q
        /\ UNCHANGED <<playing, pos, tick, due, newtake, buf, history>>
    BY <1>8 DEF Perform
  <2>2. run' \in [Buffers -> Kinds]
    BY <1>4, <2>1 DEF FreeTypeOK
  <2> QED
    BY <1>1, <1>2, <1>3, <2>1, <2>2 DEF FreeTypeOK, history
<1> QED
  BY <1>5, <1>6, <1>7, <1>8

LEMMA PedalType ==
  ASSUME FreeTypeOK, RecDown \/ PlayDown \/ UndoDown \/ EndDown
  PROVE  FreeTypeOK'
<1>1. /\ fl \in States /\ c \in Configs /\ playing \in BOOLEAN
      /\ Muted \in BOOLEAN /\ qany \in BOOLEAN
  BY SettingsFact DEF FreeTypeOK, Muted
<1>2. \A s : EndPending(s) \in BOOLEAN
  BY DEF EndPending
<1>3. CASE RecDown
  <2>1. PICK slave \in BOOLEAN, fits \in BOOLEAN, others \in Others :
          Perform(RecPress(fl, c, playing, slave, others, fits), qany)
    BY <1>3 DEF RecDown
  <2>2. GoodResult(RecPress(fl, c, playing, slave, others, fits))
    BY <1>1, RecPressType
  <2> QED
    BY <1>1, <2>1, <2>2, PerformType
<1>4. CASE PlayDown
  <2>1. PICK fits \in BOOLEAN, others \in Others :
          LET r == PlayPress(fl, c, playing, Muted, others, fits)
          IN Perform(r, EndPending(r.s))
    BY <1>4 DEF PlayDown
  <2>2. GoodResult(PlayPress(fl, c, playing, Muted, others, fits))
    BY <1>1, PlayPressType
  <2> QED
    BY <1>2, <2>1, <2>2, PerformType
<1>5. CASE UndoDown
  BY <1>1, <1>5, UndoType, PerformType DEF UndoDown
<1>6. CASE EndDown
  BY <1>1, <1>2, <1>6, EndType, PerformType DEF EndDown
<1> QED
  BY <1>3, <1>4, <1>5, <1>6

LEMMA OtherPressType ==
  ASSUME FreeTypeOK, PedalUp \/ PatternLands \/ ClearAll \/ BankLands
  PROVE  FreeTypeOK'
<1>1. CASE PedalUp
  BY <1>1, ReleaseType DEF PedalUp, FreeTypeOK, unit, history, AuthRun
<1>2. CASE PatternLands
  <2>1. entry' \in {"none", "ARM", "OFF", "REPLACE"}
    BY <1>2 DEF PatternLands, Lands, Entries
  <2> QED
    BY <1>2, <2>1 DEF PatternLands, FreeTypeOK, engine, unit, history, AuthRun
<1>3. CASE ClearAll
  BY <1>3 DEF ClearAll, FreeTypeOK, unit, history, AuthRun
<1>4. CASE BankLands
  <2>1. entry' \in {"none", "ARM", "OFF", "REPLACE"}
    BY <1>4 DEF BankLands, Lands, Entries
  <2>2. clrall' \in {"no", "asked", "bank"}
    BY <1>4 DEF BankLands, FreeTypeOK
  <2> QED
    BY <1>4, <2>1, <2>2 DEF BankLands, FreeTypeOK, unit, history, AuthRun
<1> QED
  BY <1>1, <1>2, <1>3, <1>4

(* The count of UI ticks, and what the guard makes of it.                  *)
LEMMA CountedType ==
  ASSUME FreeTypeOK
  PROVE  Counted \in 0..AuthRun
BY TicksAssumption DEF Counted, FreeTypeOK, AuthRun, AuthKeep

LEMMA StrayGuardType ==
  ASSUME FreeTypeOK, NEW runs \in [Buffers -> Kinds]
  PROVE  /\ StrayGuard(runs).auth \in 0..AuthRun
         /\ StrayGuard(runs).runs \in [Buffers -> Kinds]
         /\ StrayGuard(runs).lost \in BOOLEAN
<1>1. StrayGuard(runs).auth \in 0..AuthRun
  BY CountedType, TicksAssumption
     DEF StrayGuard, AuthRun, AuthKeep, AuthStray
<1>2. StrayGuard(runs).runs \in [Buffers -> Kinds]
  BY StopRecorderType, Stored DEF StrayGuard
<1> QED
  BY <1>1, <1>2 DEF StrayGuard

LEMMA UiHeadType ==
  ASSUME FreeTypeOK, UiHead
  PROVE  FreeTypeOK'
<1> DEFINE stopped == was /\ ~playing
           all == clrall = "asked" \/ (clrall = "bank" /\ playing)
           runs == IF stopped /\ fl.rec # "none"
                   THEN StopRecorder(PassRecorder(fl), run) ELSE run
           s == IF stopped THEN Stopped(fl) ELSE fl
           guard == StrayGuard(runs)
           kept == IF guard.lost THEN [s EXCEPT !.has = FALSE] ELSE s
           cleared == IF all THEN Reset(kept) ELSE kept
           armed == IF playing /\ entry # "none" THEN Pattern(cleared, entry)
                    ELSE cleared
<1>1. runs \in [Buffers -> Kinds]
  BY StopRecorderType, PassRecorderType DEF FreeTypeOK
<1>2. /\ guard.auth \in 0..AuthRun /\ guard.runs \in [Buffers -> Kinds]
      /\ guard.lost \in BOOLEAN
  <2> HIDE DEF runs
  <2> QED
    BY <1>1, StrayGuardType
<1>3. s \in States
  BY StoppedType DEF FreeTypeOK
<1>4. kept \in States
  <2> HIDE DEF s, guard
  <2> QED
    BY <1>3, SetField
<1>5. armed \in States
  <2> HIDE DEF kept
  <2> QED
    BY <1>4, ResetType, PatternType
<1>6. /\ fl' = armed /\ auth' = guard.auth
      /\ run' = IF all /\ kept.st = "take"
                THEN StopRecorder("X", guard.runs) ELSE guard.runs
      /\ buf' = [r \in Buffers |-> IF all \/ (guard.lost /\ r = "X")
                                   THEN Empty ELSE buf[r]]
      /\ qany' = (qany /\ ~stopped) /\ nth' = Marked(armed)
  BY DEF UiHead
<1> HIDE DEF runs, s, guard, kept, cleared, armed, stopped, all
<1>7. run' \in [Buffers -> Kinds]
  BY <1>2, <1>6, StopRecorderType, Stored
<1>8. buf' \in [Buffers -> Contents \cup {Empty}]
  BY <1>6 DEF FreeTypeOK
<1>9. nth' \in Contents \cup {Empty} /\ qany' \in BOOLEAN
  BY <1>5, <1>6, MarkedType
<1>10. /\ newtake' \in BOOLEAN /\ clrall' \in {"no", "asked", "bank"} /\ was' \in BOOLEAN
       /\ entry' \in {"none", "ARM", "OFF", "REPLACE"}
       /\ ui' \in {"idle", "run", "stopped"}
       /\ cfg' \in Settings /\ clr' \in 0..2 /\ playing' \in BOOLEAN
       /\ pos' \in 0..L /\ tick' \in 0..StepTicks /\ due' \in Dues
       /\ lane' \in Buffers /\ voice' \in Buffers
       /\ muted' \in {"no", "user", "replace"}
       /\ late' \in BOOLEAN /\ uncut' \subseteq Buffers
  BY DEF UiHead, FreeTypeOK
<1> QED
  BY <1>2, <1>5, <1>6, <1>7, <1>8, <1>9, <1>10 DEF FreeTypeOK, AuthRun

LEMMA ClearingType ==
  ASSUME NEW asked \in 0..2, NEW s, NEW runs \in [Buffers -> Kinds]
  PROVE  /\ Clearing(asked, s, runs).done \in BOOLEAN
         /\ Clearing(asked, s, runs).clr \in 0..2
         /\ Clearing(asked, s, runs).runs \in [Buffers -> Kinds]
<1>1. StopRecorder("X", StopRecorder(PassRecorder(s), runs))
        \in [Buffers -> Kinds]
  BY StopRecorderType, PassRecorderType, Stored
<1> QED
  BY <1>1 DEF Clearing

LEMMA UiTrackType ==
  ASSUME FreeTypeOK, NEW long \in BOOLEAN, UiTrack(long)
  PROVE  FreeTypeOK'
<1> DEFINE h == IF long THEN LongPress(fl, c, ui = "run", Muted)
                ELSE Result(fl, "nothing", "none")
           cut == IF h.do = "cut" THEN StopRecorder(PassRecorder(fl), run)
                  ELSE run
           now == h.s.rpass = "now"
           heard == IF now THEN [h.s EXCEPT !.rpass = "none"] ELSE h.s
           asked == IF h.do = "clear" THEN 1 ELSE clr
           clear == Clearing(asked, heard, cut)
           gone == IF clear.done THEN Cleared(heard) ELSE heard
           s == IF clear.runs[PassRecorder(gone)] # "off" THEN RecRunning(gone)
                ELSE gone
           holds == [r \in Buffers |->
                       IF clear.done /\ (c.ubuf \/ r = lane) THEN Empty
                       ELSE buf[r]]
<1>1. h.s \in States /\ h.mute \in Mutes
  <2>1. fl \in States /\ c \in Configs /\ Muted \in BOOLEAN
    BY SettingsFact DEF FreeTypeOK, Muted
  <2>2. GoodResult(h)
    BY <2>1, LongPressType, ResultGood DEF Mutes
  <2> QED
    BY <2>2 DEF GoodResult
<1>2. cut \in [Buffers -> Kinds]
  BY StopRecorderType, PassRecorderType DEF FreeTypeOK
<1>3. heard \in States
  <2> HIDE DEF h
  <2> QED
    BY <1>1, SetField
<1>4. /\ clear.done \in BOOLEAN /\ clear.clr \in 0..2
      /\ clear.runs \in [Buffers -> Kinds]
  <2>1. asked \in 0..2
    BY DEF FreeTypeOK
  <2> HIDE DEF cut, heard, asked
  <2> QED
    BY <1>2, <2>1, ClearingType
<1>5. s \in States
  <2>1. gone \in States
    <3> HIDE DEF heard, clear
    <3> QED
      BY <1>3, ClearedType
  <2> HIDE DEF clear, gone
  <2> QED
    BY <2>1, RecRunningType
<1>6. holds \in [Buffers -> Contents \cup {Empty}]
  <2> HIDE DEF clear
  <2> QED
    BY DEF FreeTypeOK
<1>7. /\ fl' = IF ui = "stopped" /\ s.st = "idle"
               THEN [s EXCEPT !.has = holds[lane] # Empty] ELSE s
      /\ run' = clear.runs /\ buf' = holds /\ clr' = clear.clr
      /\ muted' = CcMute(IF now THEN "unmute" ELSE h.mute)
      /\ qany' = IF long /\ fl.press.started = "now" /\ ui = "run"
                 THEN EndPending(h.s) ELSE qany
      /\ lane' = Follow(s) /\ nth' = Marked(s)
  BY DEF UiTrack
<1> HIDE DEF h, cut, now, heard, asked, clear, gone, s, holds
<1>8. fl' \in States
  BY <1>5, <1>7, SetField
<1>9. /\ muted' \in {"no", "user", "replace"} /\ qany' \in BOOLEAN
      /\ lane' \in Buffers /\ nth' \in Contents \cup {Empty}
  BY <1>5, <1>7, CcMuteType, MarkedType, Fields
     DEF EndPending, Follow, FreeTypeOK
<1>10. tick' \in 0..StepTicks
  <2>1. \/ tick' = 0 \/ tick' = tick
        \/ tick < StepTicks /\ tick' = tick + 1
    <3>1. tick' = IF ~playing THEN 0 ELSE IF tick < StepTicks THEN tick + 1
                  ELSE tick
      BY DEF UiTrack
    <3>2. CASE ~playing
      BY <3>1, <3>2
    <3>3. CASE playing /\ tick < StepTicks
      BY <3>1, <3>3
    <3>4. CASE playing /\ ~(tick < StepTicks)
      BY <3>1, <3>4
    <3> QED
      BY <3>2, <3>3, <3>4
  <2> QED
    BY <2>1, TicksAssumption DEF FreeTypeOK
<1>11. /\ ui' \in {"idle", "run", "stopped"} /\ cfg' \in Settings
       /\ clrall' \in {"no", "asked", "bank"} /\ was' \in BOOLEAN /\ auth' \in 0..AuthRun
       /\ newtake' \in BOOLEAN /\ playing' \in BOOLEAN /\ pos' \in 0..L
       /\ due' \in Dues /\ voice' \in Buffers
       /\ entry' \in {"none", "ARM", "OFF", "REPLACE"}
       /\ late' \in BOOLEAN /\ uncut' \subseteq Buffers
  BY DEF UiTrack, FreeTypeOK, AuthRun
<1> QED
  BY <1>4, <1>6, <1>7, <1>8, <1>9, <1>10, <1>11 DEF FreeTypeOK

LEMMA TypeInit == Init => FreeTypeOK
<1> SUFFICES ASSUME Init PROVE FreeTypeOK
  OBVIOUS
<1>1. Zeroed \in States
  BY Stored DEF Zeroed, States, NoPress, Presses, Buffers
<1>2. NoDue \in Dues
  BY DEF Dues
<1>3. 0 \in 0..AuthRun /\ 0 \in 0..L /\ 0 \in 0..StepTicks
  BY LoopAssumption, TicksAssumption DEF AuthRun
<1> QED
  <2>1. /\ cfg \in Settings /\ clr = 0 /\ clrall \in {"no", "asked", "bank"}
        /\ was \in BOOLEAN /\ ui \in {"idle", "run", "stopped"}
        /\ newtake \in BOOLEAN /\ qany \in BOOLEAN /\ playing \in BOOLEAN
        /\ muted \in {"no", "user", "replace"}
        /\ entry \in {"none", "ARM", "OFF", "REPLACE"}
    BY DEF Init
  <2>2. /\ run \in [Buffers -> Kinds]
        /\ buf \in [Buffers -> Contents \cup {Empty}]
        /\ lane \in Buffers /\ voice \in Buffers
        /\ nth \in Contents \cup {Empty}
        /\ late \in BOOLEAN /\ uncut \subseteq Buffers
    BY Stored DEF Init, Kinds
  <2> QED
    BY <1>1, <1>2, <1>3, <2>1, <2>2 DEF Init, FreeTypeOK

LEMMA TypeNext == FreeTypeOK /\ [Next]_vars => FreeTypeOK'
<1> SUFFICES ASSUME FreeTypeOK, [Next]_vars PROVE FreeTypeOK'
  OBVIOUS
<1>1. CASE UNCHANGED vars
  BY <1>1 DEF vars, engine, unit, history, FreeTypeOK, AuthRun
<1>2. CASE UiTick
  BY <1>2, UiHeadType, UiTrackType DEF UiTick
<1> QED
  BY <1>1, <1>2, SeqStepType, RecorderDoneType, TransportType, PedalType,
     OtherPressType DEF Next

(* The engine's state, the recorders, the buffers and the unit keep their  *)
(* types, whatever comes when.                                             *)
THEOREM FreeTypesHold == FreeSpec => []FreeTypeOK
<1> QED
  BY TypeInit, TypeNext, PTL DEF FreeSpec

-----------------------------------------------------------------------------
(***************************************************************************)
(* What the engine's functions do to a pass.                               *)
(***************************************************************************)

(* The buffers' part of the engine's state.                                *)
SameLoop(s, t) ==
  /\ t.rec = s.rec /\ t.cur = s.cur /\ t.swap = s.swap
  /\ t.inplace = s.inplace /\ t.valid = s.valid

SameAnchor(s, t) == t.anchorN = s.anchorN /\ t.anchorAt = s.anchorAt

SamePress(s, t) == t.st = s.st /\ t.press = s.press

(* During a pass the track is on the buffer the pass records into, or is   *)
(* about to be.                                                            *)
Shape(s, x) ==
  IF s.rec = "none" THEN ~s.swap /\ ~s.inplace
  ELSE /\ x.ubuf /\ (s.inplace => ~s.swap)
       /\ s.cur = IF s.swap THEN Flip(s.rec) ELSE s.rec

(* A free take is no pass; only the press that began it can cut it.        *)
TakeShape(s) ==
  s.st = "take" => /\ s.rec = "none"
                   /\ s.press.pedal = "rec" => s.press.started = "take"

LEMMA PassDropDoes ==
  ASSUME NEW s \in States
  PROVE  LET t == PassDrop(s)
         IN /\ SamePress(s, t) /\ SameAnchor(s, t) /\ t.rec = "none"
            /\ s.rec = "none" => t = s
            /\ s.rec # "none" =>
                 /\ ~t.swap /\ ~t.inplace /\ t.valid = s.inplace
                 /\ t.cur = IF s.inplace \/ s.swap THEN s.cur ELSE Flip(s.cur)
BY DEF PassDrop, States, SamePress, SameAnchor

LEMMA PassOverDoes ==
  ASSUME NEW s \in States, NEW x
  PROVE  LET t == PassOver(s, x)
         IN /\ SamePress(s, t) /\ t.rec = "none" /\ t.repl = s.repl
            /\ s.rec = "none" => t = s
            /\ s.rec # "none" =>
                 /\ ~t.swap /\ ~t.inplace /\ t.valid
                 /\ t.cur = IF s.swap THEN Flip(s.cur) ELSE s.cur
BY DEF PassOver, States, SamePress

LEMMA ReplaceOffDoes ==
  ASSUME NEW s \in States
  PROVE  LET t == ReplaceOff(s)
         IN SameLoop(s, t) /\ SameAnchor(s, t) /\ SamePress(s, t)
BY DEF ReplaceOff, States, SameLoop, SameAnchor, SamePress

LEMMA TakenDoes ==
  ASSUME NEW s \in States
  PROVE  LET t == Taken(s)
         IN /\ SameLoop(s, t) /\ t.press = s.press
            /\ IF s.st # "armed" THEN t = s
               ELSE t.st = IF s.repl THEN "idle" ELSE "overdub"
            /\ s.st = "armed" /\ s.repl => t.anchorN = 0
            /\ ~(s.st = "armed" /\ s.repl) => SameAnchor(s, t)
BY DEF Taken, States, SameLoop, SameAnchor

LEMMA IntoDoes ==
  ASSUME NEW s \in States, NEW x, NEW replace \in BOOLEAN
  PROVE  LET t == Into(s, x, replace)
         IN /\ SamePress(s, t) /\ SameAnchor(s, t) /\ t.cur = s.cur
            /\ \/ /\ t.rec = s.cur /\ ~t.swap /\ t.inplace /\ t.valid
                  /\ ~replace /\ x.undoto # 0 /\ s.anchorN = x.undoto
                  /\ s.anchorAt # s.cur
               \/ /\ t.rec = Flip(s.cur) /\ t.swap /\ ~t.inplace /\ ~t.valid
                  /\ \/ replace \/ x.undoto = 0 \/ s.anchorN # x.undoto
                     \/ s.anchorAt = s.cur
BY DEF Into, States, SamePress, SameAnchor

LEMMA RecRunningDoes ==
  ASSUME NEW s \in States
  PROVE  LET t == RecRunning(s)
         IN /\ SamePress(s, t) /\ SameAnchor(s, t) /\ ~t.swap
            /\ t.rec = s.rec /\ t.inplace = s.inplace /\ t.valid = s.valid
            /\ t.cur = IF s.swap THEN Flip(s.cur) ELSE s.cur
BY DEF RecRunning, States, SamePress, SameAnchor

LEMMA ClearedDoes ==
  ASSUME NEW s \in States
  PROVE  LET t == Cleared(s)
         IN /\ SamePress(s, t) /\ t.rec = "none" /\ ~t.swap /\ ~t.inplace
            /\ ~t.valid /\ t.cur = "X" /\ t.anchorN = 0 /\ ~t.has
<1> DEFINE u == [s EXCEPT !.has = FALSE, !.cur = "X", !.rec = "none",
                   !.swap = FALSE, !.valid = FALSE, !.npass = 0,
                   !.anchorN = 0, !.anchorAt = "X", !.inplace = FALSE]
<1>1. /\ u.st = s.st /\ u.press = s.press /\ u.rec = "none" /\ ~u.swap
      /\ ~u.inplace /\ ~u.valid /\ u.cur = "X" /\ u.anchorN = 0 /\ ~u.has
  BY DEF States
<1>2. u \in States
  BY SetField, Stored, Zenon
<1>3. Cleared(s) = ReplaceOff(u)
  BY DEF Cleared
<1>4. ReplaceOff(u).has = u.has
  BY <1>2 DEF ReplaceOff, States
<1> QED
  BY <1>1, <1>2, <1>3, <1>4, ReplaceOffDoes
     DEF SameLoop, SameAnchor, SamePress

LEMMA ResetDoes ==
  ASSUME NEW s \in States
  PROVE  LET t == Reset(s)
         IN /\ t.st = "idle" /\ t.press = NoPress /\ t.rec = "none"
            /\ ~t.swap /\ ~t.inplace /\ ~t.valid /\ t.cur = "X"
            /\ t.anchorN = 0
<1> DEFINE u == [s EXCEPT !.st = "idle", !.press = NoPress, !.qpend = "none"]
<1>1. u \in States
  BY SetField, Stored
<1>2. u.st = "idle" /\ u.press = NoPress
  BY DEF States
<1>3. Reset(s) = Cleared(u)
  BY DEF Reset
<1> QED
  BY <1>1, <1>2, <1>3, ClearedDoes DEF SamePress

LEMMA StoppedDoes ==
  ASSUME NEW s \in States
  PROVE  LET t == Stopped(s)
         IN /\ t.press = s.press
            /\ t.st = IF s.st \in {"armed", "overdub"} THEN "idle" ELSE s.st
            /\ SameAnchor(s, t) /\ t.rec = "none"
            /\ s.rec = "none" => SameLoop(s, t)
            /\ s.rec # "none" =>
                 /\ ~t.swap /\ ~t.inplace /\ t.valid = s.inplace
                 /\ t.cur = IF s.inplace \/ s.swap THEN s.cur ELSE Flip(s.cur)
<1> DEFINE st == IF s.st \in {"armed", "overdub"} THEN "idle" ELSE s.st
           u == [s EXCEPT !.st = st, !.qpend = "none"]
           v == ReplaceOff(u)
<1>1. u \in States
  <2>1. st \in {"idle", "take", "armed", "overdub"}
    BY Fields
  <2> HIDE DEF st
  <2> QED
    BY <2>1, SetField
<1>2. SameLoop(s, u) /\ SameAnchor(s, u) /\ u.press = s.press /\ u.st = st
  <2> HIDE DEF st
  <2> QED
    BY DEF States, SameLoop, SameAnchor
<1>3. v \in States /\ SameLoop(u, v) /\ SameAnchor(u, v) /\ SamePress(u, v)
  <2> HIDE DEF u
  <2> QED
    BY <1>1, ReplaceOffType, ReplaceOffDoes
<1>4. Stopped(s) = PassDrop(v)
  BY DEF Stopped
<1> HIDE DEF v, u, st
<1>5. SameLoop(s, v) /\ SameAnchor(s, v) /\ v.press = s.press /\ v.st = st
  BY <1>2, <1>3 DEF SameLoop, SameAnchor, SamePress
<1>6. LET t == PassDrop(v)
      IN /\ SamePress(v, t) /\ SameAnchor(v, t) /\ t.rec = "none"
         /\ v.rec = "none" => t = v
         /\ v.rec # "none" =>
              /\ ~t.swap /\ ~t.inplace /\ t.valid = v.inplace
              /\ t.cur = IF v.inplace \/ v.swap THEN v.cur ELSE Flip(v.cur)
  BY <1>3, PassDropDoes
<1> QED
  BY <1>4, <1>5, <1>6 DEF SameLoop, SameAnchor, SamePress, st

LEMMA PatternDoes ==
  ASSUME NEW s \in States, NEW mode
  PROVE  LET t == Pattern(s, mode)
         IN /\ SameLoop(s, t) /\ SameAnchor(s, t) /\ t.press = s.press
            /\ s.st = "take" => t = s
            /\ s.st # "take" => t.st # "take"
BY DEF Pattern, States, SameLoop, SameAnchor

LEMMA LoopStartDoes ==
  ASSUME NEW s \in States
  PROVE  LET t == LoopStart(s).s
         IN SameLoop(s, t) /\ SameAnchor(s, t) /\ SamePress(s, t)
BY DEF LoopStart, Result, States, SameLoop, SameAnchor, SamePress

LEMMA ReleaseDoes ==
  ASSUME NEW s \in States, NEW pedal
  PROVE  LET t == Release(s, pedal)
         IN /\ SameLoop(s, t) /\ SameAnchor(s, t) /\ t.st = s.st
            /\ t.press \in {s.press, NoPress}
BY DEF Release, States, SameLoop, SameAnchor

LEMMA HoldDoes ==
  ASSUME NEW s \in States, NEW pedal, NEW w, NEW undo, NEW started
  PROVE  LET t == Hold(s, pedal, w, undo, started)
         IN /\ SameLoop(s, t) /\ SameAnchor(s, t) /\ t.st = s.st
            /\ t.press.pedal = pedal /\ t.press.started = started
BY DEF Hold, States, SameLoop, SameAnchor

LEMMA LaunchDoes ==
  ASSUME NEW s \in States, NEW x, NEW fits \in BOOLEAN
  PROVE  LET r == Launch(s, x, fits)
         IN /\ SameLoop(s, r.s) /\ r.s.press = s.press
            /\ \/ r.do = "toast" /\ r.s = s
               \/ /\ r.do = "launch" /\ r.s.st = "idle" /\ fits
                  /\ IF x.undoto = 1
                     THEN r.s.anchorN = 1 /\ r.s.anchorAt = s.cur
                     ELSE r.s.anchorN = 0
BY DEF Launch, Result, States, SameLoop

LEMMA EndDoes ==
  ASSUME NEW s \in States, NEW on, NEW m
  PROVE  LET r == End(s, on, m)
         IN /\ SameLoop(s, r.s) /\ SameAnchor(s, r.s) /\ SamePress(s, r.s)
            /\ r.do \in {"nothing", "toast"}
BY DEF End, Result, States, SameLoop, SameAnchor, SamePress

LEMMA RecPressDoes ==
  ASSUME NEW s \in States, NEW x \in Configs, NEW on \in BOOLEAN,
         NEW slave \in BOOLEAN, NEW others, NEW fits \in BOOLEAN
  PROVE  LET r == RecPress(s, x, on, slave, others, fits)
         IN /\ SameLoop(s, r.s)
            /\ r.do \in {"toast", "launch", "take"}
            /\ r.do = "launch" => s.st = "take" /\ r.s.st = "idle" /\ fits
            /\ r.do = "take" =>
                 /\ ~on /\ x.role = "FREE" /\ s.st = "idle" /\ ~s.has
                 /\ r.s.st = "take"
                 /\ r.s.press.pedal = "rec" /\ r.s.press.started = "take"
            /\ r.do = "toast" => r.s = s \/ (s.st # "take" /\ r.s.st # "take")
            /\ IF r.do = "launch"
               THEN IF x.undoto = 1
                    THEN r.s.anchorN = 1 /\ r.s.anchorAt = s.cur
                    ELSE r.s.anchorN = 0
               ELSE SameAnchor(s, r.s)
<1> SUFFICES ASSUME NEW r,
                    r = RecPress(s, x, on, slave, others, fits)
             PROVE
                 /\ SameLoop(s, r.s)
                 /\ r.do \in {"toast", "launch", "take"}
                 /\ r.do = "launch" => s.st = "take" /\ r.s.st = "idle" /\ fits
                 /\ r.do = "take" =>
                      /\ ~on /\ x.role = "FREE" /\ s.st = "idle" /\ ~s.has
                      /\ r.s.st = "take"
                      /\ r.s.press.pedal = "rec" /\ r.s.press.started = "take"
                 /\ r.do = "toast" => r.s = s \/ (s.st # "take" /\ r.s.st # "take")
                 /\ IF r.do = "launch"
                    THEN IF x.undoto = 1
                         THEN r.s.anchorN = 1 /\ r.s.anchorAt = s.cur
                         ELSE r.s.anchorN = 0
                    ELSE SameAnchor(s, r.s)
  OBVIOUS
<1> DEFINE t1 == [s EXCEPT !.st = "take"]
           t2 == [s EXCEPT !.st = "armed"]
           t3 == [s EXCEPT !.st = "idle", !.repl = FALSE]
           h1 == Hold(t1, "rec", s.st, "none", "take")
           h2 == Hold(t2, "rec", s.st, "none", "none")
           h3 == Hold(t3, "rec", s.st, "none", "none")
<1>1. /\ t1 \in States /\ SameLoop(s, t1) /\ SameAnchor(s, t1)
      /\ t1.st = "take"
      /\ t2 \in States /\ SameLoop(s, t2) /\ SameAnchor(s, t2)
      /\ t2.st = "armed"
      /\ t3 \in States /\ SameLoop(s, t3) /\ SameAnchor(s, t3)
      /\ t3.st = "idle"
  <2>1. t1 \in States /\ t2 \in States /\ t3 \in States
    BY SetField
  <2> QED
    BY <2>1 DEF States, SameLoop, SameAnchor
<1>2. /\ SameLoop(s, h1) /\ SameAnchor(s, h1) /\ h1.st = "take"
      /\ h1.press.pedal = "rec" /\ h1.press.started = "take"
      /\ SameLoop(s, h2) /\ SameAnchor(s, h2) /\ h2.st = "armed"
      /\ SameLoop(s, h3) /\ SameAnchor(s, h3) /\ h3.st = "idle"
  <2> HIDE DEF t1, t2, t3
  <2> QED
    BY <1>1, HoldDoes DEF SameLoop, SameAnchor
<1>3. CASE s.st = "take"
  <2>1. r = Launch(s, x, fits)
    BY <1>3 DEF RecPress
  <2>2. /\ SameLoop(s, r.s)
        /\ \/ r.do = "toast" /\ r.s = s
           \/ /\ r.do = "launch" /\ r.s.st = "idle" /\ fits
              /\ IF x.undoto = 1
                 THEN r.s.anchorN = 1 /\ r.s.anchorAt = s.cur
                 ELSE r.s.anchorN = 0
    BY <2>1, LaunchDoes
  <2>3. CASE r.do = "toast" /\ r.s = s
    BY <1>3, <2>2, <2>3 DEF SameAnchor
  <2>4. CASE r.do = "launch"
    BY <1>3, <2>2, <2>4
  <2> QED
    BY <2>2, <2>3, <2>4
<1>4. CASE s.st # "take"
  <2>1. \/ r = Result(s, "toast", "none")
        \/ /\ ~on /\ x.role = "FREE" /\ s.st = "idle" /\ ~s.has
           /\ r = Result(h1, "take", "none")
        \/ r = Result(h2, "toast", "none")
        \/ r = Result(h3, "toast", "none")
    BY <1>4 DEF RecPress
  <2>2. SameLoop(s, s) /\ SameAnchor(s, s)
    BY DEF SameLoop, SameAnchor
  <2> HIDE DEF h1, h2, h3
  <2> QED
    BY <1>2, <1>4, <2>1, <2>2 DEF Result
<1> QED
  BY <1>3, <1>4

LEMMA PlayPressDoes ==
  ASSUME NEW s \in States, NEW x \in Configs, NEW on \in BOOLEAN,
         NEW m \in BOOLEAN, NEW others, NEW fits \in BOOLEAN
  PROVE  LET r == PlayPress(s, x, on, m, others, fits)
         IN /\ SameLoop(s, r.s)
            /\ r.do \in {"toast", "launch", "play", "nothing"}
            /\ r.do = "launch" => s.st = "take" /\ r.s.st = "idle" /\ fits
            /\ r.do # "launch" => r.s.st = s.st
            /\ r.do = "play" => ~on /\ s.st # "take"
            /\ r.s.press = s.press \/ r.s.press.pedal = "play"
            /\ IF r.do = "launch"
               THEN IF x.undoto = 1
                    THEN r.s.anchorN = 1 /\ r.s.anchorAt = s.cur
                    ELSE r.s.anchorN = 0
               ELSE SameAnchor(s, r.s)
<1> DEFINE r == PlayPress(s, x, on, m, others, fits)
           launch == Launch(s, x, fits)
           held(started, undo) == Hold(s, "play", "idle", undo, started)
<1>1. SameLoop(s, s) /\ SameAnchor(s, s)
  BY DEF SameLoop, SameAnchor
<1>2. \A started, undo : LET h == held(started, undo)
         IN /\ SameLoop(s, h) /\ SameAnchor(s, h) /\ h.st = s.st
            /\ h.press.pedal = "play"
  BY HoldDoes
<1>3. CASE s.st = "take"
  <2>1. launch.s \in States
    BY LaunchType DEF GoodResult
  <2>2. \A started : LET h == Hold(launch.s, "play", "idle", "none", started)
          IN /\ SameLoop(launch.s, h) /\ SameAnchor(launch.s, h)
             /\ h.st = launch.s.st /\ h.press.pedal = "play"
    BY <2>1, HoldDoes
  <2>3. \E started :
          r = Result(Hold(launch.s, "play", "idle", "none", started),
                     launch.do, "none")
    BY <1>3 DEF PlayPress
  <2> QED
    BY <1>3, <2>2, <2>3, LaunchDoes DEF Result, SameLoop, SameAnchor
<1>5. CASE s.st # "take"
  <2>1. \/ r = Result(s, "toast", "none")
        \/ /\ ~on
           /\ \E undo, mute : r = Result(held("play", undo), "play", mute)
        \/ r = End(held("end", "none"), on, m)
        \/ \E undo, mute : r = Result(held("now", undo), "nothing", mute)
    BY <1>5 DEF PlayPress
  <2>2. CASE r = Result(s, "toast", "none")
    BY <1>1, <1>5, <2>2 DEF Result
  <2>3. CASE ~on /\ \E undo, mute : r = Result(held("play", undo), "play", mute)
    BY <1>2, <1>5, <2>3 DEF Result
  <2>4. CASE r = End(held("end", "none"), on, m)
    <3>1. held("end", "none") \in States
      BY HoldType
    <3> QED
      BY <1>2, <1>5, <2>4, <3>1, EndDoes DEF SameLoop, SameAnchor, SamePress
  <2>5. CASE \E undo, mute : r = Result(held("now", undo), "nothing", mute)
    BY <1>2, <1>5, <2>5 DEF Result
  <2> QED
    BY <2>1, <2>2, <2>3, <2>4, <2>5
<1> QED
  BY <1>3, <1>5

(* UNDO and REDO.                                                          *)
UndoOutcome(s, x, r) ==
  /\ r.s.press = s.press /\ SameAnchor(s, r.s)
  /\ \/ /\ r.do = "toast" /\ r.s = s /\ (s.rec = "none" \/ ~x.ubuf)
     \/ /\ r.do = "toast" /\ x.ubuf /\ s.rec = "none" /\ s.valid
        /\ r.s.st = s.st /\ r.s.rec = "none" /\ r.s.cur = Flip(s.cur)
        /\ r.s.swap = s.swap /\ r.s.inplace = s.inplace /\ r.s.valid
     \/ /\ r.do = "cut" /\ x.ubuf /\ s.rec # "none"
        /\ r.s.st = "idle" /\ r.s.rec = "none" /\ ~r.s.inplace
        /\ IF s.inplace
           THEN r.s.swap = s.swap /\ r.s.valid /\ r.s.cur = Flip(s.cur)
           ELSE /\ ~r.s.swap /\ ~r.s.valid
                /\ r.s.cur = IF s.swap THEN s.cur ELSE Flip(s.cur)

LEMMA UndoDoes ==
  ASSUME NEW s \in States, NEW x \in Configs
  PROVE  UndoOutcome(s, x, Undo(s, x))
<1> SUFFICES ASSUME NEW r, r = Undo(s, x)
             PROVE  UndoOutcome(s, x, r)
  OBVIOUS
<1> DEFINE t1 == [s EXCEPT !.rec = "none", !.inplace = FALSE, !.valid = TRUE,
                           !.cur = Flip(s.cur), !.st = "idle"]
           d == PassDrop(s)
           t2 == [d EXCEPT !.st = "idle",
                     !.rpass = IF d.rpass = "mute" THEN "none" ELSE d.rpass]
           t3 == [s EXCEPT !.cur = Flip(s.cur)]
<1>1. /\ t1.press = s.press /\ SameAnchor(s, t1) /\ t1.st = "idle"
      /\ t1.rec = "none" /\ ~t1.inplace /\ t1.swap = s.swap /\ t1.valid
      /\ t1.cur = Flip(s.cur)
  BY DEF States, SameAnchor
<1>2. /\ t2.press = d.press /\ SameAnchor(d, t2) /\ t2.st = "idle"
      /\ t2.rec = d.rec /\ t2.inplace = d.inplace /\ t2.swap = d.swap
      /\ t2.valid = d.valid /\ t2.cur = d.cur
  <2>1. d \in States
    BY PassDropType
  <2> HIDE DEF d
  <2> QED
    BY <2>1 DEF States, SameAnchor
<1>3. /\ t3.press = s.press /\ SameAnchor(s, t3) /\ t3.st = s.st
      /\ t3.rec = s.rec /\ t3.inplace = s.inplace /\ t3.swap = s.swap
      /\ t3.valid = s.valid /\ t3.cur = Flip(s.cur)
  BY DEF States, SameAnchor
<1>4. /\ SamePress(s, d) /\ SameAnchor(s, d) /\ d.rec = "none"
      /\ s.rec # "none" =>
           /\ ~d.swap /\ ~d.inplace /\ d.valid = s.inplace
           /\ d.cur = IF s.inplace \/ s.swap THEN s.cur ELSE Flip(s.cur)
  BY PassDropDoes
<1>5. \/ r = Result(s, "toast", "none") /\ (~x.ubuf \/ s.rec = "none")
      \/ /\ x.ubuf /\ s.rec # "none" /\ s.inplace
         /\ r = Result(t1, "cut", "none")
      \/ /\ x.ubuf /\ s.rec # "none" /\ ~s.inplace
         /\ r = Result(t2, "cut", "none")
      \/ /\ x.ubuf /\ s.rec = "none" /\ s.valid
         /\ r = Result(t3, "toast", "none")
  BY DEF Undo
<1> HIDE DEF t1, t2, t3, d
<1>6. CASE r = Result(s, "toast", "none") /\ (~x.ubuf \/ s.rec = "none")
  BY <1>6 DEF UndoOutcome, Result, SameAnchor
<1>7. CASE /\ x.ubuf /\ s.rec # "none" /\ s.inplace
           /\ r = Result(t1, "cut", "none")
  BY <1>1, <1>7 DEF UndoOutcome, Result
<1>8. CASE /\ x.ubuf /\ s.rec # "none" /\ ~s.inplace
           /\ r = Result(t2, "cut", "none")
  BY <1>2, <1>4, <1>8 DEF UndoOutcome, Result, SameAnchor, SamePress
<1>9. CASE /\ x.ubuf /\ s.rec = "none" /\ s.valid
           /\ r = Result(t3, "toast", "none")
  <2>1. r.s = t3 /\ r.do = "toast"
    BY <1>9 DEF Result
  <2>2. s.valid = TRUE
    BY <1>9, Fields
  <2>3. t3.valid
    BY <1>3, <2>2
  <2> QED
    BY <1>3, <1>9, <2>1, <2>3 DEF UndoOutcome
<1> QED
  BY <1>5, <1>6, <1>7, <1>8, <1>9

(* A long press: of PLAY, or of REC as UNDO or as a clear.                 *)
LEMMA LongPressDoes ==
  ASSUME NEW s \in States, NEW x \in Configs, NEW on \in BOOLEAN,
         NEW m \in BOOLEAN
  PROVE  \E r :
    /\ r = LongPress(s, x, on, m) /\ r.s.press = NoPress
    /\ \/ /\ s.press.pedal = "play" /\ r.do \in {"nothing", "toast"}
          /\ SameLoop(s, r.s) /\ SameAnchor(s, r.s) /\ r.s.st = s.st
       \/ /\ s.press.pedal # "play" /\ s.press.started # "take"
          /\ \E u \in States :
               /\ SameLoop(s, u) /\ SameAnchor(s, u) /\ u.press = NoPress
               /\ u.st = IF s.rec = "none" THEN s.press.was ELSE s.st
               /\ UndoOutcome(u, x, r)
       \/ /\ s.press.pedal # "play" /\ r.do = "clear" /\ r.s.st = "idle"
          /\ SameLoop(s, r.s) /\ SameAnchor(s, r.s)
<1> SUFFICES ASSUME NEW r, r = LongPress(s, x, on, m)
    PROVE
    /\ r.s.press = NoPress
    /\ \/ /\ s.press.pedal = "play" /\ r.do \in {"nothing", "toast"}
          /\ SameLoop(s, r.s) /\ SameAnchor(s, r.s) /\ r.s.st = s.st
       \/ /\ s.press.pedal # "play" /\ s.press.started # "take"
          /\ \E u \in States :
               /\ SameLoop(s, u) /\ SameAnchor(s, u) /\ u.press = NoPress
               /\ u.st = IF s.rec = "none" THEN s.press.was ELSE s.st
               /\ UndoOutcome(u, x, r)
       \/ /\ s.press.pedal # "play" /\ r.do = "clear" /\ r.s.st = "idle"
          /\ SameLoop(s, r.s) /\ SameAnchor(s, r.s)
  OBVIOUS
<1> DEFINE up == [s EXCEPT !.press = NoPress]
           then == IF s.rec = "none" THEN s.press.was ELSE up.st
           u == [up EXCEPT !.st = then]
           gone == [up EXCEPT !.st = "idle", !.has = FALSE]
           end == End(up, on, s.press.undo = "mute")
<1>1. /\ up \in States /\ SameLoop(s, up) /\ SameAnchor(s, up)
      /\ up.press = NoPress /\ up.st = s.st
  <2>1. up \in States
    BY SetField, Stored
  <2> QED
    BY <2>1 DEF States, SameLoop, SameAnchor
<1>2. then \in {"idle", "take", "armed", "overdub"}
  BY <1>1, Fields DEF Presses
<1>3. /\ u \in States /\ SameLoop(s, u) /\ SameAnchor(s, u)
      /\ u.press = NoPress /\ u.st = then
  <2> HIDE DEF up, then
  <2>1. u \in States
    BY <1>1, <1>2, SetField
  <2> QED
    BY <1>1, <2>1 DEF States, SameLoop, SameAnchor
<1>4. /\ SameLoop(s, gone) /\ SameAnchor(s, gone)
      /\ gone.press = NoPress /\ gone.st = "idle"
  <2> HIDE DEF up
  <2> QED
    BY <1>1 DEF States, SameLoop, SameAnchor
<1>5. /\ SameLoop(up, end.s) /\ SameAnchor(up, end.s) /\ SamePress(up, end.s)
      /\ end.do \in {"nothing", "toast"}
  <2> HIDE DEF up
  <2> QED
    BY <1>1, EndDoes
<1>6. then = IF s.rec = "none" THEN s.press.was ELSE s.st
  BY <1>1
<1>7. \/ s.press.pedal = "play" /\ r = Result(up, "nothing", "none")
      \/ s.press.pedal = "play" /\ r = Result(end.s, end.do, s.press.undo)
      \/ /\ s.press.pedal # "play" /\ s.press.started # "take"
         /\ r = Undo(u, x)
      \/ s.press.pedal # "play" /\ r = Result(gone, "clear", "none")
  BY DEF LongPress
<1> HIDE DEF up, then, u, gone, end
<1>8. CASE s.press.pedal = "play" /\ r = Result(up, "nothing", "none")
  BY <1>1, <1>8 DEF Result
<1>9. CASE s.press.pedal = "play" /\ r = Result(end.s, end.do, s.press.undo)
  BY <1>1, <1>5, <1>9 DEF Result, SameLoop, SameAnchor, SamePress
<1>10. CASE /\ s.press.pedal # "play" /\ s.press.started # "take"
            /\ r = Undo(u, x)
  <2>1. UndoOutcome(u, x, r)
    BY <1>3, <1>10, UndoDoes
  <2>2. r.s.press = NoPress
    BY <1>3, <2>1 DEF UndoOutcome
  <2> QED
    BY <1>3, <1>6, <1>10, <2>1, <2>2
<1>11. CASE s.press.pedal # "play" /\ r = Result(gone, "clear", "none")
  BY <1>4, <1>11 DEF Result
<1> QED
  BY <1>7, <1>8, <1>9, <1>10, <1>11

LEMMA SameShape ==
  ASSUME NEW s, NEW t, NEW x, SameLoop(s, t), Shape(s, x)
  PROVE  Shape(t, x)
BY DEF SameLoop, Shape

LEMMA UndoShape ==
  ASSUME NEW s \in States, NEW x \in Configs, NEW r, Shape(s, x),
         UndoOutcome(s, x, r)
  PROVE  Shape(r.s, x) /\ r.s.rec = "none"
BY DEF UndoOutcome, Shape

(* The gate of the recorder trigs.                                         *)
LEMMA GateDoes ==
  ASSUME NEW s \in States, NEW x \in Configs, Shape(s, x), TakeShape(s)
  PROVE  \E g :
    /\ g = Gate(s, x)
    /\ Shape(g.s, x) /\ TakeShape(g.s) /\ g.s.press = s.press
    /\ IF s.st \in {"armed", "overdub"}
       THEN /\ g.s.st # "take"
            /\ IF x.ubuf THEN /\ g.fires = g.s.rec /\ g.fires \in Buffers
                              /\ ~g.s.inplace => g.s.swap /\ g.s.rec # s.rec
                         ELSE g.fires = "X" /\ g.s.rec = "none"
       ELSE g.fires = "none" /\ g.s = PassOver(s, x) /\ g.s.st = s.st
<1> SUFFICES ASSUME NEW g, g = Gate(s, x)
    PROVE
    /\ Shape(g.s, x) /\ TakeShape(g.s) /\ g.s.press = s.press
    /\ IF s.st \in {"armed", "overdub"}
       THEN /\ g.s.st # "take"
            /\ IF x.ubuf THEN /\ g.fires = g.s.rec /\ g.fires \in Buffers
                              /\ ~g.s.inplace => g.s.swap /\ g.s.rec # s.rec
                         ELSE g.fires = "X" /\ g.s.rec = "none"
       ELSE g.fires = "none" /\ g.s = PassOver(s, x) /\ g.s.st = s.st
  OBVIOUS
<1> DEFINE over == PassOver(s, x)
           replace == over.st = "armed" /\ over.repl
           taken == Taken(over)
           into == Into(taken, x, replace)
<1>1. /\ over \in States /\ SamePress(s, over) /\ over.rec = "none"
      /\ Shape(over, x) /\ over.cur \in Buffers
      /\ s.rec # "none" => over.cur = s.rec
  <2>1. over \in States
    BY PassOverType
  <2>2. /\ SamePress(s, over) /\ over.rec = "none"
        /\ s.rec = "none" => over = s
        /\ s.rec # "none" =>
             /\ ~over.swap /\ ~over.inplace
             /\ over.cur = IF s.swap THEN Flip(s.cur) ELSE s.cur
    BY PassOverDoes
  <2>3. s.cur \in Buffers /\ s.rec \in {"none"} \cup Buffers
    BY Fields
  <2> HIDE DEF over
  <2>4. s.rec # "none" => over.cur = s.rec
    BY <2>2, <2>3, FlipFacts DEF Shape
  <2> QED
    BY <2>1, <2>2, <2>3, <2>4 DEF Shape
<1>2. /\ taken \in States /\ SameLoop(over, taken)
      /\ taken.press = over.press
      /\ over.st \in {"armed", "overdub"} => taken.st \in {"idle", "overdub"}
      /\ over.st \notin {"armed", "overdub"} => taken = over
  <2> HIDE DEF over
  <2> QED
    BY <1>1, TakenType, TakenDoes
<1>3. /\ into \in States /\ SamePress(taken, into) /\ into.cur = taken.cur
      /\ \/ into.rec = taken.cur /\ ~into.swap /\ into.inplace
         \/ into.rec = Flip(taken.cur) /\ into.swap /\ ~into.inplace
  <2> HIDE DEF taken, replace
  <2>1. replace \in BOOLEAN
    BY DEF replace
  <2> QED
    BY <1>2, <2>1, IntoType, IntoDoes
<1>4. g = [s |-> IF over.st \in {"armed", "overdub"} /\ x.ubuf THEN into
                 ELSE taken,
           fires |-> IF over.st \notin {"armed", "overdub"} THEN "none"
                     ELSE IF x.ubuf
                          THEN (IF over.st \in {"armed", "overdub"} /\ x.ubuf
                                THEN into ELSE taken).rec
                          ELSE "X"]
  BY DEF Gate
<1> HIDE DEF over, taken, into, replace
<1>5. s.st = over.st /\ s.press = over.press
  BY <1>1 DEF SamePress
<1>6. CASE s.st \in {"armed", "overdub"} /\ x.ubuf
  <2>1. g.s = into /\ g.fires = into.rec
    BY <1>4, <1>5, <1>6
  <2>2. taken.cur = over.cur
    BY <1>2 DEF SameLoop
  <2>3. into.rec \in Buffers /\ (~into.inplace => into.rec # s.rec)
    BY <1>1, <1>3, <2>2, FlipFacts, Fields DEF Buffers
  <2>4. Shape(into, x)
    BY <1>1, <1>3, <1>6, <2>2, FlipFacts DEF Shape, Buffers
  <2>5. into.st # "take" /\ into.press = s.press
    BY <1>2, <1>3, <1>5, <1>6 DEF SamePress
  <2> QED
    BY <1>3, <1>6, <2>1, <2>3, <2>4, <2>5 DEF TakeShape
<1>7. CASE s.st \in {"armed", "overdub"} /\ ~x.ubuf
  <2>1. g.s = taken /\ g.fires = "X"
    BY <1>4, <1>5, <1>7
  <2>2. Shape(taken, x)
    BY <1>1, <1>2, SameShape
  <2>3. taken.st # "take" /\ taken.press = s.press
    BY <1>2, <1>5, <1>7
  <2> QED
    BY <1>1, <1>2, <1>7, <2>1, <2>2, <2>3 DEF TakeShape, SameLoop
<1>8. CASE s.st \notin {"armed", "overdub"}
  <2>1. g.s = over /\ g.fires = "none"
    BY <1>2, <1>4, <1>5, <1>8
  <2> QED
    BY <1>1, <1>5, <1>8, <2>1 DEF TakeShape, over
<1> QED
  BY <1>6, <1>7, <1>8

-----------------------------------------------------------------------------
(***************************************************************************)
(* The invariant behind NeverWritesWhatPlays.                              *)
(***************************************************************************)

(* No UNDO and no clear overtakes a start that is prepared, and no clear   *)
(* comes under a recorder it does not wait for.                            *)
Apart == ~Early /\ \A x \in Settings : ~x.under

LEMMA ApartNow == FreeTypeOK /\ Apart => ~Early /\ ~cfg.under
BY DEF FreeTypeOK, Apart

(* While a clear is due nothing is about to record.                        *)
ClearsAlone ==
  /\ ClearDue => due = NoDue
  /\ clrall # "no" => Quiet

(* A pass is of a sequencer that plays, or whose stop is not yet seen.     *)
Passes ==
  /\ Shape(fl, c) /\ TakeShape(fl)
  /\ fl.rec # "none" => playing \/ was

(* A recorder that makes a pass is the engine's, until the last step of    *)
(* the loop, which prepares the next.                                      *)
Recorders ==
  /\ run["X"] = "take" => fl.st = "take"
  /\ run["Y"] # "take"
  /\ \A r \in Buffers : Pass(r) =>
       IF c.ubuf THEN fl.rec = r \/ ~playing \/ pos = L
                 ELSE r = "X" /\ run[r] = "inplace"

(* A start prepared is the engine's pass.  Its recorder is free, and from  *)
(* the next UI tick on the slot has the other buffer.                      *)
Window ==
  due # NoDue =>
    /\ playing /\ due.rec \in Buffers
    /\ IF c.ubuf THEN fl.rec = due.rec ELSE due.rec = "X"
    /\ due.kind = IF c.ubuf /\ ~fl.inplace THEN "pass" ELSE "inplace"
    /\ due.kind = "pass" => /\ fl.swap /\ run[due.rec] = "off"
                            /\ tick > 0 => lane = fl.cur

(* What records has something in its buffer.                               *)
RecordedIsFull == run["X"] # "off" => buf["X"] # Empty

LoopInv ==
  /\ FreeTypeOK /\ ClearsAlone /\ Passes /\ Recorders /\ Window
  /\ NeverWritesWhatPlays /\ RecordedIsFull

LEMMA LoopInit == Init => LoopInv
<1> SUFFICES ASSUME Init PROVE LoopInv
  OBVIOUS
<1>1. FreeTypeOK
  BY TypeInit
<1>2. fl = Zeroed /\ due = NoDue /\ \A r \in Buffers : run[r] = "off"
  BY DEF Init
<1>3. fl.st = "idle" /\ fl.rec = "none" /\ ~fl.swap /\ ~fl.inplace
  BY <1>2 DEF Zeroed
<1>4. ~ClearDue /\ clrall = "no"
  BY DEF Init, ClearDue
<1> QED
  BY <1>1, <1>2, <1>3, <1>4, Stored
     DEF LoopInv, ClearsAlone, Passes, Shape, TakeShape, Recorders, Pass,
         Window, NeverWritesWhatPlays, RecordedIsFull, Buffers

LEMMA StopRecorderDoes ==
  ASSUME NEW r \in Buffers, NEW runs \in [Buffers -> Kinds]
  PROVE  \A q \in Buffers :
           LET t == StopRecorder(r, runs)
           IN /\ t[q] \in {runs[q], "ending"}
              /\ t[q] = "off" <=> runs[q] = "off"
              /\ IF q = r THEN t[q] \in {"off", "ending"} ELSE t[q] = runs[q]
BY DEF StopRecorder, Kinds

(* The first step's preparation, with the engine in state s.               *)
LEMMA PrepareDoes ==
  ASSUME FreeTypeOK, NEW s \in States, NEW q, Shape(s, c), TakeShape(s),
         Prepare(s, q)
  PROVE  /\ Shape(fl', c) /\ TakeShape(fl') /\ fl'.press = s.press
         /\ s.st \notin {"armed", "overdub"} =>
              due' = NoDue /\ fl'.st = s.st /\ fl'.rec = "none"
         /\ s.st \in {"armed", "overdub"} => fl'.st # "take"
         /\ due' # NoDue =>
              /\ s.st \in {"armed", "overdub"}
              /\ due'.rec \in Buffers
              /\ IF c.ubuf THEN fl'.rec = due'.rec ELSE due'.rec = "X"
              /\ due'.kind = IF c.ubuf /\ ~fl'.inplace THEN "pass"
                             ELSE "inplace"
              /\ due'.kind = "pass" => fl'.swap /\ due'.rec # s.rec
<1>1. c \in Configs
  BY SettingsFact
<1>2. PICK g :
        /\ g = Gate(s, c)
        /\ Shape(g.s, c) /\ TakeShape(g.s) /\ g.s.press = s.press
        /\ IF s.st \in {"armed", "overdub"}
           THEN /\ g.s.st # "take"
                /\ IF c.ubuf THEN /\ g.fires = g.s.rec /\ g.fires \in Buffers
                                  /\ ~g.s.inplace => g.s.swap /\ g.s.rec # s.rec
                             ELSE g.fires = "X" /\ g.s.rec = "none"
           ELSE g.fires = "none" /\ g.s = PassOver(s, c) /\ g.s.st = s.st
  BY <1>1, GateDoes
<1>3. /\ fl' = g.s
      /\ due' = IF g.fires = "none" THEN NoDue
                ELSE [rec |-> g.fires,
                      kind |-> IF c.ubuf /\ ~g.s.inplace THEN "pass"
                               ELSE "inplace"]
  BY <1>2 DEF Prepare
<1>4. CASE s.st \notin {"armed", "overdub"}
  BY <1>2, <1>3, <1>4, PassOverDoes
<1>5. CASE s.st \in {"armed", "overdub"}
  <2>1. g.fires # "none" /\ g.fires \in Buffers
    BY <1>2, <1>5 DEF Buffers
  <2>2. /\ due'.rec = g.fires
        /\ due'.kind = IF c.ubuf /\ ~g.s.inplace THEN "pass" ELSE "inplace"
    BY <1>3, <2>1
  <2>3. due'.kind = "pass" => c.ubuf /\ ~g.s.inplace
    BY <2>2
  <2> QED
    BY <1>2, <1>3, <1>5, <2>1, <2>2, <2>3
<1> QED
  BY <1>4, <1>5

LEMMA TogglesDoes ==
  ASSUME FreeTypeOK, Toggles
  PROVE  SameLoop(fl, fl') /\ SamePress(fl, fl') /\ SameAnchor(fl, fl')
<1>1. CASE qany
  <2>1. fl' = LoopStart(fl).s
    BY <1>1 DEF Toggles
  <2> QED
    BY <2>1, LoopStartDoes DEF FreeTypeOK
<1>2. CASE ~qany
  BY <1>2 DEF Toggles, SameLoop, SamePress, SameAnchor
<1> QED
  BY <1>1, <1>2 DEF FreeTypeOK

(* The first step: the start prepared is made, other passes end.           *)
LEMMA LoopBeginsKeeps ==
  ASSUME LoopInv, SeqStep, pos' = 1
  PROVE  LoopInv'
<1>1. FreeTypeOK /\ FreeTypeOK'
  BY SeqStepType DEF LoopInv
<1>2. LoopBegins
  BY DEF SeqStep
<1>3. /\ UNCHANGED <<cfg, clr, clrall, was, entry, playing>>
      /\ playing /\ tick > 0 /\ tick' = 0
  BY DEF SeqStep
<1>4. SameLoop(fl, fl') /\ SamePress(fl, fl')
  BY <1>1, <1>2, TogglesDoes DEF LoopBegins
<1>5. due' = NoDue /\ voice' = lane
  BY <1>2 DEF LoopBegins
<1>6. c' = c
  BY <1>3 DEF c
<1>7. \A r \in Buffers :
        run'[r] = IF r = due.rec THEN due.kind
                  ELSE IF Pass(r) THEN "off" ELSE run[r]
  BY <1>2 DEF LoopBegins
<1>8. due = NoDue \/ due.kind \in {"pass", "inplace"}
  BY <1>1 DEF FreeTypeOK, Dues
<1>9. "none" \notin Buffers
  BY DEF Buffers
<1>10. \A r \in Buffers : Pass(r)' => r = due.rec /\ due # NoDue
  BY <1>7, <1>9 DEF Pass, NoDue
<1>11. ClearsAlone'
  BY <1>3, <1>5, <1>7, <1>9
     DEF LoopInv, ClearsAlone, ClearDue, Quiet, Recording, Pass, NoDue
<1>12. Passes'
  BY <1>3, <1>4, <1>6
     DEF LoopInv, Passes, SameLoop, SamePress, Shape, TakeShape
<1>13. Recorders'
  <2>1. run'["X"] = "take" => fl'.st = "take"
    BY <1>4, <1>7, <1>8, <1>9, Stored
       DEF LoopInv, Recorders, SamePress, NoDue
  <2>2. run'["Y"] # "take"
    BY <1>7, <1>8, <1>9 DEF LoopInv, Recorders, NoDue, Buffers
  <2>3. ASSUME NEW r \in Buffers, Pass(r)'
        PROVE  IF c.ubuf THEN fl'.rec = r ELSE r = "X" /\ run'[r] = "inplace"
    BY <1>4, <1>7, <1>10, <2>3 DEF LoopInv, Window, SameLoop
  <2> QED
    BY <1>6, <2>1, <2>2, <2>3 DEF Recorders
<1>14. Window'
  BY <1>5 DEF Window
<1>15. NeverWritesWhatPlays'
  <2> SUFFICES ASSUME NEW r \in Buffers, run'[r] = "pass"
               PROVE  voice' # r
    BY DEF NeverWritesWhatPlays
  <2>1. r = due.rec /\ due # NoDue /\ due.kind = "pass"
    BY <1>7, <1>10 DEF Pass
  <2>2. fl.swap /\ lane = fl.cur /\ fl.rec = r
    BY <1>3, <2>1 DEF LoopInv, Window
  <2>3. fl.cur = Flip(r)
    BY <1>9, <2>2 DEF LoopInv, Passes, Shape
  <2> QED
    BY <1>5, <2>2, <2>3, FlipFacts
<1>16. RecordedIsFull'
  <2> SUFFICES ASSUME run'["X"] # "off"
               PROVE  buf'["X"] # Empty
    BY DEF RecordedIsFull
  <2>1. buf'["X"] = IF "X" = due.rec THEN Fresh
                    ELSE Leave({r \in Buffers : Pass(r) /\ due.rec # r})["X"]
    BY <1>2, Stored DEF LoopBegins
  <2>2. Fresh # Empty
    BY <1>1, FreshFacts
  <2>3. CASE "X" = due.rec
    BY <2>1, <2>2, <2>3
  <2>4. CASE "X" # due.rec
    <3>1. run["X"] # "off" /\ ~Pass("X")
      BY <1>7, <2>4, Stored
    <3> QED
      BY <2>1, <2>4, <3>1, Stored DEF LoopInv, RecordedIsFull, Leave
  <2> QED
    BY <2>3, <2>4
<1> QED
  BY <1>1, <1>11, <1>12, <1>13, <1>14, <1>15, <1>16 DEF LoopInv

(* The first step's preparation while nothing makes a pass, or while the   *)
(* step before sounds.                                                     *)
LEMMA PreparedWindow ==
  ASSUME FreeTypeOK, NEW s \in States, NEW q, Shape(s, c), TakeShape(s),
         Prepare(s, q), UNCHANGED cfg, playing', tick' = 0,
         \A r \in Buffers :
           run'[r] # "off" /\ s.st \in {"armed", "overdub"}
             => run'[r] \in {"pass", "inplace"},
         \A r \in Buffers :
           run'[r] \in {"pass", "inplace"} /\ c.ubuf => s.rec = r
  PROVE  Window'
<1>1. c' = c
  BY DEF c
<1>2. due' # NoDue =>
        /\ s.st \in {"armed", "overdub"}
        /\ due'.rec \in Buffers
        /\ IF c.ubuf THEN fl'.rec = due'.rec ELSE due'.rec = "X"
        /\ due'.kind = IF c.ubuf /\ ~fl'.inplace THEN "pass" ELSE "inplace"
        /\ due'.kind = "pass" => fl'.swap /\ due'.rec # s.rec
  BY PrepareDoes
<1>3. due'.kind = "pass" /\ due' # NoDue => c.ubuf /\ run'[due'.rec] = "off"
  BY <1>2
<1> QED
  BY <1>1, <1>2, <1>3 DEF Window

LEMMA SeqStepKeeps ==
  ASSUME LoopInv, Apart, SeqStep
  PROVE  LoopInv'
<1>1. FreeTypeOK /\ FreeTypeOK'
  BY SeqStepType DEF LoopInv
<1>2. /\ UNCHANGED <<cfg, clr, clrall, was, entry, playing, lane>>
      /\ playing /\ tick' = 0
      /\ \A r \in Buffers : run[r] # "ending"
      /\ pos' = IF pos = L THEN 1 ELSE pos + 1
  BY DEF SeqStep
<1>3. c' = c
  BY <1>2 DEF c
<1>4. CASE pos' = 1
  BY <1>4, LoopBeginsKeeps
<1>5. CASE pos' # 1
  <2>1. pos # L
    BY <1>2, <1>5
  <2>2. UNCHANGED <<run, buf, voice>>
    BY <1>5 DEF SeqStep
  <2>3. NeverWritesWhatPlays' /\ RecordedIsFull'
    BY <1>2, <2>2 DEF LoopInv, NeverWritesWhatPlays, RecordedIsFull
  <2>4. CASE pos' = L
    <3>1. Prepare(fl, qany)
      BY <1>5, <2>4 DEF SeqStep
    <3>2. fl \in States /\ Shape(fl, c) /\ TakeShape(fl)
      BY <1>1 DEF FreeTypeOK, LoopInv, Passes
    <3>3. /\ Shape(fl', c) /\ TakeShape(fl') /\ fl'.press = fl.press
          /\ fl.st \notin {"armed", "overdub"} =>
               due' = NoDue /\ fl'.st = fl.st
      BY <1>1, <3>1, <3>2, PrepareDoes
    <3>4. \A r \in Buffers :
            run'[r] # "off" /\ fl.st \in {"armed", "overdub"}
              => run'[r] \in {"pass", "inplace"}
      BY <1>1, <1>2, <2>2
         DEF LoopInv, Recorders, Kinds, FreeTypeOK, Buffers
    <3>5. \A r \in Buffers :
            run'[r] \in {"pass", "inplace"} /\ c.ubuf => fl.rec = r
      BY <1>2, <2>1, <2>2 DEF LoopInv, Recorders, Pass
    <3>6. Window'
      BY <1>1, <1>2, <3>1, <3>2, <3>4, <3>5, PreparedWindow
    <3>7. ClearsAlone'
      <4>1. ~ClearDue
        BY <1>1, <3>1, ApartNow DEF Prepare
      <4> QED
        BY <1>2, <4>1 DEF ClearsAlone, ClearDue
    <3>8. Passes'
      BY <1>2, <1>3, <3>3 DEF Passes
    <3>9. Recorders'
      BY <1>2, <1>3, <2>2, <2>4, <3>3 DEF LoopInv, Recorders, Pass
    <3> QED
      BY <1>1, <2>3, <3>6, <3>7, <3>8, <3>9 DEF LoopInv
  <2>5. CASE pos' # L
    <3>1. UNCHANGED <<fl, due>>
      BY <1>5, <2>5 DEF SeqStep
    <3>2. ClearsAlone' /\ Passes'
      BY <1>2, <1>3, <2>2, <3>1
         DEF LoopInv, ClearsAlone, ClearDue, Quiet, Recording, Passes
    <3>3. Recorders'
      BY <1>2, <1>3, <2>1, <2>2, <3>1 DEF LoopInv, Recorders, Pass
    <3>4. Window'
      BY <1>2, <1>3, <2>2, <3>1 DEF LoopInv, Window
    <3> QED
      BY <1>1, <2>3, <3>2, <3>3, <3>4 DEF LoopInv
  <2> QED
    BY <2>4, <2>5
<1> QED
  BY <1>4, <1>5

LEMMA RecorderDoneKeeps ==
  ASSUME LoopInv, NEW r \in Buffers, RecorderDone(r)
  PROVE  LoopInv'
<1>1. FreeTypeOK /\ FreeTypeOK'
  BY RecorderDoneType DEF LoopInv
<1>2. UNCHANGED <<cfg, fl, clr, clrall, was, entry, playing, pos, tick, due,
                  lane, voice>>
  BY DEF RecorderDone, engine
<1>3. c' = c
  BY <1>2 DEF c
<1>4. \A q \in Buffers : run'[q] = IF q = r THEN "off" ELSE run[q]
  BY <1>1 DEF RecorderDone, FreeTypeOK
<1>5. ClearsAlone' /\ Passes'
  BY <1>2, <1>3, <1>4
     DEF LoopInv, ClearsAlone, ClearDue, Quiet, Recording, Passes
<1>6. Recorders'
  BY <1>2, <1>3, <1>4, Stored DEF LoopInv, Recorders, Pass, Buffers
<1>7. Window'
  BY <1>2, <1>3, <1>4 DEF LoopInv, Window
<1>8. NeverWritesWhatPlays'
  BY <1>2, <1>4 DEF LoopInv, NeverWritesWhatPlays
<1>9. RecordedIsFull'
  BY <1>4, Stored
     DEF LoopInv, RecordedIsFull, RecorderDone, Leave
<1> QED
  BY <1>1, <1>5, <1>6, <1>7, <1>8, <1>9 DEF LoopInv

(* At rest: the transport is as the UI has seen it, no pass runs.          *)
LEMMA SettledFacts ==
  ASSUME LoopInv, Settled
  PROVE  /\ \A r \in Buffers : run[r] # "off" => r = "X" /\ run[r] = "take"
         /\ run["X"] # "off" => fl.st = "take"
         /\ ~playing => fl.rec = "none"
BY DEF LoopInv, Settled, Seen, Recorders, Passes, Buffers

(* The sequencer starts, with the engine in state s.                       *)
LEMMA StartsKeeps ==
  ASSUME LoopInv, Apart, Settled, FreeTypeOK',
         UNCHANGED <<cfg, clr, clrall, entry>>,
         NEW s \in States, NEW q, Shape(s, c), TakeShape(s), Starts(s, q),
         s.rec = "none", s.st \in {"idle", fl.st},
         \A r \in Buffers :
           /\ run'[r] # "off" => run[r] # "off" /\ run'[r] \in {run[r], "ending"}
           /\ run'[r] = "take" => s.st = "take",
         UNCHANGED buf
  PROVE  LoopInv'
<1>1. FreeTypeOK
  BY DEF LoopInv
<1>2. Prepare(s, q) /\ playing' /\ tick' = 0
  BY DEF Starts
<1>3. c' = c
  BY DEF c
<1>4. /\ Shape(fl', c) /\ TakeShape(fl') /\ fl'.press = s.press
      /\ s.st \notin {"armed", "overdub"} => due' = NoDue /\ fl'.st = s.st
  BY <1>1, <1>2, PrepareDoes
<1>5. \A r \in Buffers : run'[r] # "off" =>
        r = "X" /\ run["X"] = "take" /\ fl.st = "take"
        /\ run'["X"] \in {"take", "ending"}
  BY SettledFacts
<1>6. \A r \in Buffers : run'[r] # "off" => s.st \notin {"armed", "overdub"}
  BY <1>5
<1>7. Window'
  <2>1. \A r \in Buffers : run'[r] \notin {"pass", "inplace"}
    BY <1>5
  <2> QED
    BY <1>1, <1>2, <1>6, <2>1, PreparedWindow
<1>8. ClearsAlone'
  <2>1. ~ClearDue
    BY <1>1, <1>2, ApartNow DEF Prepare
  <2> QED
    BY <2>1 DEF ClearsAlone, ClearDue
<1>9. Passes'
  BY <1>2, <1>3, <1>4 DEF Passes
<1>10. Recorders'
  BY <1>3, <1>4, <1>5, Stored DEF LoopInv, Recorders, Pass, Buffers
<1>11. NeverWritesWhatPlays'
  BY <1>5 DEF NeverWritesWhatPlays
<1>12. RecordedIsFull'
  BY Stored DEF LoopInv, RecordedIsFull
<1> QED
  BY <1>7, <1>8, <1>9, <1>10, <1>11, <1>12 DEF LoopInv

LEMMA TransportKeeps ==
  ASSUME LoopInv, Apart, Start \/ Stop
  PROVE  LoopInv'
<1>1. FreeTypeOK /\ FreeTypeOK'
  BY TransportType DEF LoopInv
<1>2. CASE Start
  <2>1. /\ Settled /\ ~playing /\ Starts(fl, qany)
        /\ UNCHANGED <<cfg, clr, clrall, entry, run, buf>>
    BY <1>2 DEF Start
  <2>2. fl \in States /\ Shape(fl, c) /\ TakeShape(fl)
    BY <1>1 DEF FreeTypeOK, LoopInv, Passes
  <2>3. fl.rec = "none" /\ \A r \in Buffers : run[r] = "take" => fl.st = "take"
    BY <2>1, SettledFacts
  <2> QED
    BY <1>1, <2>1, <2>2, <2>3, StartsKeeps
<1>3. CASE Stop
  <2>1. /\ UNCHANGED <<cfg, fl, clr, clrall, was, entry, run, buf, voice>>
        /\ playing /\ was = playing /\ ~playing' /\ due' = NoDue
    BY <1>3 DEF Stop, engine, Seen
  <2>2. c' = c
    BY <2>1 DEF c
  <2>3. ClearsAlone' /\ Passes'
    BY <2>1, <2>2
       DEF LoopInv, ClearsAlone, ClearDue, Quiet, Recording, Passes
  <2>4. Recorders'
    BY <2>1, <2>2 DEF LoopInv, Recorders, Pass
  <2>5. Window' /\ NeverWritesWhatPlays' /\ RecordedIsFull'
    BY <2>1 DEF LoopInv, Window, NeverWritesWhatPlays, RecordedIsFull
  <2> QED
    BY <1>1, <2>3, <2>4, <2>5 DEF LoopInv
<1> QED
  BY <1>2, <1>3

(* What a pedal leaves as it is.                                           *)
LEMMA PerformFrame ==
  ASSUME NEW r, NEW q, Perform(r, q)
  PROVE  /\ UNCHANGED <<cfg, clr, clrall, was, lane, voice, entry>>
         /\ r.do = "take" =>
              /\ run' = [run EXCEPT !["X"] = "take"]
              /\ buf' = [buf EXCEPT !["X"] = Fresh]
              /\ fl' = r.s /\ UNCHANGED <<playing, pos, tick, due>>
         /\ r.do = "launch" =>
              run' = StopRecorder("X", run) /\ Starts(r.s, q) /\ UNCHANGED buf
         /\ r.do = "play" => Starts(r.s, q) /\ UNCHANGED <<run, buf>>
         /\ r.do \notin {"take", "launch", "play"} =>
              /\ run' = IF r.do = "cut" THEN StopRecorder(PassRecorder(fl), run)
                        ELSE run
              /\ fl' = r.s /\ UNCHANGED <<playing, pos, tick, due, buf>>
BY DEF Perform

(* A press that leaves the passes and the recorders alone.                 *)
LEMMA QuietKeeps ==
  ASSUME LoopInv, FreeTypeOK', SameLoop(fl, fl'),
         UNCHANGED <<cfg, clr, clrall, was, entry, run, buf, voice, playing,
                     pos, tick, due, lane>>,
         fl'.st = "take" <=> fl.st = "take",
         fl.st = "take" => fl'.press = fl.press \/ fl'.press.pedal # "rec"
  PROVE  LoopInv'
<1>1. c' = c
  BY DEF c
<1>2. ClearsAlone'
  BY DEF LoopInv, ClearsAlone, ClearDue, Quiet, Recording
<1>3. Passes'
  <2>1. Shape(fl', c)
    BY SameShape DEF LoopInv, Passes
  <2>2. TakeShape(fl')
    BY DEF LoopInv, Passes, TakeShape, SameLoop
  <2> QED
    BY <1>1, <2>1, <2>2 DEF LoopInv, Passes, SameLoop
<1>4. Recorders'
  BY <1>1 DEF LoopInv, Recorders, Pass, SameLoop
<1>5. Window'
  BY <1>1 DEF LoopInv, Window, SameLoop
<1>6. NeverWritesWhatPlays' /\ RecordedIsFull'
  BY DEF LoopInv, NeverWritesWhatPlays, RecordedIsFull
<1> QED
  BY <1>2, <1>3, <1>4, <1>5, <1>6 DEF LoopInv

LEMMA LaunchKeeps ==
  ASSUME LoopInv, Apart, FreeTypeOK', NEW r, NEW q, Perform(r, q), Settled,
         r.do = "launch", r.s \in States, SameLoop(fl, r.s),
         fl.st = "take", r.s.st = "idle"
  PROVE  LoopInv'
<1>1. /\ UNCHANGED <<cfg, clr, clrall, entry, buf>>
      /\ run' = StopRecorder("X", run) /\ Starts(r.s, q)
  BY PerformFrame
<1>2. fl.rec = "none"
  BY DEF LoopInv, Passes, TakeShape
<1>3. Shape(r.s, c) /\ TakeShape(r.s) /\ r.s.rec = "none"
  BY <1>2, SameShape DEF LoopInv, Passes, TakeShape, SameLoop
<1>4. \A b \in Buffers :
        /\ run'[b] # "off" => run[b] # "off" /\ run'[b] \in {run[b], "ending"}
        /\ run'[b] # "take"
  BY <1>1, Stored, StopRecorderDoes
     DEF LoopInv, FreeTypeOK, Recorders, Buffers
<1> QED
  BY <1>1, <1>2, <1>3, <1>4, StartsKeeps

LEMMA RecDownKeeps ==
  ASSUME LoopInv, Apart, RecDown
  PROVE  LoopInv'
<1>1. FreeTypeOK /\ FreeTypeOK'
  BY PedalType DEF LoopInv
<1>2. /\ fl \in States /\ c \in Configs /\ playing \in BOOLEAN
      /\ fl.press.pedal # "rec"
  BY <1>1, SettingsFact DEF FreeTypeOK, RecDown
<1>3. PICK slave \in BOOLEAN, fits \in BOOLEAN, others \in Others :
        LET r == RecPress(fl, c, playing, slave, others, fits)
        IN /\ r.do \in {"take", "launch"} => Settled
           /\ r.do = "take" => ~ClearDue
           /\ Perform(r, qany)
  BY <1>1, ApartNow DEF RecDown
<1>4. PICK r : r = RecPress(fl, c, playing, slave, others, fits)
  OBVIOUS
<1>5. /\ SameLoop(fl, r.s) /\ r.do \in {"toast", "launch", "take"}
      /\ r.do = "launch" => fl.st = "take" /\ r.s.st = "idle"
      /\ r.do = "take" =>
           /\ ~playing /\ fl.st = "idle" /\ r.s.st = "take"
           /\ r.s.press.pedal = "rec" /\ r.s.press.started = "take"
      /\ r.do = "toast" => r.s = fl \/ (fl.st # "take" /\ r.s.st # "take")
  BY <1>2, <1>4, RecPressDoes
<1>6. r.s \in States
  BY <1>2, <1>4, RecPressType DEF GoodResult
<1>7. /\ r.do \in {"take", "launch"} => Settled
      /\ r.do = "take" => ~ClearDue
      /\ Perform(r, qany)
  BY <1>3, <1>4
<1>8. CASE r.do = "toast"
  <2>1. /\ fl' = r.s
        /\ UNCHANGED <<cfg, clr, clrall, was, entry, run, buf, voice, playing,
                       pos, tick, due, lane>>
    BY <1>7, <1>8, PerformFrame
  <2> QED
    BY <1>1, <1>2, <1>5, <1>8, <2>1, QuietKeeps
<1>9. CASE r.do = "launch"
  BY <1>1, <1>5, <1>6, <1>7, <1>9, LaunchKeeps
<1>10. CASE r.do = "take"
  <2>1. /\ UNCHANGED <<cfg, clr, clrall, was, lane, voice, entry, playing, pos,
                       tick, due>>
        /\ run' = [run EXCEPT !["X"] = "take"]
        /\ buf' = [buf EXCEPT !["X"] = Fresh] /\ fl' = r.s
    BY <1>7, <1>10, PerformFrame
  <2>2. fl.rec = "none" /\ due = NoDue /\ run["Y"] = "off"
    BY <1>5, <1>7, <1>10, SettledFacts DEF LoopInv, Window, Buffers
  <2>3. c' = c
    BY <2>1 DEF c
  <2>4. run'["X"] = "take" /\ run'["Y"] = "off" /\ buf'["X"] # Empty
    BY <1>1, <2>1, <2>2, FreshFacts, Stored DEF FreeTypeOK, Buffers
  <2>5. Passes'
    <3>1. Shape(fl', c)
      BY <1>5, <2>1, SameShape DEF LoopInv, Passes
    <3> QED
      BY <1>5, <1>10, <2>1, <2>2, <2>3, <3>1 DEF Passes, TakeShape, SameLoop
  <2>6. ClearsAlone' /\ Window'
    BY <1>7, <1>10, <2>1, <2>2 DEF ClearsAlone, ClearDue, Window
  <2>7. Recorders' /\ NeverWritesWhatPlays' /\ RecordedIsFull'
    BY <1>5, <1>10, <2>1, <2>4
       DEF Recorders, NeverWritesWhatPlays, RecordedIsFull, Pass, Buffers
  <2> QED
    BY <1>1, <2>5, <2>6, <2>7 DEF LoopInv
<1> QED
  BY <1>5, <1>8, <1>9, <1>10

LEMMA PlayDownKeeps ==
  ASSUME LoopInv, Apart, PlayDown
  PROVE  LoopInv'
<1>1. FreeTypeOK /\ FreeTypeOK'
  BY PedalType DEF LoopInv
<1>2. /\ fl \in States /\ c \in Configs /\ playing \in BOOLEAN
      /\ Muted \in BOOLEAN
  BY <1>1, SettingsFact DEF FreeTypeOK, Muted
<1>3. PICK fits \in BOOLEAN, others \in Others :
        LET r == PlayPress(fl, c, playing, Muted, others, fits)
        IN /\ r.do \in {"play", "launch"} => Settled
           /\ Perform(r, EndPending(r.s))
  BY DEF PlayDown
<1>4. PICK r : r = PlayPress(fl, c, playing, Muted, others, fits)
  OBVIOUS
<1>5. /\ SameLoop(fl, r.s) /\ r.do \in {"toast", "launch", "play", "nothing"}
      /\ r.do = "launch" => fl.st = "take" /\ r.s.st = "idle"
      /\ r.do # "launch" => r.s.st = fl.st
      /\ r.do = "play" => ~playing /\ fl.st # "take"
      /\ r.s.press = fl.press \/ r.s.press.pedal = "play"
  BY <1>2, <1>4, PlayPressDoes
<1>6. r.s \in States
  BY <1>2, <1>4, PlayPressType DEF GoodResult
<1>7. /\ r.do \in {"play", "launch"} => Settled
      /\ Perform(r, EndPending(r.s))
  BY <1>3, <1>4
<1>8. CASE r.do \in {"toast", "nothing"}
  <2>1. /\ fl' = r.s
        /\ UNCHANGED <<cfg, clr, clrall, was, entry, run, buf, voice, playing,
                       pos, tick, due, lane>>
    BY <1>7, <1>8, PerformFrame
  <2> QED
    BY <1>1, <1>2, <1>5, <1>8, <2>1, QuietKeeps
<1>9. CASE r.do = "launch"
  BY <1>1, <1>5, <1>6, <1>7, <1>9, LaunchKeeps
<1>10. CASE r.do = "play"
  <2>1. /\ UNCHANGED <<cfg, clr, clrall, entry, run, buf>>
        /\ Starts(r.s, EndPending(r.s))
    BY <1>7, <1>10, PerformFrame
  <2>2. fl.rec = "none" /\ \A b \in Buffers : run[b] = "off"
    BY <1>5, <1>7, <1>10, SettledFacts
  <2>3. Shape(r.s, c) /\ r.s.rec = "none"
    BY <1>5, <2>2, SameShape DEF LoopInv, Passes, SameLoop
  <2>4. TakeShape(r.s)
    BY <1>5, <1>10 DEF TakeShape
  <2> QED
    BY <1>1, <1>2, <1>5, <1>6, <1>7, <1>10, <2>1, <2>2, <2>3, <2>4,
       StartsKeeps
<1> QED
  BY <1>5, <1>8, <1>9, <1>10

(* The track goes to engine state t and its recorders to runs, with no     *)
(* recording begun: recorders stop, and a pass goes on or is dropped.      *)
Trimmed(runs) ==
  \A q \in Buffers : /\ runs[q] \in {run[q], "ending"}
                     /\ runs[q] = "off" <=> run[q] = "off"

CutTo(t, runs) ==
  /\ t \in States /\ runs \in [Buffers -> Kinds]
  /\ Shape(t, c) /\ TakeShape(t) /\ Trimmed(runs)
  /\ t.rec # "none" => t.rec = fl.rec
  /\ runs["X"] = "take" => t.st = "take"
  /\ c.ubuf => \A q \in Buffers : runs[q] \in {"pass", "inplace"} =>
                 t.rec = q \/ ~playing \/ pos = L
  /\ due # NoDue => SameLoop(fl, t)

LEMMA CutHere == LoopInv => CutTo(fl, run)
BY DEF LoopInv, FreeTypeOK, CutTo, Trimmed, Passes, Recorders, Pass, SameLoop

(* More recorders are told to stop.                                        *)
LEMMA CutMore ==
  ASSUME LoopInv, NEW t, NEW runs, CutTo(t, runs), NEW r \in Buffers
  PROVE  CutTo(t, StopRecorder(r, runs))
<1>1. StopRecorder(r, runs) \in [Buffers -> Kinds]
  BY StopRecorderType DEF CutTo
<1>2. \A q \in Buffers :
        LET u == StopRecorder(r, runs)
        IN /\ u[q] \in {runs[q], "ending"}
           /\ u[q] = "off" <=> runs[q] = "off"
  BY StopRecorderDoes DEF CutTo
<1>3. Trimmed(StopRecorder(r, runs))
  BY <1>2 DEF CutTo, Trimmed
<1> QED
  BY <1>1, <1>2, <1>3, Stored DEF CutTo

(* Another state of the engine with the same pass.                         *)
LEMMA CutSame ==
  ASSUME NEW t, NEW runs, CutTo(t, runs), NEW u \in States, SameLoop(t, u),
         t.st = "take" <=> u.st = "take",
         t.st = "take" => u.press = t.press \/ u.press.pedal # "rec"
  PROVE  CutTo(u, runs)
<1>1. Shape(u, c)
  BY SameShape DEF CutTo
<1>2. TakeShape(u)
  BY DEF CutTo, TakeShape, SameLoop
<1>3. due # NoDue => SameLoop(fl, u)
  BY DEF CutTo, SameLoop
<1> QED
  BY <1>1, <1>2, <1>3 DEF CutTo, SameLoop

(* What such a step keeps, the slot and the UI's own state apart.          *)
LEMMA CutKeeps ==
  ASSUME LoopInv, FreeTypeOK', NEW t, CutTo(t, run'), SameLoop(t, fl'),
         fl'.st = t.st, fl'.press = t.press,
         UNCHANGED <<cfg, voice, playing, pos, due>>
  PROVE  /\ Shape(fl', c') /\ TakeShape(fl')
         /\ Recorders' /\ NeverWritesWhatPlays'
<1>1. c' = c
  BY DEF c
<1>2. Shape(fl', c) /\ TakeShape(fl')
  BY SameShape DEF CutTo, TakeShape, SameLoop
<1>3. Recorders'
  <2>1. run'["X"] = "take" => fl'.st = "take"
    BY DEF CutTo
  <2>2. run'["Y"] # "take"
    BY DEF CutTo, Trimmed, LoopInv, Recorders, Buffers
  <2>3. ASSUME NEW r \in Buffers, Pass(r)', c.ubuf
        PROVE  fl'.rec = r \/ ~playing' \/ pos' = L
    BY <2>3 DEF CutTo, Pass, SameLoop
  <2>4. ASSUME NEW r \in Buffers, Pass(r)', ~c.ubuf
        PROVE  r = "X" /\ run'[r] = "inplace"
    BY <2>4 DEF CutTo, Trimmed, Pass, LoopInv, Recorders
  <2> QED
    BY <1>1, <2>1, <2>2, <2>3, <2>4 DEF Recorders
<1>4. NeverWritesWhatPlays'
  BY DEF CutTo, Trimmed, LoopInv, NeverWritesWhatPlays
<1> QED
  BY <1>1, <1>2, <1>3, <1>4

(* A pass undone.                                                          *)
LEMMA CutUndo ==
  ASSUME LoopInv, due = NoDue, NEW u \in States, SameLoop(fl, u), NEW r,
         UndoOutcome(u, c, r), r.s \in States, TakeShape(r.s),
         run["X"] = "take" => r.s.st = "take"
  PROVE  CutTo(r.s, IF r.do = "cut" THEN StopRecorder(PassRecorder(fl), run)
                    ELSE run)
<1>1. CutTo(fl, run) /\ c \in Configs /\ run \in [Buffers -> Kinds]
  BY CutHere, SettingsFact DEF LoopInv, FreeTypeOK
<1>2. Shape(r.s, c) /\ (r.do # "cut" => r.s.rec = fl.rec)
  <2>1. Shape(u, c) /\ u.rec = fl.rec
    BY SameShape DEF LoopInv, Passes, SameLoop
  <2> QED
    BY <1>1, <2>1, UndoShape, FlipFacts DEF UndoOutcome, Shape
<1>3. CASE r.do # "cut"
  BY <1>1, <1>2, <1>3 DEF CutTo
<1>4. CASE r.do = "cut"
  <2>1. fl.rec # "none" /\ r.s.rec = "none" /\ PassRecorder(fl) = fl.rec
    BY <1>4, Fields
       DEF UndoOutcome, SameLoop, PassRecorder, LoopInv, FreeTypeOK, Buffers
  <2>2. CutTo(fl, StopRecorder(PassRecorder(fl), run))
    BY <1>1, CutMore, PassRecorderType
  <2>3. StopRecorder(PassRecorder(fl), run)[fl.rec] \in {"off", "ending"}
    BY <1>1, <2>1, StopRecorderDoes, PassRecorderType
  <2>4. StopRecorder(PassRecorder(fl), run)["X"] = "take" => run["X"] = "take"
    BY <2>2, Stored DEF CutTo, Trimmed
  <2> QED
    BY <1>2, <1>4, <2>1, <2>2, <2>3, <2>4 DEF CutTo
<1> QED
  BY <1>3, <1>4

LEMMA UndoDownKeeps ==
  ASSUME LoopInv, Apart, UndoDown
  PROVE  LoopInv'
<1>1. FreeTypeOK /\ FreeTypeOK'
  BY PedalType DEF LoopInv
<1>2. PICK r : r = Undo(fl, c)
  OBVIOUS
<1>3. due = NoDue /\ Perform(r, qany)
  BY <1>2 DEF UndoDown, Calm, Apart
<1>4. fl \in States /\ c \in Configs /\ r.s \in States
  BY <1>1, <1>2, SettingsFact, UndoType DEF FreeTypeOK, GoodResult
<1>5. UndoOutcome(fl, c, r)
  BY <1>2, <1>4, UndoDoes
<1>6. /\ UNCHANGED <<cfg, clr, clrall, was, lane, voice, entry, playing, pos,
                     tick, due, buf>>
      /\ run' = IF r.do = "cut" THEN StopRecorder(PassRecorder(fl), run)
                ELSE run
      /\ fl' = r.s
  BY <1>3, <1>5, PerformFrame DEF UndoOutcome
<1>7. TakeShape(r.s) /\ (fl.st = "take" => r.s.st = "take")
      /\ (fl.st = "idle" => r.s.st = "idle") /\ r.s.press = fl.press
      /\ (r.s.rec # "none" => r.s.rec = fl.rec)
  BY <1>5 DEF UndoOutcome, LoopInv, Passes, TakeShape
<1>8. CutTo(r.s, run')
  <2>1. run["X"] = "take" => r.s.st = "take"
    BY <1>7 DEF LoopInv, Recorders
  <2>2. SameLoop(fl, fl)
    BY DEF SameLoop
  <2> QED
    BY <1>3, <1>4, <1>5, <1>6, <1>7, <2>1, <2>2, CutUndo
<1>9. /\ Shape(fl', c') /\ TakeShape(fl')
      /\ Recorders' /\ NeverWritesWhatPlays'
  <2>1. SameLoop(r.s, fl')
    BY <1>6 DEF SameLoop
  <2> QED
    BY <1>1, <1>6, <1>8, <2>1, CutKeeps
<1>10. ClearsAlone'
  BY <1>6, <1>8
     DEF LoopInv, ClearsAlone, ClearDue, Quiet, Recording, CutTo, Trimmed
<1>11. Passes' /\ Window' /\ RecordedIsFull'
  BY <1>3, <1>6, <1>7, <1>8, <1>9, Stored
     DEF LoopInv, Passes, Window, RecordedIsFull, CutTo, Trimmed
<1> QED
  BY <1>1, <1>9, <1>10, <1>11 DEF LoopInv

LEMMA EndDownKeeps ==
  ASSUME LoopInv, EndDown
  PROVE  LoopInv'
<1>1. FreeTypeOK /\ FreeTypeOK'
  BY PedalType DEF LoopInv
<1>2. PICK r : r = End(fl, playing, Muted) /\ Perform(r, EndPending(r.s))
  BY DEF EndDown
<1>3. /\ SameLoop(fl, r.s) /\ SamePress(fl, r.s)
      /\ r.do \in {"nothing", "toast"}
  BY <1>1, <1>2, EndDoes DEF FreeTypeOK
<1>4. /\ fl' = r.s
      /\ UNCHANGED <<cfg, clr, clrall, was, entry, run, buf, voice, playing,
                     pos, tick, due, lane>>
  BY <1>2, <1>3, PerformFrame
<1> QED
  BY <1>1, <1>3, <1>4, QuietKeeps DEF SamePress

LEMMA OtherPressKeeps ==
  ASSUME LoopInv, Apart, PedalUp \/ PatternLands \/ ClearAll \/ BankLands
  PROVE  LoopInv'
<1>1. FreeTypeOK /\ FreeTypeOK'
  BY OtherPressType DEF LoopInv
<1>2. CASE PedalUp
  <2>1. /\ fl' = Release(fl, fl.press.pedal)
        /\ UNCHANGED <<cfg, clr, clrall, was, entry, run, buf, voice, playing,
                       pos, tick, due, lane>>
    BY <1>2 DEF PedalUp, unit
  <2>2. /\ SameLoop(fl, fl') /\ fl'.st = fl.st
        /\ fl'.press \in {fl.press, NoPress}
    BY <1>1, <2>1, ReleaseDoes DEF FreeTypeOK
  <2> QED
    BY <1>1, <2>1, <2>2, QuietKeeps DEF NoPress
<1>3. CASE PatternLands \/ ClearAll \/ BankLands
  <2>1. UNCHANGED <<cfg, fl, clr, was, run, buf, voice, playing, pos, tick,
                    due, lane>>
    BY <1>3 DEF PatternLands, ClearAll, BankLands, engine, unit
  <2>2. c' = c
    BY <2>1 DEF c
  <2>3. UNCHANGED clrall \/ (due = NoDue /\ Quiet)
    <3>1. CASE PatternLands
      BY <3>1 DEF PatternLands, engine
    <3>2. CASE ClearAll
      BY <1>1, <3>2, ApartNow DEF ClearAll, LoopInv, Window
    <3>3. CASE BankLands
      BY <1>1, <3>3, ApartNow DEF BankLands, Calm
    <3> QED
      BY <1>3, <3>1, <3>2, <3>3
  <2>4. ClearsAlone'
    BY <2>1, <2>3 DEF LoopInv, ClearsAlone, ClearDue, Quiet, Recording
  <2> QED
    BY <1>1, <2>1, <2>2, <2>4
       DEF LoopInv, Passes, Recorders, Pass, Window, NeverWritesWhatPlays,
           RecordedIsFull
<1> QED
  BY <1>2, <1>3

(* The guard tells recorders to stop, and finds a loop lost only when its  *)
(* recorder rests.                                                         *)
LEMMA StrayGuardDoes ==
  ASSUME LoopInv, NEW t, NEW runs, CutTo(t, runs)
  PROVE  /\ CutTo(t, StrayGuard(runs).runs)
         /\ StrayGuard(runs).lost => StrayGuard(runs).runs["X"] = "off"
<1>1. StrayGuard(runs).runs \in {runs, StopRecorder("X", runs)}
  BY DEF StrayGuard
<1>2. CutTo(t, StopRecorder("X", runs))
  BY CutMore, Stored
<1>3. StrayGuard(runs).lost => StrayGuard(runs).runs = runs /\ runs["X"] = "off"
  BY DEF StrayGuard
<1> QED
  BY <1>1, <1>2, <1>3

LEMMA UiHeadKeeps ==
  ASSUME LoopInv, UiHead
  PROVE  LoopInv'
<1> DEFINE stopped == was /\ ~playing
           all == clrall = "asked" \/ (clrall = "bank" /\ playing)
           runs == IF stopped /\ fl.rec # "none"
                   THEN StopRecorder(PassRecorder(fl), run) ELSE run
           s == IF stopped THEN Stopped(fl) ELSE fl
           guard == StrayGuard(runs)
           kept == IF guard.lost THEN [s EXCEPT !.has = FALSE] ELSE s
           cleared == IF all THEN Reset(kept) ELSE kept
           armed == IF playing /\ entry # "none" THEN Pattern(cleared, entry)
                    ELSE cleared
<1>1. FreeTypeOK /\ FreeTypeOK'
  BY UiHeadType DEF LoopInv
<1>2. /\ fl' = armed
      /\ run' = IF all /\ kept.st = "take"
                THEN StopRecorder("X", guard.runs) ELSE guard.runs
      /\ buf' = [r \in Buffers |-> IF all \/ (guard.lost /\ r = "X")
                                   THEN Empty ELSE buf[r]]
      /\ UNCHANGED <<cfg, clr, playing, pos, tick, due, lane, voice>>
      /\ clrall' = "no" /\ was' = playing
  BY DEF UiHead
<1>3. CutTo(fl, run)
  BY CutHere
<1>4. /\ s \in States /\ s.press = fl.press
      /\ (s.st = "take" <=> fl.st = "take")
      /\ (fl.st = "idle" => s.st = "idle")
      /\ (s.rec # "none" => playing)
      /\ CutTo(s, runs)
  <2>1. CASE stopped
    <3>1. /\ s.press = fl.press /\ s.rec = "none" /\ s \in States
          /\ s.st = IF fl.st \in {"armed", "overdub"} THEN "idle" ELSE fl.st
          /\ ~s.swap /\ ~s.inplace
      <4>1. fl \in States /\ s = Stopped(fl)
        BY <1>1, <2>1 DEF FreeTypeOK
      <4>2. Shape(fl, c)
        BY DEF LoopInv, Passes
      <4> HIDE DEF s
      <4> QED
        BY <4>1, <4>2, StoppedType, StoppedDoes DEF Shape, SameLoop
    <3>2. CutTo(fl, runs)
      BY <1>3, CutMore, PassRecorderType
    <3>3. ~playing /\ due = NoDue
      BY <2>1 DEF LoopInv, Window
    <3> HIDE DEF s, runs
    <3>4. Shape(s, c) /\ TakeShape(s)
      BY <3>1, <3>2 DEF Shape, CutTo, TakeShape
    <3> QED
      BY <3>1, <3>2, <3>3, <3>4 DEF CutTo
  <2>2. CASE ~stopped
    BY <1>1, <1>3, <2>2 DEF LoopInv, Passes, FreeTypeOK
  <2> QED
    BY <2>1, <2>2
<1> HIDE DEF s, runs, all
<1>5. /\ CutTo(s, guard.runs)
      /\ guard.lost => guard.runs["X"] = "off"
  BY <1>4, StrayGuardDoes
<1> HIDE DEF guard
<1>6. /\ kept \in States /\ SameLoop(s, kept) /\ SamePress(s, kept)
  <2>1. kept \in States
    BY <1>4, SetField
  <2> QED
    BY <1>4, <2>1 DEF States, SameLoop, SamePress
<1>7. CutTo(kept, guard.runs)
  BY <1>5, <1>6, CutSame DEF SamePress
<1> HIDE DEF kept
<1>8. all => /\ due = NoDue
             /\ \A r \in Buffers : run[r] = "off" /\ guard.runs[r] = "off"
  <2>1. all => clrall # "no"
    BY DEF all
  <2> QED
    BY <1>7, <2>1
       DEF LoopInv, ClearsAlone, ClearDue, Quiet, Recording, CutTo, Trimmed
<1>9. /\ cleared \in States /\ CutTo(cleared, guard.runs)
      /\ (cleared.rec # "none" => playing)
  <2>1. CASE ~all
    BY <1>4, <1>6, <1>7, <2>1 DEF SameLoop
  <2>2. CASE all
    <3>1. cleared = Reset(kept)
      BY <2>2
    <3>2. /\ cleared \in States /\ cleared.st = "idle"
          /\ cleared.press = NoPress
          /\ cleared.rec = "none" /\ ~cleared.swap /\ ~cleared.inplace
      BY <1>6, <3>1, ResetType, ResetDoes
    <3>3. Shape(cleared, c) /\ TakeShape(cleared)
      BY <3>2 DEF Shape, TakeShape
    <3> HIDE DEF cleared
    <3> QED
      BY <1>7, <1>8, <2>2, <3>2, <3>3, Stored DEF CutTo, NoPress
  <2> QED
    BY <2>1, <2>2
<1> HIDE DEF cleared
<1>10. /\ armed \in States /\ SameLoop(cleared, armed)
       /\ armed.press = cleared.press
       /\ (armed.st = "take" <=> cleared.st = "take")
  <2>1. SameLoop(cleared, cleared)
    BY DEF SameLoop
  <2> QED
    BY <1>9, <2>1, PatternType, PatternDoes
<1>11. CutTo(armed, guard.runs)
  BY <1>9, <1>10, CutSame
<1>12. CutTo(armed, run')
  BY <1>2, <1>11, CutMore, Stored
<1>13. /\ Shape(fl', c') /\ TakeShape(fl')
       /\ Recorders' /\ NeverWritesWhatPlays'
  <2>1. SameLoop(armed, fl') /\ fl'.st = armed.st /\ fl'.press = armed.press
    BY <1>2 DEF SameLoop
  <2> HIDE DEF armed
  <2> QED
    BY <1>1, <1>2, <1>12, <2>1, CutKeeps
<1>14. ClearsAlone'
  BY <1>2 DEF LoopInv, ClearsAlone, ClearDue
<1>15. Passes'
  <2> HIDE DEF armed
  <2> QED
    BY <1>2, <1>9, <1>10, <1>13 DEF Passes, SameLoop
<1>16. Window'
  <2> HIDE DEF armed
  <2>1. c' = c
    BY <1>2 DEF c
  <2>2. due # NoDue => SameLoop(fl, fl')
    BY <1>2, <1>12 DEF CutTo
  <2>3. \A r \in Buffers : run[r] = "off" => run'[r] = "off"
    BY <1>12 DEF CutTo, Trimmed
  <2> QED
    BY <1>2, <2>1, <2>2, <2>3 DEF LoopInv, Window, SameLoop
<1>17. RecordedIsFull'
  <2> HIDE DEF armed
  <2>1. run'["X"] # "off" => run["X"] # "off"
    BY <1>12, Stored DEF CutTo, Trimmed
  <2>2. run'["X"] # "off" => ~all /\ ~guard.lost
    <3>1. all => run["X"] = "off"
      BY <1>8, Stored
    <3>2. guard.lost => run'["X"] = "off"
      <4>1. guard.lost => run["X"] = "off"
        BY <1>5, Stored DEF CutTo, Trimmed
      <4> QED
        BY <2>1, <4>1
    <3> QED
      BY <2>1, <3>1, <3>2
  <2> QED
    BY <1>2, <2>1, <2>2, Stored DEF LoopInv, RecordedIsFull
<1> QED
  BY <1>1, <1>13, <1>14, <1>15, <1>16, <1>17 DEF LoopInv

(* A long press: an UNDO, a clear asked, or nothing of a pass.             *)
LEMMA LongPressKeeps ==
  ASSUME LoopInv, Apart, LongHeld, NEW on \in BOOLEAN, NEW m \in BOOLEAN,
         NEW h, h = LongPress(fl, c, on, m)
  PROVE  /\ h.s \in States /\ h.s.press = NoPress
         /\ h.s.rec # "none" => h.s.rec = fl.rec
         /\ IF h.do = "clear"
            THEN /\ due = NoDue
                 /\ h.s.st = "idle" /\ SameLoop(fl, h.s)
            ELSE CutTo(h.s,
                       IF h.do = "cut" THEN StopRecorder(PassRecorder(fl), run)
                       ELSE run)
<1>1. FreeTypeOK /\ fl \in States /\ c \in Configs
  BY SettingsFact DEF LoopInv, FreeTypeOK
<1>2. /\ fl.press.pedal \in {"rec", "play"}
      /\ fl.press.pedal = "rec" => due = NoDue
  BY <1>1, Fields DEF LongHeld, Calm, Apart, Presses
<1>3. h.s \in States
  BY <1>1, LongPressType DEF GoodResult
<1>4. PICK r :
  /\ r = LongPress(fl, c, on, m) /\ r.s.press = NoPress
  /\ \/ /\ fl.press.pedal = "play" /\ r.do \in {"nothing", "toast"}
        /\ SameLoop(fl, r.s) /\ SameAnchor(fl, r.s) /\ r.s.st = fl.st
     \/ /\ fl.press.pedal # "play" /\ fl.press.started # "take"
        /\ \E u \in States :
             /\ SameLoop(fl, u) /\ SameAnchor(fl, u) /\ u.press = NoPress
             /\ u.st = IF fl.rec = "none" THEN fl.press.was ELSE fl.st
             /\ UndoOutcome(u, c, r)
     \/ /\ fl.press.pedal # "play" /\ r.do = "clear" /\ r.s.st = "idle"
        /\ SameLoop(fl, r.s) /\ SameAnchor(fl, r.s)
  BY <1>1, LongPressDoes
<1>5. h = r
  BY <1>4
<1>6. CutTo(fl, run)
  BY CutHere
<1>7. CASE /\ fl.press.pedal = "play" /\ h.do \in {"nothing", "toast"}
           /\ SameLoop(fl, h.s) /\ h.s.st = fl.st
  <2>1. h.s.press.pedal # "rec"
    BY <1>4, <1>5 DEF NoPress
  <2>2. CutTo(h.s, run)
    BY <1>3, <1>6, <1>7, <2>1, CutSame
  <2> QED
    BY <1>2, <1>3, <1>4, <1>5, <1>7, <2>2 DEF SameLoop
<1>8. CASE /\ fl.press.pedal # "play" /\ fl.press.started # "take"
           /\ \E u \in States :
                /\ SameLoop(fl, u) /\ SameAnchor(fl, u) /\ u.press = NoPress
                /\ u.st = IF fl.rec = "none" THEN fl.press.was ELSE fl.st
                /\ UndoOutcome(u, c, h)
  <2>1. PICK u \in States :
          /\ SameLoop(fl, u) /\ SameAnchor(fl, u) /\ u.press = NoPress
          /\ u.st = IF fl.rec = "none" THEN fl.press.was ELSE fl.st
          /\ UndoOutcome(u, c, h)
    BY <1>8
  <2>2. due = NoDue /\ fl.st # "take" /\ run["X"] # "take"
    BY <1>2, <1>8 DEF LoopInv, Passes, TakeShape, Recorders
  <2>3. Shape(u, c)
    BY <2>1, SameShape DEF LoopInv, Passes
  <2>4. h.s.rec = "none" \/ h.s.rec = fl.rec
    BY <1>1, <2>1, <2>3, UndoShape DEF UndoOutcome, SameLoop
  <2>5. TakeShape(h.s)
    BY <1>1, <1>4, <1>5, <2>1, <2>3, UndoShape DEF TakeShape, NoPress
  <2>6. h.do # "clear"
    BY <2>1 DEF UndoOutcome
  <2> QED
    BY <1>2, <1>3, <1>4, <1>5, <2>1, <2>2, <2>4, <2>5, <2>6, CutUndo
<1>9. CASE /\ fl.press.pedal # "play" /\ h.do = "clear" /\ h.s.st = "idle"
           /\ SameLoop(fl, h.s)
  BY <1>2, <1>3, <1>4, <1>5, <1>9 DEF SameLoop
<1> QED
  BY <1>4, <1>5, <1>7, <1>8, <1>9

(* A clear leaves no recorder of the track making a pass, and is done only *)
(* when they rest.                                                         *)
LEMMA ClearingDoes ==
  ASSUME LoopInv, NEW asked \in 0..2, NEW t \in States,
         NEW runs \in [Buffers -> Kinds],
         \/ CutTo(t, runs)
         \/ asked = 1 /\ runs = run /\ SameLoop(fl, t) /\ t.st = "idle"
  PROVE  LET clear == Clearing(asked, t, runs)
         IN /\ CutTo(t, clear.runs)
            /\ clear.done => /\ asked # 0 /\ clear.runs["X"] = "off"
                             /\ clear.runs[PassRecorder(t)] = "off"
            /\ clear.clr # 0 => asked # 0
<1> DEFINE p == PassRecorder(t)
           stops == StopRecorder("X", StopRecorder(p, runs))
           clear == Clearing(asked, t, runs)
<1>1. p \in Buffers
  BY PassRecorderType
<1>2. /\ StopRecorder(p, runs) \in [Buffers -> Kinds]
      /\ stops["X"] # "take"
      /\ \A q \in Buffers : stops[q] = "off" <=> runs[q] = "off"
  <2> HIDE DEF p
  <2>1. StopRecorder(p, runs) \in [Buffers -> Kinds]
    BY <1>1, StopRecorderType
  <2> QED
    BY <1>1, <2>1, Stored, StopRecorderDoes
<1>3. CutTo(t, runs) \/ asked = 1 => CutTo(t, stops)
  <2>1. CASE CutTo(t, runs)
    <3>1. CutTo(t, StopRecorder(p, runs))
      BY <1>1, <2>1, CutMore
    <3> HIDE DEF p
    <3> QED
      BY <3>1, CutMore, Stored
  <2>2. CASE asked = 1 /\ runs = run /\ SameLoop(fl, t) /\ t.st = "idle"
    <3>1. CutTo(fl, stops)
      <4> HIDE DEF p
      <4>1. CutTo(fl, StopRecorder(p, run))
        BY <1>1, CutHere, CutMore
      <4> QED
        BY <2>2, <4>1, CutMore, Stored
    <3>2. Shape(t, c) /\ TakeShape(t)
      BY <2>2, SameShape DEF LoopInv, Passes, TakeShape
    <3> HIDE DEF stops
    <3> QED
      BY <1>2, <2>2, <3>1, <3>2 DEF CutTo, SameLoop
  <2> QED
    BY <2>1, <2>2
<1>4. /\ clear.runs = IF asked = 1 THEN stops ELSE runs
      /\ clear.done => asked # 0 /\ runs[p] = "off" /\ runs["X"] = "off"
      /\ clear.clr # 0 => asked # 0
  BY DEF Clearing
<1>5. CutTo(t, clear.runs)
  <2> HIDE DEF stops, clear
  <2> QED
    BY <1>3, <1>4
<1>6. clear.done => clear.runs["X"] = "off" /\ clear.runs[p] = "off"
  <2> HIDE DEF stops, clear, p
  <2> QED
    BY <1>1, <1>2, <1>4, Stored
<1> QED
  BY <1>4, <1>5, <1>6

LEMMA UiTrackKeeps ==
  ASSUME LoopInv, Apart, NEW long \in BOOLEAN, UiTrack(long)
  PROVE  LoopInv'
<1> DEFINE h == IF long THEN LongPress(fl, c, ui = "run", Muted)
                ELSE Result(fl, "nothing", "none")
           cut == IF h.do = "cut" THEN StopRecorder(PassRecorder(fl), run)
                  ELSE run
           now == h.s.rpass = "now"
           heard == IF now THEN [h.s EXCEPT !.rpass = "none"] ELSE h.s
           asked == IF h.do = "clear" THEN 1 ELSE clr
           clear == Clearing(asked, heard, cut)
           gone == IF clear.done THEN Cleared(heard) ELSE heard
           s == IF clear.runs[PassRecorder(gone)] # "off" THEN RecRunning(gone)
                ELSE gone
           holds == [r \in Buffers |->
                       IF clear.done /\ (c.ubuf \/ r = lane) THEN Empty
                       ELSE buf[r]]
<1>1. FreeTypeOK /\ FreeTypeOK'
  BY UiTrackType DEF LoopInv
<1>2. /\ fl' = IF ui = "stopped" /\ s.st = "idle"
               THEN [s EXCEPT !.has = holds[lane] # Empty] ELSE s
      /\ run' = clear.runs /\ buf' = holds /\ clr' = clear.clr
      /\ lane' = Follow(s)
      /\ UNCHANGED <<cfg, clrall, was, playing, pos, due, voice, entry>>
  BY DEF UiTrack
<1>3. /\ h.s \in States /\ (h.s.rec # "none" => h.s.rec = fl.rec)
      /\ IF h.do = "clear"
         THEN /\ due = NoDue /\ h.s.st = "idle"
              /\ SameLoop(fl, h.s) /\ cut = run
         ELSE CutTo(h.s, cut)
  <2>1. CASE long
    <3>1. LongHeld /\ h = LongPress(fl, c, ui = "run", Muted)
      BY <2>1 DEF UiTrack
    <3>2. (ui = "run") \in BOOLEAN /\ Muted \in BOOLEAN
      BY DEF Muted
    <3>3. /\ h.s \in States
          /\ h.s.rec # "none" => h.s.rec = fl.rec
          /\ IF h.do = "clear"
             THEN /\ due = NoDue /\ h.s.st = "idle" /\ SameLoop(fl, h.s)
             ELSE CutTo(h.s, cut)
      <4> HIDE DEF h
      <4> QED
        BY <3>1, <3>2, LongPressKeeps
    <3>4. h.do = "clear" => cut = run
      OBVIOUS
    <3> HIDE DEF h, cut
    <3> QED
      BY <3>3, <3>4
  <2>2. CASE ~long
    BY <1>1, <2>2, CutHere
       DEF Result, FreeTypeOK, LoopInv
  <2> QED
    BY <2>1, <2>2
<1>4. cut \in [Buffers -> Kinds]
  BY <1>1, StopRecorderType, PassRecorderType DEF FreeTypeOK
<1> HIDE DEF h, cut
<1>5. heard \in States /\ SameLoop(h.s, heard) /\ SamePress(h.s, heard)
  <2>1. heard \in States
    BY <1>3, SetField
  <2> QED
    BY <1>3, <2>1 DEF States, SameLoop, SamePress
<1> HIDE DEF heard, now
<1>6. /\ asked \in 0..2 /\ (h.do = "clear" => asked = 1)
      /\ (asked # 0 => due = NoDue)
  BY <1>1, <1>3 DEF LoopInv, ClearsAlone, ClearDue, FreeTypeOK
<1>7. \/ CutTo(heard, cut)
      \/ asked = 1 /\ cut = run /\ SameLoop(fl, heard) /\ heard.st = "idle"
  <2>1. CASE h.do = "clear"
    BY <1>3, <1>5, <1>6, <2>1 DEF SameLoop, SamePress
  <2>2. CASE h.do # "clear"
    BY <1>3, <1>5, <2>2, CutSame DEF SamePress
  <2> QED
    BY <2>1, <2>2
<1> HIDE DEF asked
<1>8. /\ CutTo(heard, clear.runs)
      /\ clear.done => /\ asked # 0 /\ clear.runs["X"] = "off"
                       /\ clear.runs[PassRecorder(heard)] = "off"
      /\ clear.clr # 0 => asked # 0
  BY <1>4, <1>5, <1>6, <1>7, ClearingDoes
<1> HIDE DEF clear
<1>9. /\ gone \in States /\ CutTo(gone, clear.runs) /\ SamePress(heard, gone)
      /\ (clear.done => gone.rec = "none")
      /\ (~clear.done => gone = heard)
  <2>1. CASE clear.done
    <3>1. /\ gone \in States /\ SamePress(heard, gone)
          /\ gone.rec = "none" /\ ~gone.swap /\ ~gone.inplace
      BY <1>5, <2>1, ClearedType, ClearedDoes
    <3>2. due = NoDue /\ TakeShape(heard)
      BY <1>6, <1>8, <2>1 DEF CutTo
    <3>3. c.ubuf => \A q \in Buffers :
            clear.runs[q] \in {"pass", "inplace"} => ~playing \/ pos = L
      <4> SUFFICES ASSUME c.ubuf, NEW q \in Buffers,
                          clear.runs[q] \in {"pass", "inplace"}
                   PROVE  ~playing \/ pos = L
        OBVIOUS
      <4>1. heard.rec = q \/ ~playing \/ pos = L
        BY <1>8 DEF CutTo
      <4>2. heard.rec # q
        BY <1>8, <2>1 DEF PassRecorder, Buffers
      <4> QED
        BY <4>1, <4>2
    <3> HIDE DEF gone
    <3>4. Shape(gone, c) /\ TakeShape(gone)
      BY <3>1, <3>2 DEF Shape, TakeShape, SamePress
    <3> QED
      BY <1>8, <2>1, <3>1, <3>2, <3>3, <3>4, Stored DEF CutTo, SamePress
  <2>2. CASE ~clear.done
    BY <1>5, <1>8, <2>2 DEF SamePress
  <2> QED
    BY <2>1, <2>2
<1> HIDE DEF gone
<1>10. /\ s \in States /\ SamePress(gone, s) /\ Shape(s, c) /\ TakeShape(s)
       /\ s.rec = gone.rec /\ s.inplace = gone.inplace
       /\ clear.runs[PassRecorder(gone)] = "off" \/ ~gone.swap => s = gone
  <2>1. CASE clear.runs[PassRecorder(gone)] = "off"
    BY <1>9, <2>1 DEF CutTo, SamePress
  <2>2. CASE clear.runs[PassRecorder(gone)] # "off"
    <3>1. /\ s \in States /\ SamePress(gone, s) /\ ~s.swap
          /\ s.rec = gone.rec /\ s.inplace = gone.inplace
          /\ s.cur = IF gone.swap THEN Flip(gone.cur) ELSE gone.cur
      BY <1>9, <2>2, RecRunningType, RecRunningDoes
    <3>3. ~gone.swap => s = gone
      BY <2>2 DEF RecRunning
    <3> HIDE DEF s
    <3>2. Shape(s, c)
      BY <1>9, <3>1, FlipFacts, Fields DEF CutTo, Shape
    <3> QED
      BY <1>9, <2>2, <3>1, <3>2, <3>3 DEF CutTo, TakeShape, SamePress
  <2> QED
    BY <2>1, <2>2
<1> HIDE DEF s
<1>11. due # NoDue => SameLoop(fl, s)
  <2> SUFFICES ASSUME due # NoDue PROVE SameLoop(fl, s)
    OBVIOUS
  <2>1. SameLoop(fl, gone)
    BY <1>9 DEF CutTo
  <2>2. CASE gone.swap
    <3>1. fl.swap /\ fl.rec # "none" /\ c.ubuf /\ ~fl.inplace
      BY <2>1, <2>2 DEF SameLoop, LoopInv, Passes, Shape
    <3>2. gone.rec = due.rec /\ due.rec \in Buffers /\ run[due.rec] = "off"
      BY <2>1, <3>1 DEF SameLoop, LoopInv, Window
    <3>3. clear.runs[PassRecorder(gone)] = "off"
      BY <1>9, <3>2 DEF PassRecorder, Buffers, CutTo, Trimmed
    <3> QED
      BY <1>10, <2>1, <3>3
  <2>3. CASE ~gone.swap
    BY <1>10, <2>1, <2>3
  <2> QED
    BY <2>2, <2>3
<1>12. CutTo(s, run')
  BY <1>2, <1>9, <1>10, <1>11 DEF CutTo, SamePress
<1>13. SameLoop(s, fl') /\ SamePress(s, fl')
  BY <1>2, <1>10 DEF States, SameLoop, SamePress
<1>14. /\ Shape(fl', c') /\ TakeShape(fl')
       /\ Recorders' /\ NeverWritesWhatPlays'
  BY <1>1, <1>2, <1>12, <1>13, CutKeeps DEF SamePress
<1>16. ClearsAlone'
  <2>1. clr' # 0 => due' = NoDue
    BY <1>2, <1>6, <1>8
  <2>2. clrall # "no" => due = NoDue /\ \A r \in Buffers : run'[r] = "off"
    BY <1>12
       DEF LoopInv, ClearsAlone, ClearDue, Quiet, Recording, CutTo, Trimmed
  <2> QED
    BY <1>2, <2>1, <2>2 DEF ClearsAlone, ClearDue, Quiet, Recording
<1>17. Passes'
  <2>1. fl'.rec # "none" => playing \/ was
    BY <1>12, <1>13 DEF CutTo, SameLoop, LoopInv, Passes
  <2> QED
    BY <1>2, <1>14, <2>1 DEF Passes
<1>18. Window'
  <2>1. c' = c
    BY <1>2 DEF c
  <2>2. due # NoDue => SameLoop(fl, fl')
    BY <1>11, <1>13 DEF SameLoop
  <2>3. \A r \in Buffers : run[r] = "off" => run'[r] = "off"
    BY <1>12 DEF CutTo, Trimmed
  <2>4. c.ubuf => lane' = fl'.cur
    BY <1>2, <1>13 DEF Follow, SameLoop
  <2> QED
    BY <1>2, <2>1, <2>2, <2>3, <2>4 DEF LoopInv, Window, SameLoop
<1>19. RecordedIsFull'
  <2>1. run'["X"] # "off" => run["X"] # "off" /\ ~clear.done
    BY <1>2, <1>8, <1>12, Stored DEF CutTo, Trimmed
  <2> QED
    BY <1>2, <2>1, Stored DEF LoopInv, RecordedIsFull
<1> QED
  BY <1>1, <1>14, <1>16, <1>17, <1>18, <1>19 DEF LoopInv

-----------------------------------------------------------------------------
LEMMA LoopNext == LoopInv /\ Apart /\ [Next]_vars => LoopInv'
<1> SUFFICES ASSUME LoopInv, Apart, [Next]_vars PROVE LoopInv'
  OBVIOUS
<1>1. CASE UNCHANGED vars
  <2>1. FreeTypeOK'
    BY <1>1, TypeNext DEF LoopInv
  <2>2. c' = c /\ \A r : Pass(r)' = Pass(r)
    BY <1>1 DEF c, Pass, vars, unit
  <2> QED
    BY <1>1, <2>1, <2>2
       DEF LoopInv, vars, engine, unit, ClearsAlone, ClearDue, Quiet,
           Recording, Passes, Recorders, Window,
           NeverWritesWhatPlays, RecordedIsFull
<1>2. CASE UiTick
  BY <1>2, UiHeadKeeps, UiTrackKeeps DEF UiTick
<1> QED
  BY <1>1, <1>2, SeqStepKeeps, RecorderDoneKeeps, TransportKeeps,
     RecDownKeeps, PlayDownKeeps, UndoDownKeeps, EndDownKeeps,
     OtherPressKeeps DEF Next

(* Where UNDO and clears keep Apart, the engine, the recorders and the slot*)
(* agree: LoopInv holds.                                                   *)
THEOREM LoopInvHolds == Apart => (FreeSpec => []LoopInv)
<1>1. Apart /\ Init /\ [][Next]_vars => []LoopInv
  <2>1. Apart => []Apart
    <3>1. Apart => Apart'
      BY DEF Apart
    <3> QED
      BY <3>1, PTL
  <2> QED
    BY <2>1, LoopInit, LoopNext, PTL
<1> QED
  BY <1>1, PTL DEF FreeSpec

(* An overdub of a track with an UNDO buffer never writes the loop that    *)
(* sounds, for every setting, loop length and set of pedals.               *)
THEOREM NeverWritten == Apart => (FreeSpec => []NeverWritesWhatPlays)
<1>1. LoopInv => NeverWritesWhatPlays
  BY DEF LoopInv
<1> QED
  BY <1>1, LoopInvHolds, PTL

-----------------------------------------------------------------------------
(***************************************************************************)
(* Clears, of all settings and whenever UNDO and clears come.              *)
(***************************************************************************)

(* A buffer emptied under a recorder is one a clear has not waited for.    *)
EmptiedUncut ==
  /\ FreeTypeOK
  /\ \A r \in Buffers : Recording(r) /\ buf[r] = Empty => r \in uncut

LEMMA LeaveFull ==
  ASSUME FreeTypeOK, NEW ends, NEW r \in Buffers
  PROVE  /\ r \in ends => Leave(ends)[r] # Empty
         /\ r \notin ends => Leave(ends)[r] = buf[r]
BY FreshFacts, ContentsAssumption DEF Leave

LEMMA LoopBeginsUncut ==
  ASSUME EmptiedUncut, LoopBegins
  PROVE  /\ \A r \in Buffers :
              Recording(r)' /\ buf'[r] = Empty => r \in uncut'
         /\ \A r \in Buffers : buf[r] = Empty /\ buf'[r] # Empty =>
              \/ run'[r] \in {"pass", "inplace", "take"} /\ run'[r] # run[r]
              \/ r \in uncut
<1> DEFINE ends == {r \in Buffers : Pass(r) /\ due.rec # r}
<1>1. /\ run' = [r \in Buffers |-> CASE r = due.rec -> due.kind
                                       [] r \in ends -> "off"
                                       [] OTHER -> run[r]]
      /\ buf' = [r \in Buffers |-> IF r = due.rec THEN Fresh
                                   ELSE Leave(ends)[r]]
      /\ uncut' = uncut \ (ends \cup {due.rec})
  BY DEF LoopBegins
<1>2. due.rec \notin ends /\ \A r \in ends : Recording(r)
  BY DEF Pass, Recording
<1> HIDE DEF ends
<1>3. ASSUME NEW r \in Buffers
      PROVE  /\ Recording(r)' /\ buf'[r] = Empty => r \in uncut'
             /\ buf[r] = Empty /\ buf'[r] # Empty =>
                  \/ run'[r] \in {"pass", "inplace", "take"} /\ run'[r] # run[r]
                  \/ r \in uncut
  <2>1. CASE r = due.rec
    <3>1. run'[r] = due.kind /\ buf'[r] = Fresh
      BY <1>1, <1>2, <2>1
    <3>2. Fresh # Empty
      BY FreshFacts, ContentsAssumption DEF EmptiedUncut
    <3>3. due.kind \in {"pass", "inplace"}
      BY <2>1 DEF EmptiedUncut, FreeTypeOK, Dues, NoDue, Buffers
    <3>4. buf[r] = Empty => run[r] = "off" \/ r \in uncut
      BY DEF EmptiedUncut, Recording
    <3> QED
      BY <3>1, <3>2, <3>3, <3>4
  <2>2. CASE r # due.rec /\ r \in ends
    <3>1. run'[r] = "off"
      BY <1>1, <2>2
    <3>2. buf[r] = Empty => r \in uncut
      BY <1>2, <2>2 DEF EmptiedUncut
    <3> QED
      BY <3>1, <3>2 DEF Recording
  <2>3. CASE r # due.rec /\ r \notin ends
    <3>1. run'[r] = run[r] /\ buf'[r] = buf[r]
      BY <1>1, <2>3, LeaveFull DEF EmptiedUncut
    <3>2. r \in uncut => r \in uncut'
      BY <1>1, <2>3
    <3> QED
      BY <3>1, <3>2 DEF EmptiedUncut, Recording
  <2> QED
    BY <2>1, <2>2, <2>3
<1> QED
  BY <1>3

(* A pedal: only a take fills a buffer.                                    *)
LEMMA PerformUncut ==
  ASSUME EmptiedUncut, NEW r, NEW q, Perform(r, q)
  PROVE  /\ \A b \in Buffers :
              Recording(b)' /\ buf'[b] = Empty => b \in uncut'
         /\ \A b \in Buffers : buf[b] = Empty /\ buf'[b] # Empty =>
              \/ run'[b] \in {"pass", "inplace", "take"} /\ run'[b] # run[b]
              \/ b \in uncut
<1>1. run \in [Buffers -> Kinds] /\ buf \in [Buffers -> Contents \cup {Empty}]
  BY DEF EmptiedUncut, FreeTypeOK
<1>2. uncut' = uncut
  BY DEF Perform, Starts, Prepare, history
<1>3. CASE r.do = "take"
  <2>1. /\ run' = [run EXCEPT !["X"] = "take"]
        /\ buf' = [buf EXCEPT !["X"] = Fresh]
    BY <1>3, PerformFrame
  <2>2. Fresh # Empty
    BY FreshFacts, ContentsAssumption DEF EmptiedUncut
  <2>3. ASSUME NEW b \in Buffers, b # "X"
        PROVE  run'[b] = run[b] /\ buf'[b] = buf[b]
    BY <1>1, <2>1, <2>3
  <2>4. run'["X"] = "take" /\ buf'["X"] # Empty
    BY <1>1, <2>1, <2>2, Stored
  <2>5. buf["X"] = Empty => run["X"] = "off" \/ "X" \in uncut
    BY Stored DEF EmptiedUncut, Recording
  <2> QED
    BY <1>2, <2>3, <2>4, <2>5 DEF EmptiedUncut, Recording
<1>4. CASE r.do # "take"
  <2>1. buf' = buf
    BY <1>4, PerformFrame
  <2>2. \A b \in Buffers : run'[b] = "off" <=> run[b] = "off"
    <3>1. run' \in {run, StopRecorder("X", run),
                    StopRecorder(PassRecorder(fl), run)}
      BY <1>4, PerformFrame
    <3> QED
      BY <1>1, <3>1, StopRecorderDoes, PassRecorderType, Stored
  <2> QED
    BY <1>2, <2>1, <2>2 DEF EmptiedUncut, Recording
<1> QED
  BY <1>3, <1>4

(* The head of the UI tick empties, and a clear of everything empties all. *)
LEMMA UiHeadUncut ==
  ASSUME EmptiedUncut, UiHead
  PROVE  /\ \A r \in Buffers :
              Recording(r)' /\ buf'[r] = Empty => r \in uncut'
         /\ \A r \in Buffers : buf'[r] \in {Empty, buf[r]}
<1> DEFINE stopped == was /\ ~playing
           all == clrall = "asked" \/ (clrall = "bank" /\ playing)
           runs == IF stopped /\ fl.rec # "none"
                   THEN StopRecorder(PassRecorder(fl), run) ELSE run
           s == IF stopped THEN Stopped(fl) ELSE fl
           guard == StrayGuard(runs)
           kept == IF guard.lost THEN [s EXCEPT !.has = FALSE] ELSE s
<1>1. /\ run' = IF all /\ kept.st = "take"
                THEN StopRecorder("X", guard.runs) ELSE guard.runs
      /\ buf' = [r \in Buffers |->
                   IF all \/ (guard.lost /\ r = "X") THEN Empty ELSE buf[r]]
      /\ uncut' = IF all THEN {r \in Buffers : Recording(r)} ELSE uncut
  BY DEF UiHead
<1>2. run \in [Buffers -> Kinds]
  BY DEF EmptiedUncut, FreeTypeOK
<1>3. /\ runs \in [Buffers -> Kinds]
      /\ \A r \in Buffers : runs[r] = "off" <=> run[r] = "off"
  BY <1>2, StopRecorderType, StopRecorderDoes, PassRecorderType
<1>4. /\ guard.runs \in {runs, StopRecorder("X", runs)}
      /\ guard.lost => runs["X"] = "off"
  BY DEF StrayGuard
<1> HIDE DEF runs, guard, kept, all
<1>5. /\ guard.runs \in [Buffers -> Kinds]
      /\ \A r \in Buffers : guard.runs[r] = "off" <=> run[r] = "off"
  BY <1>3, <1>4, StopRecorderType, StopRecorderDoes, Stored
<1>6. \A r \in Buffers : run'[r] = "off" <=> run[r] = "off"
  BY <1>1, <1>5, StopRecorderDoes, Stored
<1>7. ASSUME NEW r \in Buffers, Recording(r)', buf'[r] = Empty
      PROVE  r \in uncut'
  <2>1. Recording(r)
    BY <1>6, <1>7 DEF Recording
  <2>2. CASE all
    BY <1>1, <2>1, <2>2
  <2>3. CASE ~all
    <3>1. ~(guard.lost /\ r = "X")
      BY <1>3, <1>4, <2>1 DEF Recording
    <3>2. buf'[r] = buf[r]
      BY <1>1, <2>3, <3>1
    <3> QED
      BY <1>1, <1>7, <2>1, <2>3, <3>2 DEF EmptiedUncut
  <2> QED
    BY <2>2, <2>3
<1> QED
  BY <1>1, <1>7

(* A clear of the track empties its buffers under no recorder it knows of. *)
LEMMA UiTrackUncut ==
  ASSUME EmptiedUncut, NEW long \in BOOLEAN, UiTrack(long)
  PROVE  /\ \A r \in Buffers :
              Recording(r)' /\ buf'[r] = Empty => r \in uncut'
         /\ \A r \in Buffers : buf'[r] \in {Empty, buf[r]}
<1> DEFINE h == IF long THEN LongPress(fl, c, ui = "run", Muted)
                ELSE Result(fl, "nothing", "none")
           cut == IF h.do = "cut" THEN StopRecorder(PassRecorder(fl), run)
                  ELSE run
           now == h.s.rpass = "now"
           heard == IF now THEN [h.s EXCEPT !.rpass = "none"] ELSE h.s
           asked == IF h.do = "clear" THEN 1 ELSE clr
           clear == Clearing(asked, heard, cut)
           p == PassRecorder(heard)
           unknown == {r \in Buffers : Recording(r)} \ {"X", p}
<1>1. /\ run' = clear.runs
      /\ buf' = [r \in Buffers |->
                   IF clear.done /\ (c.ubuf \/ r = lane) THEN Empty
                   ELSE buf[r]]
      /\ uncut' = IF clear.done THEN uncut \cup unknown ELSE uncut
  BY DEF UiTrack
<1>2. run \in [Buffers -> Kinds] /\ p \in Buffers
  BY PassRecorderType DEF EmptiedUncut, FreeTypeOK
<1>3. /\ cut \in [Buffers -> Kinds]
      /\ \A r \in Buffers : cut[r] = "off" <=> run[r] = "off"
  BY <1>2, StopRecorderType, StopRecorderDoes, PassRecorderType
<1>4. /\ clear.done => cut[p] = "off" /\ cut["X"] = "off"
      /\ clear.runs \in {cut, StopRecorder("X", StopRecorder(p, cut))}
  BY DEF Clearing
<1> HIDE DEF cut, clear, p, h, heard
<1>5. \A r \in Buffers : run'[r] = "off" <=> run[r] = "off"
  <2>1. StopRecorder(p, cut) \in [Buffers -> Kinds]
    BY <1>2, <1>3, StopRecorderType
  <2>2. \A r \in Buffers :
          StopRecorder("X", StopRecorder(p, cut))[r] = "off" <=> cut[r] = "off"
    BY <1>2, <1>3, <2>1, StopRecorderDoes, Stored
  <2> QED
    BY <1>1, <1>3, <1>4, <2>2
<1>6. ASSUME NEW r \in Buffers, Recording(r)', buf'[r] = Empty
      PROVE  r \in uncut'
  <2>1. Recording(r)
    BY <1>5, <1>6 DEF Recording
  <2>2. CASE clear.done
    <3>1. r # p /\ r # "X"
      BY <1>2, <1>3, <1>4, <2>1, <2>2, Stored DEF Recording
    <3> QED
      BY <1>1, <2>1, <2>2, <3>1
  <2>3. CASE ~clear.done
    BY <1>1, <1>6, <2>1, <2>3 DEF EmptiedUncut
  <2> QED
    BY <2>2, <2>3
<1> QED
  BY <1>1, <1>6

(* Of the steps that leave the buffers and the recorders alone.            *)
LEMMA UncutFrame ==
  ASSUME EmptiedUncut, UNCHANGED <<run, buf, uncut>>
  PROVE  \A r \in Buffers : Recording(r)' /\ buf'[r] = Empty => r \in uncut'
BY DEF EmptiedUncut, Recording

LEMMA UncutStep ==
  ASSUME EmptiedUncut, Next
  PROVE  /\ \A r \in Buffers :
              Recording(r)' /\ buf'[r] = Empty => r \in uncut'
         /\ \A r \in Buffers : buf[r] = Empty /\ buf'[r] # Empty =>
              \/ run'[r] \in {"pass", "inplace", "take"} /\ run'[r] # run[r]
              \/ r \in uncut
<1>1. CASE SeqStep
  <2>1. CASE pos' = 1
    BY <1>1, <2>1, LoopBeginsUncut DEF SeqStep
  <2>2. CASE pos' # 1
    <3>1. UNCHANGED <<run, buf, uncut>>
      BY <1>1, <2>2 DEF SeqStep, Prepare, history
    <3> QED
      BY <3>1, UncutFrame
  <2> QED
    BY <2>1, <2>2
<1>2. ASSUME NEW q \in Buffers, RecorderDone(q)
      PROVE  /\ \A r \in Buffers :
                  Recording(r)' /\ buf'[r] = Empty => r \in uncut'
             /\ \A r \in Buffers : buf[r] = Empty /\ buf'[r] # Empty =>
                  r \in uncut
  <2>1. /\ run' = [run EXCEPT ![q] = "off"] /\ buf' = Leave({q})
        /\ uncut' = uncut \ {q} /\ Recording(q)
    BY <1>2 DEF RecorderDone, Pass, Recording
  <2>2. ASSUME NEW r \in Buffers, r # q
        PROVE  run'[r] = run[r] /\ buf'[r] = buf[r]
    BY <2>1, <2>2, LeaveFull DEF EmptiedUncut, FreeTypeOK
  <2>3. run'[q] = "off"
    BY <2>1 DEF EmptiedUncut, FreeTypeOK
  <2> QED
    BY <2>1, <2>2, <2>3 DEF EmptiedUncut, Recording
<1>3. CASE Start \/ Stop \/ PedalUp \/ PatternLands \/ ClearAll \/ BankLands
  <2>1. UNCHANGED <<run, buf, uncut>>
    BY <1>3 DEF Start, Starts, Prepare, Stop, PedalUp, PatternLands, ClearAll,
                BankLands, unit, history
  <2> QED
    BY <2>1, UncutFrame
<1>4. CASE RecDown \/ PlayDown \/ UndoDown \/ EndDown
  <2>1. PICK r, q : Perform(r, q)
    BY <1>4 DEF RecDown, PlayDown, UndoDown, EndDown
  <2> QED
    BY <2>1, PerformUncut
<1>5. CASE UiTick
  BY <1>5, UiHeadUncut, UiTrackUncut DEF UiTick
<1> QED
  BY <1>1, <1>2, <1>3, <1>4, <1>5 DEF Next

(* An emptied buffer is filled by a recording that starts, or by what a    *)
(* recorder that no clear waited for leaves in it: of every setting, and   *)
(* wherever UNDO, clears and bank changes come.                            *)
THEOREM ClearedStays == FreeSpec => ClearedStaysEmpty
<1>1. Init => EmptiedUncut
  <2>1. ASSUME Init PROVE \A r \in Buffers : ~Recording(r)
    BY <2>1 DEF Init, Recording
  <2> QED
    BY <2>1, TypeInit DEF EmptiedUncut
<1>2. EmptiedUncut /\ [Next]_vars => EmptiedUncut'
  <2> SUFFICES ASSUME EmptiedUncut, [Next]_vars PROVE EmptiedUncut'
    OBVIOUS
  <2>1. FreeTypeOK'
    BY TypeNext DEF EmptiedUncut
  <2>2. UNCHANGED vars => UNCHANGED <<run, buf, uncut>>
    BY DEF vars, unit, history
  <2> QED
    BY <2>1, <2>2, UncutStep, UncutFrame DEF EmptiedUncut
<1>3. EmptiedUncut /\ [Next]_vars =>
        [\A r \in Buffers : buf[r] = Empty /\ buf'[r] # Empty =>
           \/ run'[r] \in {"pass", "inplace", "take"} /\ run'[r] # run[r]
           \/ r \in uncut]_vars
  BY UncutStep
<1> QED
  BY <1>1, <1>2, <1>3, PTL DEF FreeSpec, ClearedStaysEmpty

-----------------------------------------------------------------------------
(***************************************************************************)
(* The mutes the engine owes, of every setting: a pending END, and the two *)
(* mutes of a REPLACE pass.                                                *)
(***************************************************************************)

(* From s to t no REPLACE is asked, and the mutes a pass owes are at most  *)
(* brought forward: not made, or undone by the UI tick.                    *)
Eases(s, t) ==
  /\ t.repl => s.repl
  /\ \/ t.rpass = s.rpass
     \/ s.rpass = "unmute" /\ t.rpass = "now"
     \/ s.rpass = "mute" /\ t.rpass = "none"

(* Nor is an END asked.                                                    *)
Quiets(s, t) == Eases(s, t) /\ t.qpend \in {s.qpend, "none"}

SameMutes(s, t) == t.repl = s.repl /\ t.rpass = s.rpass /\ t.qpend = s.qpend

LEMMA QuietsFacts ==
  /\ \A s, t : SameMutes(s, t) => Quiets(s, t)
  /\ \A s, t, u : Quiets(s, t) /\ Quiets(t, u) => Quiets(s, u)
  /\ \A s, t, u : Eases(s, t) /\ Eases(t, u) => Eases(s, u)
  /\ \A s, t : Quiets(s, t) /\ EndPending(t) => EndPending(s)
BY DEF SameMutes, Quiets, Eases, EndPending

LEMMA SameMutesFields ==
  ASSUME NEW s \in States
  PROVE  /\ \A v : SameMutes(s, [s EXCEPT !.st = v])
         /\ \A v : SameMutes(s, [s EXCEPT !.has = v])
         /\ \A v : SameMutes(s, [s EXCEPT !.press = v])
BY DEF States, SameMutes

LEMMA PassMutes ==
  ASSUME NEW s \in States, NEW x, NEW replace
  PROVE  /\ SameMutes(s, PassDrop(s)) /\ SameMutes(s, PassOver(s, x))
         /\ PassOver(s, x).st = s.st
         /\ SameMutes(s, RecRunning(s)) /\ SameMutes(s, Into(s, x, replace))
<1>1. SameMutes(s, PassDrop(s))
  BY DEF PassDrop, States, SameMutes
<1>2. SameMutes(s, PassOver(s, x)) /\ PassOver(s, x).st = s.st
  BY DEF PassOver, States, SameMutes
<1>3. SameMutes(s, RecRunning(s))
  BY DEF RecRunning, States, SameMutes
<1>4. SameMutes(s, Into(s, x, replace))
  BY DEF Into, States, SameMutes
<1> QED
  BY <1>1, <1>2, <1>3, <1>4

LEMMA PressMutes ==
  ASSUME NEW s \in States, NEW pedal, NEW w, NEW undo, NEW started, NEW x,
         NEW fits
  PROVE  /\ SameMutes(s, Release(s, pedal))
         /\ SameMutes(s, Hold(s, pedal, w, undo, started))
         /\ SameMutes(s, Launch(s, x, fits).s)
         /\ Launch(s, x, fits).mute = "none"
<1>1. SameMutes(s, Release(s, pedal))
  BY DEF Release, States, SameMutes
<1>2. SameMutes(s, Hold(s, pedal, w, undo, started))
  BY DEF Hold, States, SameMutes
<1>3. SameMutes(s, Launch(s, x, fits).s) /\ Launch(s, x, fits).mute = "none"
  BY DEF Launch, Result, States, SameMutes
<1> QED
  BY <1>1, <1>2, <1>3

LEMMA ReplaceOffMutes ==
  ASSUME NEW s \in States
  PROVE  LET t == ReplaceOff(s)
         IN Quiets(s, t) /\ t.rpass \in {"none", "now"} /\ t.qpend = s.qpend
BY DEF ReplaceOff, States, Quiets, Eases

LEMMA ClearedMutes ==
  ASSUME NEW s \in States
  PROVE  Quiets(s, Cleared(s)) /\ Cleared(s).rpass \in {"none", "now"}
<1> DEFINE u == [s EXCEPT !.has = FALSE, !.cur = "X", !.rec = "none",
                   !.swap = FALSE, !.valid = FALSE, !.npass = 0,
                   !.anchorN = 0, !.anchorAt = "X", !.inplace = FALSE]
<1>1. SameMutes(s, u)
  BY DEF States, SameMutes
<1>2. u \in States
  BY SetField, Stored, Zenon
<1>3. Cleared(s) = ReplaceOff(u)
  BY DEF Cleared
<1> HIDE DEF u
<1> QED
  BY <1>1, <1>2, <1>3, ReplaceOffMutes, QuietsFacts

LEMMA ResetMutes ==
  ASSUME NEW s \in States
  PROVE  Quiets(s, Reset(s))
<1> DEFINE u == [s EXCEPT !.st = "idle", !.press = NoPress, !.qpend = "none"]
<1>1. u \in States
  BY SetField, Stored
<1>2. Quiets(s, u)
  BY DEF States, Quiets, Eases
<1>3. Reset(s) = Cleared(u)
  BY DEF Reset
<1> HIDE DEF u
<1> QED
  BY <1>1, <1>2, <1>3, ClearedMutes, QuietsFacts

(* A stop leaves nothing owed to a loop start.                             *)
LEMMA StoppedMutes ==
  ASSUME NEW s \in States
  PROVE  Quiets(s, Stopped(s)) /\ ~EndPending(Stopped(s))
<1> DEFINE st == IF s.st \in {"armed", "overdub"} THEN "idle" ELSE s.st
           u == [s EXCEPT !.st = st, !.qpend = "none"]
           v == ReplaceOff(u)
<1>1. u \in States
  <2>1. st \in {"idle", "take", "armed", "overdub"}
    BY Fields
  <2> HIDE DEF st
  <2> QED
    BY <2>1, SetField
<1>2. Quiets(s, u) /\ u.qpend = "none"
  <2> HIDE DEF st
  <2> QED
    BY DEF States, Quiets, Eases
<1>3. Stopped(s) = PassDrop(v)
  BY DEF Stopped
<1> HIDE DEF u
<1>4. v \in States /\ Quiets(u, v) /\ v.qpend = "none"
      /\ v.rpass \in {"none", "now"}
  BY <1>1, <1>2, ReplaceOffType, ReplaceOffMutes
<1> HIDE DEF v
<1>5. SameMutes(v, Stopped(s))
  BY <1>3, <1>4, PassMutes
<1> QED
  BY <1>2, <1>4, <1>5, QuietsFacts DEF SameMutes, EndPending

(* A pattern asks for a REPLACE, or takes an earlier one back.             *)
LEMMA PatternMutes ==
  ASSUME NEW s \in States, NEW mode
  PROVE  LET t == Pattern(s, mode)
         IN /\ t.rpass = s.rpass /\ t.qpend = s.qpend
            /\ t.repl => s.repl \/ mode = "REPLACE"
BY DEF Pattern, States

LEMMA UndoMutes ==
  ASSUME NEW s \in States, NEW x
  PROVE  Quiets(s, Undo(s, x).s)
<1> DEFINE t1 == [s EXCEPT !.rec = "none", !.inplace = FALSE, !.valid = TRUE,
                           !.cur = Flip(s.cur), !.st = "idle"]
           d == PassDrop(s)
           t2 == [d EXCEPT !.st = "idle",
                     !.rpass = IF d.rpass = "mute" THEN "none" ELSE d.rpass]
           t3 == [s EXCEPT !.cur = Flip(s.cur)]
<1>1. SameMutes(s, s) /\ SameMutes(s, t1) /\ SameMutes(s, t3)
  BY DEF States, SameMutes
<1>2. Quiets(s, t2)
  <2>1. d \in States /\ SameMutes(s, d)
    BY PassDropType, PassMutes
  <2> HIDE DEF d
  <2>2. Quiets(d, t2)
    BY <2>1 DEF States, Quiets, Eases
  <2> QED
    BY <2>1, <2>2, QuietsFacts
<1>3. Undo(s, x).s \in {s, t1, t2, t3}
  BY DEF Undo, Result
<1> QED
  BY <1>1, <1>2, <1>3, QuietsFacts

LEMMA RecPressMutes ==
  ASSUME NEW s \in States, NEW x, NEW on, NEW slave, NEW others, NEW fits
  PROVE  LET r == RecPress(s, x, on, slave, others, fits)
         IN Quiets(s, r.s) /\ r.mute = "none"
<1> DEFINE t1 == [s EXCEPT !.st = "take"]
           t2 == [s EXCEPT !.st = "armed"]
           t3 == [s EXCEPT !.st = "idle", !.repl = FALSE]
           h1 == Hold(t1, "rec", s.st, "none", "take")
           h2 == Hold(t2, "rec", s.st, "none", "none")
           h3 == Hold(t3, "rec", s.st, "none", "none")
           r == RecPress(s, x, on, slave, others, fits)
<1>1. /\ t1 \in States /\ t2 \in States /\ t3 \in States
      /\ SameMutes(s, t1) /\ SameMutes(s, t2) /\ Quiets(s, t3)
  <2>1. t1 \in States /\ t2 \in States /\ t3 \in States
    BY SetField
  <2> QED
    BY <2>1 DEF States, SameMutes, Quiets, Eases
<1>2. SameMutes(t1, h1) /\ SameMutes(t2, h2) /\ SameMutes(t3, h3)
  <2> HIDE DEF t1, t2, t3
  <2> QED
    BY <1>1, PressMutes
<1>3. \/ r = Launch(s, x, fits)
      \/ r = Result(s, "toast", "none")
      \/ r = Result(h1, "take", "none")
      \/ r = Result(h2, "toast", "none")
      \/ r = Result(h3, "toast", "none")
  BY DEF RecPress
<1>4. SameMutes(s, s) /\ SameMutes(s, Launch(s, x, fits).s)
      /\ Launch(s, x, fits).mute = "none"
  BY PressMutes DEF SameMutes
<1> HIDE DEF t1, t2, t3, h1, h2, h3, r
<1> QED
  BY <1>1, <1>2, <1>3, <1>4, QuietsFacts DEF Result, r

LEMMA EndMutes ==
  ASSUME NEW s \in States, NEW on, NEW m
  PROVE  LET r == End(s, on, m)
         IN /\ Eases(s, r.s) /\ r.s.rpass = s.rpass
            /\ ~on => r.s = s
BY DEF End, Result, States, Eases

LEMMA PlayPressMutes ==
  ASSUME NEW s \in States, NEW x \in Configs, NEW on \in BOOLEAN, NEW m,
         NEW others, NEW fits \in BOOLEAN
  PROVE  LET r == PlayPress(s, x, on, m, others, fits)
         IN Eases(s, r.s) /\ (~on => Quiets(s, r.s))
<1> DEFINE r == PlayPress(s, x, on, m, others, fits)
           launch == Launch(s, x, fits)
           held(started, undo) == Hold(s, "play", "idle", undo, started)
<1>1. SameMutes(s, s) /\ SameMutes(s, launch.s)
  BY PressMutes DEF SameMutes
<1>2. launch.s \in States
  BY LaunchType DEF GoodResult
<1>3. \A started, undo : SameMutes(s, held(started, undo))
  BY PressMutes
<1>4. \A started :
        SameMutes(s, Hold(launch.s, "play", "idle", "none", started))
  BY <1>1, <1>2, PressMutes DEF SameMutes
<1>5. \/ r = Result(s, "toast", "none")
      \/ \E started : r = Result(Hold(launch.s, "play", "idle", "none",
                                      started), launch.do, "none")
      \/ \E undo, mute : r = Result(held("play", undo), "play", mute)
      \/ on /\ r = End(held("end", "none"), on, m)
      \/ \E undo, mute : r = Result(held("now", undo), "nothing", mute)
  BY DEF PlayPress
<1>6. CASE on /\ r = End(held("end", "none"), on, m)
  <2>1. held("end", "none") \in States
    BY HoldType
  <2> DEFINE h == held("end", "none")
  <2>2. Eases(s, h)
    BY <1>3, QuietsFacts DEF Quiets
  <2> HIDE DEF held, r
  <2>3. Eases(h, r.s)
    BY <1>6, <2>1, EndMutes
  <2> HIDE DEF h
  <2>4. Eases(s, r.s)
    BY <2>2, <2>3, QuietsFacts
  <2>5. on
    BY <1>6
  <2> QED
    BY <2>4, <2>5 DEF r
<1> HIDE DEF launch, held
<1>7. CASE ~(on /\ r = End(held("end", "none"), on, m))
  <2>1. SameMutes(s, r.s)
    BY <1>1, <1>3, <1>4, <1>5, <1>7 DEF Result
  <2> QED
    BY <2>1, QuietsFacts DEF Quiets
<1> QED
  BY <1>6, <1>7

LEMMA LongPressMutes ==
  ASSUME NEW s \in States, NEW x, NEW on \in BOOLEAN, NEW m
  PROVE  LET r == LongPress(s, x, on, m)
         IN /\ Eases(s, r.s)
            /\ ~on \/ s.press.started # "now" => Quiets(s, r.s)
<1> DEFINE r == LongPress(s, x, on, m)
           up == [s EXCEPT !.press = NoPress]
           then == IF s.rec = "none" THEN s.press.was ELSE up.st
           u == [up EXCEPT !.st = then]
           gone == [up EXCEPT !.st = "idle", !.has = FALSE]
           end == End(up, on, s.press.undo = "mute")
<1>1. up \in States /\ SameMutes(s, up)
  BY SetField, Stored, SameMutesFields
<1>2. then \in {"idle", "take", "armed", "overdub"}
  BY <1>1, Fields DEF Presses
<1>3. u \in States /\ SameMutes(up, u)
  <2> HIDE DEF up, then
  <2> QED
    BY <1>1, <1>2, SetField, SameMutesFields
<1>4. SameMutes(up, gone)
  <2> HIDE DEF up
  <2> QED
    BY <1>1 DEF States, SameMutes
<1>5. Eases(up, end.s) /\ (~on => end.s = up)
  <2> HIDE DEF up
  <2> QED
    BY <1>1, EndMutes
<1>6. \/ r = Result(up, "nothing", "none")
      \/ s.press.started = "now" /\ r = Result(end.s, end.do, s.press.undo)
      \/ r = Undo(u, x)
      \/ r = Result(gone, "clear", "none")
  BY DEF LongPress
<1>7. Quiets(u, Undo(u, x).s)
  BY <1>3, UndoMutes
<1> HIDE DEF up, then, u, gone, end
<1>8. CASE r = Result(up, "nothing", "none")
  BY <1>1, <1>8, QuietsFacts DEF Result, Quiets
<1>9. CASE s.press.started = "now" /\ r = Result(end.s, end.do, s.press.undo)
  <2>1. Eases(s, up) /\ Quiets(s, up)
    BY <1>1, QuietsFacts DEF Quiets
  <2> QED
    BY <1>5, <1>9, <2>1, QuietsFacts DEF Result
<1>10. CASE r = Undo(u, x)
  <2>1. Quiets(s, r.s)
    BY <1>1, <1>3, <1>7, <1>10, QuietsFacts
  <2> QED
    BY <2>1 DEF Quiets
<1>11. CASE r = Result(gone, "clear", "none")
  BY <1>1, <1>4, <1>11, QuietsFacts DEF Result, Quiets
<1> QED
  BY <1>6, <1>8, <1>9, <1>10, <1>11

(* The gate leaves the mutes alone, or begins a REPLACE pass.              *)
GateMutes(s, t) ==
  \/ SameMutes(s, t)
  \/ s.repl /\ ~t.repl /\ t.rpass = "mute" /\ t.qpend = "none"

LEMMA TakenMutes ==
  ASSUME NEW s \in States
  PROVE  GateMutes(s, Taken(s))
<1>1. CASE s.st # "armed"
  BY <1>1 DEF Taken, GateMutes, SameMutes
<1>2. CASE s.st = "armed" /\ s.repl
  BY <1>2 DEF Taken, GateMutes, States
<1>3. CASE s.st = "armed" /\ ~s.repl
  BY <1>3 DEF Taken, GateMutes, SameMutes, States
<1> QED
  BY <1>1, <1>2, <1>3

LEMMA GateMutesHold ==
  ASSUME NEW s \in States, NEW x \in Configs
  PROVE  GateMutes(s, Gate(s, x).s)
<1> DEFINE over == PassOver(s, x)
           replace == over.st = "armed" /\ over.repl
           taken == Taken(over)
           into == Into(taken, x, replace)
<1>1. over \in States /\ SameMutes(s, over)
  BY PassOverType, PassMutes
<1>2. taken \in States /\ GateMutes(over, taken)
  <2> HIDE DEF over
  <2> QED
    BY <1>1, TakenType, TakenMutes
<1>3. SameMutes(taken, into)
  <2> HIDE DEF taken
  <2> QED
    BY <1>2, PassMutes
<1>4. Gate(s, x).s \in {taken, into}
  BY DEF Gate
<1> HIDE DEF over, taken, into
<1> QED
  BY <1>1, <1>2, <1>3, <1>4 DEF GateMutes, SameMutes

-----------------------------------------------------------------------------
(* The step handler looks at the track while it owes a mute to a loop      *)
(* start; once the sequencer has stopped, the UI tick has yet to see it.   *)
Heeded ==
  /\ EndPending(fl) => IF playing THEN qany ELSE was
  /\ ui = "run" => was

(* A REPLACE pass that has muted the track goes on to unmute it, if it has *)
(* a MIDI channel, and the next is asked for only once it has.             *)
OwesUnmute ==
  /\ c.chan /\ muted = "replace" => fl.rpass \in {"unmute", "now"}
  /\ entry = "REPLACE" => fl.rpass = "none" /\ ~fl.repl
  /\ fl.repl => fl.rpass = "none"

MuteInv == FreeTypeOK /\ Heeded /\ (Chained \/ OwesUnmute)

LEMMA MuteInit == Init => MuteInv
<1> SUFFICES ASSUME Init PROVE MuteInv
  OBVIOUS
<1>1. /\ fl.rpass = "none" /\ fl.qpend = "none" /\ ~fl.repl
      /\ muted = "no" /\ entry = "none" /\ ui = "idle"
  BY DEF Init, Zeroed
<1> QED
  BY <1>1, TypeInit DEF MuteInv, Heeded, OwesUnmute, EndPending

(* A step that mutes the track for no REPLACE pass and asks for none.      *)
NoReplace ==
  /\ Eases(fl, fl') /\ cfg' = cfg
  /\ muted' = "replace" => muted = "replace"
  /\ entry' = "REPLACE" => entry = "REPLACE"

LEMMA OwesMore ==
  ASSUME MuteInv, NoReplace
  PROVE  Chained \/ OwesUnmute'
BY DEF MuteInv, OwesUnmute, NoReplace, Eases, c

LEMMA HeedsMore ==
  ASSUME MuteInv, Quiets(fl, fl'), UNCHANGED <<was, ui, playing, qany>>
  PROVE  Heeded'
BY QuietsFacts DEF MuteInv, Heeded, EndPending

LEMMA UserMutes ==
  ASSUME NEW how, NEW now
  PROVE  MuteBy(how, "user", now) = "replace" => now = "replace"
BY DEF MuteBy

LEMMA PrepareMutes ==
  ASSUME FreeTypeOK, NEW s \in States, NEW q, Prepare(s, q)
  PROVE  GateMutes(s, fl') /\ (q \/ fl'.rpass = "mute" => qany')
BY SettingsFact, GateMutesHold DEF Prepare

(* The sequencer starts, or starts again, with what is owed noted.         *)
LEMMA StartsMutes ==
  ASSUME MuteInv, NEW s \in States, NEW q, Starts(s, q), Eases(fl, s),
         ~playing => Quiets(fl, s), playing /\ EndPending(s) => q, Seen,
         UNCHANGED <<cfg, was, ui, entry>>,
         muted' = "replace" => muted = "replace"
  PROVE  Heeded' /\ (Chained \/ OwesUnmute')
<1>1. /\ GateMutes(s, fl') /\ (q \/ fl'.rpass = "mute" => qany')
      /\ playing' = TRUE
  BY PrepareMutes DEF Starts, MuteInv
<1>2. ~playing => ~EndPending(s)
  BY QuietsFacts DEF MuteInv, Heeded, Seen
<1>3. EndPending(fl') => fl'.rpass = "mute" \/ q
  BY <1>1, <1>2 DEF GateMutes, SameMutes, EndPending
<1>4. Heeded'
  BY <1>1, <1>3 DEF Heeded, MuteInv, EndPending
<1>5. Chained \/ OwesUnmute'
  <2>1. CASE SameMutes(s, fl')
    <3>1. Eases(fl, fl')
      BY <2>1, QuietsFacts DEF Quiets
    <3> QED
      BY <3>1, OwesMore DEF NoReplace
  <2>2. CASE s.repl /\ ~fl'.repl /\ fl'.rpass = "mute"
    BY <2>2 DEF MuteInv, OwesUnmute, Eases, c
  <2> QED
    BY <1>1, <2>1, <2>2 DEF GateMutes
<1> QED
  BY <1>4, <1>5

(* The first step of the loop takes what is owed, in whatever order the    *)
(* END and the passes were asked for.                                      *)
LEMMA TogglesMutes ==
  ASSUME MuteInv, playing, Toggles
  PROVE  /\ EndPending(fl') => qany'
         /\ fl'.qpend = "none" /\ fl'.repl = fl.repl
         /\ fl'.rpass = IF fl.rpass = "mute" THEN "unmute"
                        ELSE IF fl.rpass = "unmute" THEN "none" ELSE fl.rpass
         /\ \E who \in {"user", "replace"} :
              /\ who = "replace" => fl.rpass = "mute"
              /\ muted' = MuteBy(IF fl.rpass \in {"mute", "unmute"}
                                 THEN fl.rpass ELSE fl.qpend, who, muted)
<1>1. fl \in States /\ fl.qpend \in {"none", "mute", "unmute"}
      /\ fl.rpass \in {"none", "mute", "unmute", "now"}
  BY Fields DEF MuteInv, FreeTypeOK
<1>2. CASE ~qany
  <2>1. UNCHANGED <<fl, qany, muted>> /\ ~EndPending(fl)
    BY <1>2 DEF Toggles, MuteInv, Heeded
  <2>2. fl.qpend = "none" /\ fl.rpass \notin {"mute", "unmute"}
    BY <2>1 DEF EndPending
  <2>3. muted' = MuteBy(IF fl.rpass \in {"mute", "unmute"} THEN fl.rpass
                        ELSE fl.qpend, "user", muted)
    BY <2>1, <2>2 DEF MuteBy
  <2> QED
    BY <2>1, <2>2, <2>3
<1>3. CASE qany
  <2> DEFINE r == LoopStart(fl)
             who == IF fl.rpass = "mute" THEN "replace" ELSE "user"
  <2>1. fl' = r.s /\ qany' = EndPending(r.s) /\ muted' = MuteBy(r.mute, who, muted)
    BY <1>3 DEF Toggles
  <2>2. /\ r.s.qpend = "none" /\ r.s.repl = fl.repl
        /\ r.s.rpass = IF fl.rpass = "mute" THEN "unmute"
                       ELSE IF fl.rpass = "unmute" THEN "none" ELSE fl.rpass
        /\ r.mute = IF fl.rpass \in {"mute", "unmute"} THEN fl.rpass
                    ELSE fl.qpend
    BY <1>1 DEF LoopStart, Result, States
  <2> HIDE DEF r
  <2> QED
    BY <2>1, <2>2
<1> QED
  BY <1>2, <1>3

(* A track that a REPLACE pass muted sounds again.                         *)
LEMMA TogglesUnmute ==
  ASSUME MuteInv, playing, Toggles, ~Chained, cfg' = cfg
  PROVE  /\ OwesUnmute' \/ entry' # entry
         /\ c.chan /\ muted = "replace" /\ fl.rpass # "now"
              => muted' # "replace"
<1>1. /\ c.chan /\ muted = "replace" => fl.rpass \in {"unmute", "now"}
      /\ entry = "REPLACE" => fl.rpass = "none" /\ ~fl.repl
      /\ fl.repl => fl.rpass = "none"
  BY DEF MuteInv, OwesUnmute
<1>2. PICK who \in {"user", "replace"} :
        /\ who = "replace" => fl.rpass = "mute"
        /\ muted' = MuteBy(IF fl.rpass \in {"mute", "unmute"}
                           THEN fl.rpass ELSE fl.qpend, who, muted)
  BY TogglesMutes
<1>3. /\ fl'.repl = fl.repl
      /\ fl'.rpass = IF fl.rpass = "mute" THEN "unmute"
                     ELSE IF fl.rpass = "unmute" THEN "none" ELSE fl.rpass
  BY TogglesMutes
<1>4. c.chan /\ muted' = "replace" =>
        fl.rpass = "mute" \/ (muted = "replace" /\ fl.rpass = "now")
  BY <1>1, <1>2 DEF MuteBy
<1>5. c' = c
  BY DEF c
<1> QED
  BY <1>1, <1>3, <1>4, <1>5 DEF OwesUnmute

LEMMA SeqStepMutes ==
  ASSUME MuteInv, SeqStep
  PROVE  Heeded' /\ (Chained \/ OwesUnmute')
<1>1. playing /\ UNCHANGED <<cfg, c, was, ui, playing, entry>>
  BY DEF SeqStep, c
<1>2. CASE pos' = 1
  <2>1. Toggles
    BY <1>2 DEF SeqStep, LoopBegins
  <2>2. Heeded'
    BY <1>1, <2>1, TogglesMutes DEF MuteInv, Heeded, EndPending
  <2>3. Chained \/ OwesUnmute'
    BY <1>1, <2>1, TogglesUnmute
  <2> QED
    BY <2>2, <2>3
<1>3. CASE pos' # 1 /\ pos' = L
  <2>1. Prepare(fl, qany) /\ UNCHANGED muted
    BY <1>3 DEF SeqStep
  <2>2. GateMutes(fl, fl') /\ (qany \/ fl'.rpass = "mute" => qany')
    BY <2>1, PrepareMutes DEF MuteInv, FreeTypeOK
  <2> QED
    BY <1>1, <2>1, <2>2
       DEF GateMutes, SameMutes, MuteInv, Heeded, OwesUnmute, EndPending
<1>4. CASE pos' # 1 /\ pos' # L
  <2>1. UNCHANGED <<fl, qany, muted>>
    BY <1>4 DEF SeqStep
  <2> QED
    BY <1>1, <2>1 DEF MuteInv, Heeded, OwesUnmute, EndPending
<1> QED
  BY <1>2, <1>3, <1>4
LEMMA UnitMutes ==
  ASSUME MuteInv, Start \/ Stop \/ \E r \in Buffers : RecorderDone(r)
  PROVE  Heeded' /\ (Chained \/ OwesUnmute')
<1>1. CASE Start
  <2>1. /\ Starts(fl, qany) /\ ~playing /\ Seen
        /\ UNCHANGED <<cfg, was, ui, entry, muted>>
    BY <1>1 DEF Start, Settled
  <2>2. fl \in States /\ Quiets(fl, fl) /\ Eases(fl, fl)
    BY QuietsFacts DEF MuteInv, FreeTypeOK, SameMutes, Quiets
  <2> QED
    BY <2>1, <2>2, StartsMutes
<1>2. CASE Stop
  <2>1. /\ was /\ playing' = FALSE
        /\ UNCHANGED <<c, fl, was, ui, qany, muted, entry>>
    BY <1>2 DEF Stop, Seen, engine, c
  <2> QED
    BY <2>1 DEF MuteInv, Heeded, OwesUnmute, EndPending
<1>3. CASE \E r \in Buffers : RecorderDone(r)
  <2>1. UNCHANGED <<c, fl, was, ui, qany, playing, muted, entry>>
    BY <1>3 DEF RecorderDone, engine, c
  <2> QED
    BY <2>1 DEF MuteInv, Heeded, OwesUnmute, EndPending
<1> QED
  BY <1>1, <1>2, <1>3

(* A pedal, its answer r given, the END noted if there is one.             *)
LEMMA PerformMutes ==
  ASSUME MuteInv, NEW r, NEW q, Perform(r, q), r.s \in States,
         Eases(fl, r.s), ~playing => Quiets(fl, r.s),
         playing /\ EndPending(r.s) => q,
         r.do \in {"launch", "play"} => Settled
  PROVE  Heeded' /\ (Chained \/ OwesUnmute')
<1>1. /\ muted' = CcMute(r.mute)
      /\ UNCHANGED <<cfg, was, ui, entry>>
  BY DEF Perform
<1>2. muted' = "replace" => muted = "replace"
  BY <1>1, UserMutes DEF CcMute
<1>3. CASE r.do \in {"launch", "play"}
  <2>1. Starts(r.s, q) /\ Seen
    BY <1>3 DEF Perform, Settled
  <2> QED
    BY <1>1, <1>2, <2>1, StartsMutes
<1>4. CASE r.do \notin {"launch", "play"}
  <2>1. fl' = r.s /\ qany' = q
    BY <1>4 DEF Perform
  <2>2. playing' = playing
    BY <1>4, PerformFrame
  <2>3. Chained \/ OwesUnmute'
    BY <1>1, <1>2, <2>1, OwesMore DEF NoReplace
  <2>4. ~playing => (EndPending(fl') => was)
    BY <2>1, QuietsFacts DEF MuteInv, Heeded
  <2> QED
    BY <1>1, <2>1, <2>2, <2>3, <2>4 DEF MuteInv, Heeded, EndPending
<1> QED
  BY <1>3, <1>4

LEMMA PedalMutes ==
  ASSUME MuteInv, RecDown \/ PlayDown \/ UndoDown \/ EndDown
  PROVE  Heeded' /\ (Chained \/ OwesUnmute')
<1>1. /\ fl \in States /\ c \in Configs /\ playing \in BOOLEAN
      /\ Muted \in BOOLEAN
  BY SettingsFact DEF MuteInv, FreeTypeOK, Muted
<1>2. CASE RecDown
  <2>1. PICK slave \in BOOLEAN, fits \in BOOLEAN, others \in Others :
          LET r == RecPress(fl, c, playing, slave, others, fits)
          IN (r.do \in {"take", "launch"} => Settled) /\ Perform(r, qany)
    BY <1>2 DEF RecDown
  <2> DEFINE r == RecPress(fl, c, playing, slave, others, fits)
  <2>2. r.s \in States /\ Quiets(fl, r.s)
    BY <1>1, RecPressType, RecPressMutes DEF GoodResult
  <2>3. r.do \in {"launch", "play"} => Settled
    BY <1>1, <2>1, RecPressDoes
  <2>4. playing /\ EndPending(r.s) => qany
    BY <2>2, QuietsFacts DEF MuteInv, Heeded
  <2>5. Perform(r, qany)
    BY <2>1
  <2> HIDE DEF r
  <2> QED
    BY <2>2, <2>3, <2>4, <2>5, PerformMutes DEF Quiets
<1>3. CASE PlayDown
  <2>1. PICK fits \in BOOLEAN, others \in Others :
          LET r == PlayPress(fl, c, playing, Muted, others, fits)
          IN /\ r.do \in {"play", "launch"} => Settled
             /\ Perform(r, EndPending(r.s))
    BY <1>3 DEF PlayDown
  <2> DEFINE r == PlayPress(fl, c, playing, Muted, others, fits)
  <2>2. r.s \in States /\ Eases(fl, r.s) /\ (~playing => Quiets(fl, r.s))
    BY <1>1, PlayPressType, PlayPressMutes DEF GoodResult
  <2>3. Perform(r, EndPending(r.s)) /\ (r.do \in {"launch", "play"} => Settled)
    BY <2>1
  <2> HIDE DEF r
  <2> QED
    BY <2>2, <2>3, PerformMutes
<1>4. CASE UndoDown
  <2> DEFINE r == Undo(fl, c)
  <2>1. Perform(r, qany)
    BY <1>4 DEF UndoDown
  <2>2. r.s \in States /\ Quiets(fl, r.s) /\ r.do \in {"toast", "cut"}
    BY <1>1, UndoType, UndoMutes, UndoDoes DEF GoodResult, UndoOutcome
  <2>3. playing /\ EndPending(r.s) => qany
    BY <2>2, QuietsFacts DEF MuteInv, Heeded
  <2> HIDE DEF r
  <2> QED
    BY <2>1, <2>2, <2>3, PerformMutes DEF Quiets
<1>5. CASE EndDown
  <2> DEFINE r == End(fl, playing, Muted)
  <2>1. Perform(r, EndPending(r.s))
    BY <1>5 DEF EndDown
  <2>2. r.s \in States /\ r.do \in {"nothing", "toast"}
    BY <1>1, EndType, EndDoes DEF GoodResult
  <2>3. Eases(fl, r.s) /\ (~playing => r.s = fl)
    BY <1>1, EndMutes
  <2>4. Quiets(fl, fl)
    BY QuietsFacts DEF SameMutes
  <2> HIDE DEF r
  <2> QED
    BY <2>1, <2>2, <2>3, <2>4, PerformMutes
<1> QED
  BY <1>2, <1>3, <1>4, <1>5

LEMMA OtherPressMutes ==
  ASSUME MuteInv, PedalUp \/ PatternLands \/ ClearAll \/ BankLands
  PROVE  Heeded' /\ (Chained \/ OwesUnmute')
<1>1. CASE PedalUp
  <2>1. UNCHANGED <<cfg, was, ui, qany, playing, muted, entry>>
    BY <1>1 DEF PedalUp, unit
  <2>2. Quiets(fl, fl')
    BY <1>1, PressMutes, QuietsFacts DEF PedalUp, MuteInv, FreeTypeOK
  <2> QED
    BY <2>1, <2>2, HeedsMore, OwesMore DEF NoReplace, Quiets
<1>2. CASE PatternLands \/ BankLands
  <2>1. /\ UNCHANGED <<c, fl, was, ui, qany, playing, muted>>
        /\ entry' = "REPLACE" => Chained \/ (fl.rpass = "none" /\ ~fl.repl)
    BY <1>2 DEF PatternLands, BankLands, Lands, engine, unit, c
  <2> QED
    BY <2>1 DEF MuteInv, Heeded, OwesUnmute, EndPending
<1>3. CASE ClearAll
  <2>1. UNCHANGED <<c, fl, was, ui, qany, playing, muted, entry>>
    BY <1>3 DEF ClearAll, unit, c
  <2> QED
    BY <2>1 DEF MuteInv, Heeded, OwesUnmute, EndPending
<1> QED
  BY <1>1, <1>2, <1>3

LEMMA UiHeadMutes ==
  ASSUME MuteInv, UiHead
  PROVE  Heeded' /\ (Chained \/ OwesUnmute')
<1> DEFINE stopped == was /\ ~playing
           s == IF stopped THEN Stopped(fl) ELSE fl
           all == clrall = "asked" \/ (clrall = "bank" /\ playing)
<1>1. PICK lost \in BOOLEAN :
        LET kept == IF lost THEN [s EXCEPT !.has = FALSE] ELSE s
            cleared == IF all THEN Reset(kept) ELSE kept
        IN fl' = IF playing /\ entry # "none" THEN Pattern(cleared, entry)
                 ELSE cleared
  <2> DEFINE runs == IF stopped /\ fl.rec # "none"
                     THEN StopRecorder(PassRecorder(fl), run) ELSE run
  <2>1. StrayGuard(runs).lost \in BOOLEAN
    BY DEF StrayGuard
  <2>2. LET kept == IF StrayGuard(runs).lost THEN [s EXCEPT !.has = FALSE] ELSE s
            cleared == IF all THEN Reset(kept) ELSE kept
        IN fl' = IF playing /\ entry # "none" THEN Pattern(cleared, entry)
                 ELSE cleared
    BY DEF UiHead
  <2> HIDE DEF runs, s, all
  <2> QED
    BY <2>1, <2>2
<1> HIDE DEF all
<1> DEFINE kept == IF lost THEN [s EXCEPT !.has = FALSE] ELSE s
           cleared == IF all THEN Reset(kept) ELSE kept
<1>2. /\ fl' = IF playing /\ entry # "none" THEN Pattern(cleared, entry)
               ELSE cleared
      /\ qany' = (qany /\ ~stopped) /\ was' = playing
      /\ entry' = IF playing THEN "none" ELSE entry
      /\ ui' = IF playing THEN "run" ELSE "stopped"
      /\ UNCHANGED <<c, playing, muted>>
  BY <1>1 DEF UiHead, c
<1>3. s \in States /\ Quiets(fl, s) /\ (stopped => ~EndPending(s))
  BY StoppedType, StoppedMutes, QuietsFacts DEF MuteInv, FreeTypeOK, SameMutes
<1> HIDE DEF s
<1>4. kept \in States /\ SameMutes(s, kept)
  BY <1>3, SetField, SameMutesFields DEF SameMutes
<1> HIDE DEF kept
<1>5. cleared \in States /\ Quiets(kept, cleared)
  BY <1>4, ResetType, ResetMutes, QuietsFacts DEF SameMutes
<1>6. Quiets(fl, cleared) /\ (stopped => ~EndPending(cleared))
  BY <1>3, <1>4, <1>5, QuietsFacts
<1> HIDE DEF cleared
<1>7. /\ fl'.rpass = cleared.rpass /\ fl'.qpend = cleared.qpend
      /\ fl'.repl => cleared.repl \/ (playing /\ entry = "REPLACE")
  BY <1>2, <1>5, PatternMutes
<1>8. Heeded'
  <2>1. EndPending(fl') => EndPending(fl) /\ ~stopped
    BY <1>6, <1>7, QuietsFacts DEF EndPending
  <2> QED
    BY <1>2, <2>1 DEF MuteInv, Heeded, EndPending
<1>9. Chained \/ OwesUnmute'
  BY <1>2, <1>6, <1>7 DEF MuteInv, OwesUnmute, Quiets, Eases
<1> QED
  BY <1>8, <1>9

(* The track's UI tick: it undoes the mute of a pass that is over.         *)
LEMMA UiTrackMutes ==
  ASSUME MuteInv, NEW long \in BOOLEAN, UiTrack(long)
  PROVE  Heeded' /\ (Chained \/ OwesUnmute')
<1> DEFINE h == IF long THEN LongPress(fl, c, ui = "run", Muted)
                ELSE Result(fl, "nothing", "none")
           now == h.s.rpass = "now"
           heard == IF now THEN [h.s EXCEPT !.rpass = "none"] ELSE h.s
<1>1. PICK done \in BOOLEAN, running \in BOOLEAN, has \in BOOLEAN,
           empty \in BOOLEAN :
        LET gone == IF done THEN Cleared(heard) ELSE heard
            s == IF running THEN RecRunning(gone) ELSE gone
        IN fl' = IF has THEN [s EXCEPT !.has = empty] ELSE s
  <2> DEFINE cut == IF h.do = "cut" THEN StopRecorder(PassRecorder(fl), run)
                    ELSE run
             clear == Clearing(IF h.do = "clear" THEN 1 ELSE clr, heard, cut)
             done == clear.done
             gone == IF done THEN Cleared(heard) ELSE heard
             running == clear.runs[PassRecorder(gone)] # "off"
             s == IF running THEN RecRunning(gone) ELSE gone
             has == ui = "stopped" /\ s.st = "idle"
             empty == [r \in Buffers |-> IF clear.done /\ (c.ubuf \/ r = lane)
                                         THEN Empty ELSE buf[r]][lane] # Empty
  <2>1. fl' = IF has THEN [s EXCEPT !.has = empty] ELSE s
    BY DEF UiTrack
  <2>2. done \in BOOLEAN
    BY DEF Clearing
  <2> HIDE DEF clear, cut, heard
  <2>3. running \in BOOLEAN /\ has \in BOOLEAN /\ empty \in BOOLEAN
    OBVIOUS
  <2> HIDE DEF done, running, has, empty
  <2> QED
    BY <2>1, <2>2, <2>3
<1> DEFINE gone == IF done THEN Cleared(heard) ELSE heard
           s == IF running THEN RecRunning(gone) ELSE gone
<1>2. /\ fl' = IF has THEN [s EXCEPT !.has = empty] ELSE s
      /\ muted' = CcMute(IF now THEN "unmute" ELSE h.mute)
      /\ qany' = IF long /\ fl.press.started = "now" /\ ui = "run"
                 THEN EndPending(h.s) ELSE qany
      /\ ui' = "idle" /\ UNCHANGED <<cfg, c, was, playing, entry>>
  BY <1>1 DEF UiTrack, c
<1>3. /\ h.s \in States /\ Eases(fl, h.s)
      /\ ~(long /\ fl.press.started = "now" /\ ui = "run") => Quiets(fl, h.s)
  <2>1. fl \in States /\ c \in Configs /\ Muted \in BOOLEAN
    BY SettingsFact DEF MuteInv, FreeTypeOK, Muted
  <2>2. CASE long
    <3>1. h = LongPress(fl, c, ui = "run", Muted) /\ (ui = "run") \in BOOLEAN
      BY <2>2
    <3> QED
      BY <2>1, <2>2, <3>1, LongPressType, LongPressMutes DEF GoodResult
  <2>3. CASE ~long
    <3>1. h.s = fl
      BY <2>3 DEF Result
    <3>2. Quiets(fl, fl)
      BY QuietsFacts DEF SameMutes
    <3> QED
      BY <2>1, <3>1, <3>2 DEF Quiets
  <2> QED
    BY <2>2, <2>3
<1> HIDE DEF h
<1>4. /\ heard \in States /\ heard.repl = h.s.repl /\ heard.qpend = h.s.qpend
      /\ heard.rpass = IF now THEN "none" ELSE h.s.rpass
  <2>1. heard \in States
    BY <1>3, SetField
  <2> QED
    BY <1>3, <2>1 DEF States
<1> HIDE DEF heard
<1>5. gone \in States /\ Quiets(heard, gone)
  BY <1>4, ClearedType, ClearedMutes, QuietsFacts DEF SameMutes
<1> HIDE DEF gone
<1>6. s \in States /\ SameMutes(gone, s)
  BY <1>5, RecRunningType, PassMutes DEF SameMutes
<1> HIDE DEF s
<1>7. SameMutes(s, fl')
  BY <1>2, <1>6, SameMutesFields DEF SameMutes
<1>8. Quiets(heard, fl')
  BY <1>5, <1>6, <1>7, QuietsFacts
<1>9. EndPending(fl') => EndPending(h.s)
  BY <1>4, <1>8, QuietsFacts DEF EndPending
<1>10. Heeded'
  BY <1>2, <1>3, <1>9, QuietsFacts DEF MuteInv, Heeded, EndPending
<1>11. Chained \/ OwesUnmute'
  <2>1. CASE now
    <3>1. fl'.rpass = "none" /\ (fl'.repl => h.s.repl)
      BY <1>4, <1>8, <2>1 DEF Quiets, Eases
    <3>2. c.chan => muted' = "no"
      BY <1>2, <2>1 DEF CcMute, MuteBy
    <3> QED
      BY <1>2, <1>3, <3>1, <3>2 DEF MuteInv, OwesUnmute, Eases
  <2>2. CASE ~now
    <3>1. Eases(h.s, heard)
      BY <1>4, <2>2 DEF Eases
    <3>2. Eases(fl, fl')
      BY <1>3, <1>8, <3>1, QuietsFacts DEF Quiets
    <3>3. muted' = "replace" => muted = "replace"
      BY <1>2, <2>2, UserMutes DEF CcMute
    <3> QED
      BY <1>2, <3>2, <3>3, OwesMore DEF NoReplace
  <2> QED
    BY <2>1, <2>2
<1> QED
  BY <1>10, <1>11

LEMMA MuteNext == MuteInv /\ [Next]_vars => MuteInv'
<1> SUFFICES ASSUME MuteInv, [Next]_vars PROVE MuteInv'
  OBVIOUS
<1>1. FreeTypeOK'
  BY TypeNext DEF MuteInv
<1>2. Heeded' /\ (Chained \/ OwesUnmute')
  <2>1. CASE UNCHANGED vars
    BY <2>1 DEF vars, engine, unit, MuteInv, Heeded, OwesUnmute, EndPending, c
  <2>2. CASE UiTick
    BY <2>2, UiHeadMutes, UiTrackMutes DEF UiTick
  <2> QED
    BY <2>1, <2>2, SeqStepMutes, UnitMutes, PedalMutes, OtherPressMutes
       DEF Next
<1> QED
  BY <1>1, <1>2 DEF MuteInv

(* The mutes owed are kept: of any setting, whenever UNDO and clears come. *)
THEOREM MuteInvHolds == FreeSpec => []MuteInv
<1> QED
  BY MuteInit, MuteNext, PTL DEF FreeSpec

(* A track muted by a REPLACE pass is owed its unmute, if it has a MIDI    *)
(* channel and no REPLACE pattern follows a REPLACE pass before it is over.*)
THEOREM UnmuteStaysOwed == ~Chained => (FreeSpec => []UnmuteIsOwed)
<1>1. ~Chained /\ MuteInv => UnmuteIsOwed
  BY DEF MuteInv, OwesUnmute, UnmuteIsOwed
<1>2. ~Chained => [](~Chained)
  OBVIOUS
<1> QED
  BY <1>1, <1>2, MuteInvHolds, PTL

(* What is owed is taken at the first step.                                *)
LEMMA DueStep ==
  ASSUME MuteInv, ~Chained, [Next]_vars, playing, pos # 1, pos' = 1
  PROVE  /\ fl'.qpend = "none"
         /\ fl.qpend # "none" /\ fl.rpass \in {"none", "now"}
              => (muted' # "no" <=> fl.qpend = "mute")
         /\ c.chan /\ muted = "replace" /\ fl.rpass # "now"
              => muted' # "replace"
<1>1. SeqStep
  <2>1. \A r, q : Perform(r, q) => pos' \in {pos, 0}
    BY PerformFrame DEF Starts
  <2>2. RecDown \/ PlayDown \/ UndoDown \/ EndDown => pos' \in {pos, 0}
    BY <2>1 DEF RecDown, PlayDown, UndoDown, EndDown
  <2>3. UiTick \/ Start \/ Stop => pos' \in {pos, 0}
    <3>1. UiHead => pos' = pos
      BY DEF UiHead
    <3>2. ASSUME NEW long \in BOOLEAN, UiTrack(long) PROVE pos' = pos
      BY <3>2 DEF UiTrack
    <3>3. Start \/ Stop => pos' = 0
      BY DEF Start, Starts, Stop
    <3> QED
      BY <3>1, <3>2, <3>3 DEF UiTick
  <2>4. PedalUp \/ PatternLands \/ ClearAll \/ BankLands => pos' = pos
    BY DEF PedalUp, PatternLands, ClearAll, BankLands, unit
  <2>5. \A r \in Buffers : RecorderDone(r) => pos' = pos
    BY DEF RecorderDone
  <2>6. UNCHANGED vars => pos' = pos
    BY DEF vars, unit
  <2> QED
    BY <2>2, <2>3, <2>4, <2>5, <2>6 DEF Next
<1>2. Toggles /\ cfg' = cfg
  BY <1>1 DEF SeqStep, LoopBegins
<1>3. fl.qpend \in {"none", "mute", "unmute"}
  BY Fields DEF MuteInv, FreeTypeOK
<1>4. fl.qpend # "none" /\ fl.rpass \in {"none", "now"}
        => (muted' # "no" <=> fl.qpend = "mute")
  BY <1>2, <1>3, TogglesMutes DEF MuteBy
<1> QED
  BY <1>2, <1>4, TogglesMutes, TogglesUnmute

(* Every first step of the loop takes what it owes: the END that is        *)
(* pending, and the unmute of a REPLACE pass.                              *)
THEOREM TakenAtLoopStart == ~Chained => (FreeSpec => DueAtLoopStart)
<1>1. MuteInv /\ ~Chained /\ [Next]_vars =>
        [playing /\ pos # 1 /\ pos' = 1 =>
           /\ fl'.qpend = "none"
           /\ fl.qpend # "none" /\ fl.rpass \in {"none", "now"}
                => (muted' # "no" <=> fl.qpend = "mute")
           /\ c.chan /\ muted = "replace" /\ fl.rpass # "now"
                => muted' # "replace"]_vars
  BY DueStep
<1>2. ~Chained => [](~Chained)
  OBVIOUS
<1> QED
  BY <1>1, <1>2, MuteInvHolds, PTL DEF FreeSpec, DueAtLoopStart
=============================================================================
