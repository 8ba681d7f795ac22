------------------------- MODULE TrackPatternsProofs -------------------------
(***************************************************************************)
(* TrackPatterns for any tracks, patterns, lengths and gestures: what its  *)
(* run checks on two tracks and two patterns.                              *)
(***************************************************************************)
EXTENDS TrackPatterns, TLAPS

QueueCodes == 1 .. NPatterns \cup {TP_TO_FOLLOW}

(* The fields the UI task keeps at each point of its code.                 *)
LEMMA UiFacts ==
  ASSUME ui \in UiStates
  PROVE  /\ ui.at \in {"idle", "leds", "sync", "queue", "write", "label"}
         /\ ui.at = "idle" <=> ui = Idle
         /\ ui # Idle => ui.calm \in BOOLEAN
         /\ ui.at \in {"leds", "sync", "queue"} => ui.id \in Ids
         /\ ui.at \in {"sync", "queue", "write", "label"} => ui.track \in Tracks
         /\ ui.at \in {"sync", "queue"} => ui.pattern \in Patterns
         /\ ui.at \in {"write", "label"} => ui.code \in QueueCodes
         /\ ui.at = "write" => ui.src \in Codes /\ ui.runs \in BOOLEAN
BY DEF UiStates, Idle, QueueCodes

(* A step taken between the UI task's leaves it where it was.              *)
LEMMA BetweenFacts ==
  ASSUME ui \in UiStates, Between
  PROVE  /\ ui' \in UiStates
         /\ ui'.at = ui.at
         /\ ui.at \in {"leds", "sync", "queue"} => ui'.id = ui.id
         /\ ui.at \in {"sync", "queue", "write", "label"} => ui'.track = ui.track
         /\ ui.at \in {"write", "label"} => ui'.code = ui.code
         /\ ui # Idle => ui.calm /\ ~ui'.calm
<1>1. CASE ui = Idle
  BY <1>1, UiFacts DEF Between, Idle, UiStates
<1>2. CASE ui # Idle
  <2>1. ui.calm /\ ui' = [ui EXCEPT !.calm = FALSE]
    BY <1>2 DEF Between
  <2>2. CASE ui \in [at : {"leds"}, id : Ids, calm : BOOLEAN]
    BY <2>1, <2>2 DEF UiStates
  <2>3. CASE ui \in [at : {"sync", "queue"}, track : Tracks,
                     pattern : Patterns, id : Ids, calm : BOOLEAN]
    BY <2>1, <2>3 DEF UiStates
  <2>4. CASE ui \in [at : {"write"}, track : Tracks, calm : BOOLEAN,
                     code : 1 .. NPatterns \cup {TP_TO_FOLLOW}, src : Codes,
                     runs : BOOLEAN]
    BY <2>1, <2>4 DEF UiStates
  <2>5. CASE ui \in [at : {"label"}, track : Tracks, calm : BOOLEAN,
                     code : 1 .. NPatterns \cup {TP_TO_FOLLOW}]
    BY <2>1, <2>5 DEF UiStates
  <2> QED
    BY <1>2, <2>2, <2>3, <2>4, <2>5 DEF UiStates
<1> QED
  BY <1>1, <1>2

(* tp_queue's codes land as codes of src, and only TP_TO_FOLLOW as 0.      *)
LEMMA CodeFacts ==
  /\ \A p, g \in Patterns : Code(p, g) \in QueueCodes
  /\ \A k \in QueueCodes : Landed(k) \in Codes /\ k # 0
  /\ TP_TO_FOLLOW \notin Codes /\ 0 \in Codes /\ NPatterns \in Nat
BY CountsAssumption
   DEF Code, Landed, QueueCodes, Codes, Patterns, TP_TO_FOLLOW

(* A change queued is a code.                                              *)
LEMMA NextFacts ==
  ASSUME NEW s \in TpStates, NEW t \in Tracks, s.next[t] # 0
  PROVE  s.next[t] \in QueueCodes
BY CodeFacts DEF TpStates, QueueCodes, Codes

(* tp_global touches nothing but what it clears and the pattern seen.      *)
LEMMA GlobalFacts ==
  ASSUME NEW s \in TpStates, NEW now \in Ids
  PROVE  /\ Global(s, now) \in TpStates
         /\ Global(s, now).seen /\ Global(s, now).global = now
         /\ Global(s, now).last = s.last
         /\ Global(s, now).started = s.started
         /\ Global(s, now).src = IF Cleared(s, now) THEN Zero ELSE s.src
         /\ Global(s, now).next = IF Cleared(s, now) THEN Zero ELSE s.next
BY CodeFacts DEF TpStates, Global, Cleared, Zero

(* tp_step for every track: the tracks at their loop start land.           *)
LEMMA SteppedFacts ==
  ASSUME NEW s \in TpStates, NEW raw \in [Tracks -> Nat]
  PROVE  /\ Stepped(s, raw) \in TpStates
         /\ Stepped(s, raw).seen = s.seen
         /\ Stepped(s, raw).global = s.global
         /\ Stepped(s, raw).last = raw
         /\ \A t \in Tracks :
              /\ Stepped(s, raw).started[t]
              /\ t \in Lands(s, raw) => /\ s.next[t] \in QueueCodes
                                        /\ Stepped(s, raw).src[t] = Landed(s.next[t])
                                        /\ Stepped(s, raw).next[t] = 0
              /\ t \notin Lands(s, raw) => /\ Stepped(s, raw).src[t] = s.src[t]
                                           /\ Stepped(s, raw).next[t] = s.next[t]
<1>1. \A t \in Tracks : s.next[t] # 0 => s.next[t] \in QueueCodes
  BY NextFacts
<1>2. \A t \in Lands(s, raw) : t \in Tracks /\ s.next[t] # 0
  BY DEF Lands
<1>3. \A t \in Lands(s, raw) : Landed(s.next[t]) \in Codes
  BY <1>1, <1>2, CodeFacts
<1> DEFINE src == [t \in Tracks |-> IF t \in Lands(s, raw)
                                    THEN Landed(s.next[t]) ELSE s.src[t]]
           next == [t \in Tracks |-> IF t \in Lands(s, raw)
                                     THEN 0 ELSE s.next[t]]
<1>4. src \in [Tracks -> Codes]
  BY <1>3 DEF TpStates
<1>5. next \in [Tracks -> Codes \cup {TP_TO_FOLLOW}]
  BY CodeFacts DEF TpStates
<1>6. Stepped(s, raw) = [s EXCEPT !.src = src, !.next = next,
                          !.started = [t \in Tracks |-> TRUE], !.last = raw]
  BY DEF Stepped
<1> HIDE DEF src, next
<1>7. /\ Stepped(s, raw) \in TpStates
      /\ Stepped(s, raw).src = src /\ Stepped(s, raw).next = next
      /\ Stepped(s, raw).started = [t \in Tracks |-> TRUE]
      /\ Stepped(s, raw).last = raw
      /\ Stepped(s, raw).seen = s.seen /\ Stepped(s, raw).global = s.global
  BY <1>4, <1>5, <1>6 DEF TpStates
<1> QED
  BY <1>1, <1>2, <1>7 DEF src, next

(* tp_queue's write: one track's src and next.                             *)
LEMMA QueuedFacts ==
  ASSUME NEW s \in TpStates, NEW t \in Tracks, NEW code \in QueueCodes,
         NEW src \in Codes, NEW runs \in BOOLEAN
  PROVE  /\ Queued(s, t, code, src, runs) \in TpStates
         /\ Queued(s, t, code, src, runs).seen = s.seen
         /\ Queued(s, t, code, src, runs).global = s.global
         /\ Queued(s, t, code, src, runs).last = s.last
         /\ Queued(s, t, code, src, runs).started = s.started
         /\ \A o \in Tracks \ {t} :
              /\ Queued(s, t, code, src, runs).src[o] = s.src[o]
              /\ Queued(s, t, code, src, runs).next[o] = s.next[o]
         /\ runs => /\ Queued(s, t, code, src, runs).src = s.src
                    /\ Queued(s, t, code, src, runs).next[t] =
                         IF Landed(code) = src THEN 0 ELSE code
         /\ ~runs => /\ Queued(s, t, code, src, runs).src[t] = Landed(code)
                     /\ Queued(s, t, code, src, runs).next[t] = 0
<1>1. Landed(code) \in Codes /\ 0 \in Codes
  BY CodeFacts
<1>2. code \in Codes \cup {TP_TO_FOLLOW}
  BY CodeFacts DEF QueueCodes, Codes
<1>3. CASE runs
  BY <1>1, <1>2, <1>3 DEF Queued, TpStates
<1>4. CASE ~runs
  BY <1>1, <1>2, <1>4 DEF Queued, TpStates
<1> QED
  BY <1>3, <1>4

(* A tick, field by field.                                                 *)
LEMMA TickFacts ==
  ASSUME TpTypeOK, Tick
  PROVE  LET s == Global(tp, id)
         IN /\ s \in TpStates /\ tp' \in TpStates
            /\ tp' = Stepped(s, counter) /\ tp'.seen /\ tp'.global = id
            /\ counter' \in [Tracks -> Nat] /\ pos' \in Nat
            /\ \A t \in Tracks : counter'[t] \in {0, counter[t] + 1}
            /\ pos' = 0 => counter' = Zero
            /\ id' = id /\ pend' = pend /\ playing' = playing
            /\ ui' \in UiStates
<1>1. /\ Global(tp, id) \in TpStates
      /\ Global(tp, id).seen /\ Global(tp, id).global = id
  BY GlobalFacts DEF TpTypeOK
<1>2. tp' = Stepped(Global(tp, id), counter)
  BY DEF Tick
<1>3. /\ tp' \in TpStates /\ tp'.seen /\ tp'.global = id
  BY <1>1, <1>2, SteppedFacts DEF TpTypeOK
<1>4. /\ counter' \in [Tracks -> Nat]
      /\ \A t \in Tracks : counter'[t] \in {0, counter[t] + 1}
  BY DEF Tick, TpTypeOK
<1>5. pos' \in Nat /\ (pos' = 0 => counter' = Zero)
  BY DEF Tick, TpTypeOK, Zero
<1> QED
  BY <1>1, <1>2, <1>3, <1>4, <1>5, BetweenFacts DEF Tick, TpTypeOK

(* The global patterns are patterns; NoId is none.                         *)
LEMMA IdFacts == Ids \subseteq Steps /\ NoId \notin Steps
BY IdsAssumption, CodeFacts DEF Steps, NoId, Patterns

(* The pattern a step is given from is one of the bank's.                  *)
LEMMA GivenFacts ==
  ASSUME NEW s \in TpStates, NEW t \in Tracks, id \in Ids
  PROVE  /\ Pattern(s, t, id[2]) \in Patterns
         /\ <<id[1], Pattern(s, t, id[2])>> \in Steps
<1>2. id[1] \in Nat /\ id[2] \in Patterns
  BY IdFacts DEF Steps
<1>3. Pattern(s, t, id[2]) \in Patterns
  BY <1>2, CodeFacts DEF TpStates, Codes, Patterns, Pattern
<1> QED
  BY <1>2, <1>3 DEF Steps

(* What the rebuild prepares while the sequencer plays.                    *)
LEMMA PeekFacts ==
  ASSUME NEW s \in TpStates, NEW t \in Tracks, id \in Ids
  PROVE  PeekPattern(s, t) \in Steps
<1>1. id[1] \in Nat /\ id[2] \in Patterns
  BY IdsAssumption DEF Steps
<1>2. s.next[t] # 0 => Landed(s.next[t]) \in Codes
  BY NextFacts, CodeFacts
<1>3. Peek(s, t, counter[t], id[2]) \in Patterns
  <2>1. CASE Wraps(s, t, counter[t]) /\ s.next[t] # 0
    BY <1>1, <1>2, <2>1, CodeFacts DEF Peek, Codes, Patterns
  <2>2. CASE ~(Wraps(s, t, counter[t]) /\ s.next[t] # 0)
    BY <2>2, GivenFacts DEF Peek
  <2> QED
    BY <2>1, <2>2
<1> QED
  BY <1>1, <1>3, GivenFacts DEF PeekPattern, Steps

LEMMA TypeHolds ==
  ASSUME TpTypeOK, [Next]_vars
  PROVE  TpTypeOK'
<1> USE DEF TpTypeOK
<1>0. /\ Zero \in [Tracks -> Codes] /\ Zero \in [Tracks -> Nat]
      /\ NoSteps \in [Tracks -> Steps \cup {NoId}]
  BY CodeFacts DEF Zero, NoSteps
<1>1. CASE Tick
  <2>1. heard' \in [Tracks -> Steps \cup {NoId}]
    <3>1. pend # NoId => pend \in Steps
      BY IdFacts
    <3>2. \A t \in Tracks :
            Given(Stepped(Global(tp, id), counter), t,
                  IF pos = 0 /\ pend # NoId THEN pend ELSE id) \in Steps
      BY <1>1, <3>1, TickFacts, GivenFacts, IdFacts DEF Given
    <3> QED
      BY <1>1, <3>2 DEF Tick
  <2>2. across' \in BOOLEAN /\ (across' => pend' # NoId)
    BY <1>1 DEF Tick
  <2>3. ready' = NoSteps /\ told' \in [Tracks -> Codes]
    BY <1>0, <1>1 DEF Tick, ToldAfter
  <2> QED
    BY <1>0, <1>1, <2>1, <2>2, <2>3, TickFacts
<1>2. CASE ChangeLands
  BY <1>0, <1>2 DEF ChangeLands
<1>3. CASE Choose
  BY <1>0, <1>3, BetweenFacts DEF Choose
<1>4. CASE Start
  BY <1>0, <1>4, BetweenFacts DEF Start
<1>5. CASE Stop
  BY <1>0, <1>5, BetweenFacts DEF Stop
<1>6. CASE Gesture
  <2>1. ui' \in UiStates
    BY <1>6, KeysAssumption DEF Gesture, UiStates
  <2> QED
    BY <1>6, <2>1 DEF Gesture, stock
<1>7. CASE LedPass
  <2>1. ui' \in UiStates
    BY <1>7 DEF LedPass, UiStates
  <2> QED
    BY <1>7, <2>1 DEF LedPass, stock
<1>8. CASE Sync
  <2>1. tp' \in TpStates /\ told' \in [Tracks -> Codes]
    BY <1>0, <1>8, UiFacts, GlobalFacts DEF Sync, ToldAfter
  <2>2. ui' \in UiStates
    <3>1. CASE ui.at = "leds"
      BY <1>8, <3>1 DEF Sync, UiStates
    <3>2. CASE ui.at = "sync"
      <4>1. ui \in [at : {"sync", "queue"}, track : Tracks,
                   pattern : Patterns, id : Ids, calm : BOOLEAN]
        BY <3>2 DEF UiStates, Idle
      <4> QED
        BY <1>8, <3>2, <4>1 DEF Sync, UiStates
    <3> QED
      BY <1>8, <3>1, <3>2 DEF Sync
  <2> QED
    BY <1>8, <2>1, <2>2 DEF Sync, stock
<1>9. CASE Queue
  <2>1. ui.id[2] \in Patterns
    BY <1>9, UiFacts, IdsAssumption DEF Queue, Steps
  <2>2. /\ Code(ui.pattern, ui.id[2]) \in QueueCodes
        /\ tp.src[ui.track] \in Codes
    BY <1>9, <2>1, UiFacts, CodeFacts DEF Queue, TpStates
  <2>3. ui' \in UiStates
    BY <1>9, <2>2, UiFacts DEF Queue, UiStates, QueueCodes
  <2> QED
    BY <1>9, <2>3 DEF Queue, stock
<1>10. CASE Write
  <2>1. tp' \in TpStates
    BY <1>10, UiFacts, QueuedFacts DEF Write
  <2>2. ui' \in UiStates
    BY <1>10, UiFacts DEF Write, UiStates, QueueCodes
  <2> QED
    BY <1>10, <2>1, <2>2 DEF Write, stock
<1>11. CASE Toast
  <2>1. tp' \in TpStates
    BY <1>11, GlobalFacts DEF Toast
  <2>2. Label(tp, ui.track, ui.code) \in Codes
    BY <1>11, UiFacts, NextFacts, CodeFacts DEF Toast, Label, TpStates
  <2>3. told' \in [Tracks -> Codes]
    BY <1>0, <1>11, <2>2 DEF Toast
  <2>4. ready' \in [Tracks -> Steps \cup {NoId}]
    BY <1>11, <2>1, PeekFacts DEF Toast, Rebuilt
  <2> QED
    BY <1>11, <2>1, <2>3, <2>4 DEF Toast, stock, UiStates
<1>12. CASE Rebuild
  <2>1. tp' \in TpStates
    BY <1>12, GlobalFacts DEF Rebuild
  <2>2. ready' \in [Tracks -> Steps \cup {NoId}]
    BY <1>12, <2>1, PeekFacts DEF Rebuild, Rebuilt
  <2> QED
    BY <1>0, <1>12, <2>1, <2>2 DEF Rebuild, stock, ToldAfter
<1>13. CASE UNCHANGED vars
  BY <1>13 DEF vars, stock
<1> QED
  BY <1>1, <1>2, <1>3, <1>4, <1>5, <1>6, <1>7, <1>8, <1>9, <1>10, <1>11,
     <1>12, <1>13 DEF Next

LEMMA InitTypes ==
  ASSUME Init
  PROVE  TpTypeOK
<1>1. tp \in TpStates
  BY CodeFacts DEF Init, TpStates, Zero
<1>2. ui \in UiStates
  BY DEF Init, UiStates
<1> QED
  BY <1>1, <1>2, CodeFacts DEF Init, TpTypeOK, Zero, NoSteps

(* TpTypeOK: every code a track's src or next takes is one of the bank's.  *)
THEOREM TypesHold == TpSpec => []TpTypeOK
<1>1. Init => TpTypeOK
  BY InitTypes
<1>2. TpTypeOK /\ [Next]_vars => TpTypeOK'
  BY TypeHolds
<1> QED
  BY <1>1, <1>2, PTL DEF TpSpec

(* The UI task is about to follow a global pattern that no longer plays.   *)
UiStale == ui.at \in {"sync", "leds"} /\ ui.id # id
NoOverrides == tp.src = Zero /\ tp.next = Zero

(* What the engine has seen of the global pattern: a change it has not     *)
(* seen is one it will see, even after a stale tp_global.                  *)
SyncInv ==
  /\ ~tp.seen => NoOverrides /\ ui.at \notin {"queue", "write", "label"}
  /\ across => /\ playing /\ tp.seen /\ pend # id
               /\ tp.global # pend /\ ~UiStale
  /\ UiStale /\ ui.calm => pend = NoId
  /\ UiStale => Unseen \/ NoOverrides

(* What track t is given at the next step, if nothing lands.               *)
Plays(t) ==
  IF Unseen \/ tp.src[t] = 0 THEN id ELSE <<id[1], tp.src[t] - 1>>

(* Within a pass a track has been given what it still plays.               *)
PassInv ==
  /\ (~playing \/ pos = 0) => counter = Zero
  /\ \A t \in Tracks : counter[t] # 0 =>
       /\ tp.started[t] /\ tp.last[t] < counter[t]
       /\ heard[t] # NoId => heard[t] = IF across THEN pend ELSE Plays(t)

(* The toast's word, and what tp_queue has read for it.                    *)
ToldInv ==
  /\ ToastIsKept
  /\ ui.at = "write" /\ ui.calm => ui.src = tp.src[ui.track]

(* A step the rebuild prepared is the one the state still leads to.        *)
ReadyInv ==
  \A t \in Tracks : ready[t] # NoId =>
    /\ playing /\ tp.seen /\ tp.global = id /\ ~UiStale
    /\ ready[t] = PeekPattern(tp, t)

(* What a track plays and wants, a change not yet seen taken as seen.      *)
NowPlays(t) == IF Unseen THEN 0 ELSE tp.src[t]
NowWants(t) == IF Unseen THEN 0 ELSE Wants(t)

(* Following the global pattern, the playing one or a stale one, changes   *)
(* no track's choice.                                                      *)
LEMMA FollowingKeeps ==
  ASSUME TpTypeOK, NEW now \in Ids, now = id \/ Unseen \/ NoOverrides,
         tp' = Global(tp, now), id' = id
  PROVE  \A t \in Tracks : NowPlays(t)' = NowPlays(t) /\ NowWants(t)' = NowWants(t)
<1>1. /\ tp'.seen /\ tp'.global = now
      /\ tp'.src = IF Cleared(tp, now) THEN Zero ELSE tp.src
      /\ tp'.next = IF Cleared(tp, now) THEN Zero ELSE tp.next
  BY GlobalFacts DEF TpTypeOK
<1>2. Unseen' = (now # id)
  BY <1>1 DEF Unseen
<1>3. CASE now = id
  <2>1. Cleared(tp, now) = Unseen
    BY <1>3 DEF Cleared, Unseen
  <2> QED
    BY <1>1, <1>2, <1>3, <2>1 DEF NowPlays, NowWants, Wants, Zero
<1>4. CASE now # id
  BY <1>2, <1>4 DEF NowPlays, NowWants, Wants, NoOverrides, Zero
<1> QED
  BY <1>3, <1>4

(* Before its first tp_global, and as long as nothing is queued, the       *)
(* engine keeps every track on the global pattern.                         *)
LEMMA ClearsFacts ==
  ASSUME TpTypeOK, NEW now \in Ids, Cleared(tp, now) \/ NoOverrides
  PROVE  Global(tp, now).src = Zero /\ Global(tp, now).next = Zero
BY GlobalFacts DEF TpTypeOK, NoOverrides

LEMMA SteppedNone ==
  ASSUME NEW s \in TpStates, NEW raw \in [Tracks -> Nat],
         s.src = Zero, s.next = Zero
  PROVE  Stepped(s, raw).src = Zero /\ Stepped(s, raw).next = Zero
<1>1. Lands(s, raw) = {}
  BY DEF Lands, Zero
<1>2. /\ Stepped(s, raw) \in TpStates
      /\ \A t \in Tracks : /\ Stepped(s, raw).src[t] = 0
                           /\ Stepped(s, raw).next[t] = 0
  BY <1>1, SteppedFacts DEF Zero
<1> QED
  BY <1>2 DEF TpStates, Zero

LEMMA SyncHolds ==
  ASSUME TpTypeOK, SyncInv, [Next]_vars
  PROVE  SyncInv'
<1> USE DEF TpTypeOK, SyncInv
<1>1. CASE Tick
  <2>1. ui'.at = ui.at /\ (ui.at \in {"sync", "leds"} => ui'.id = ui.id)
        /\ (ui # Idle => ui.calm /\ ~ui'.calm) /\ (ui.at # "idle" => ui # Idle)
    BY <1>1, UiFacts, BetweenFacts DEF Tick
  <2>2. UiStale' = UiStale
    BY <1>1, <2>1 DEF Tick, UiStale
  <2>3. ASSUME across' PROVE pend # id /\ pend # NoId
    BY <1>1, <2>3 DEF Tick
  <2>4. across' => ~UiStale
    BY <1>1, <2>1, <2>3 DEF UiStale, Idle
  <2>5. ASSUME UiStale PROVE NoOverrides'
    <3>1. Cleared(tp, id) \/ NoOverrides
      BY <2>5 DEF Cleared, Unseen
    <3> QED
      BY <1>1, <3>1, ClearsFacts, SteppedNone, TickFacts DEF NoOverrides
  <2> QED
    BY <1>1, <2>1, <2>2, <2>3, <2>4, <2>5, TickFacts DEF Tick, UiStale, Idle
<1>2. CASE ChangeLands
  <2>1. Unseen'
    BY <1>2 DEF ChangeLands, Unseen
  <2>2. tp'.seen
    BY <1>2 DEF ChangeLands
  <2> QED
    BY <1>2, <2>1, <2>2 DEF ChangeLands
<1>3. CASE Choose
  <2>1. ui'.at = ui.at /\ (ui.at \in {"sync", "leds"} => ui'.id = ui.id)
        /\ (ui # Idle => ui.calm /\ ~ui'.calm) /\ (ui.at # "idle" => ui # Idle)
    BY <1>3, UiFacts, BetweenFacts DEF Choose
  <2>2. UiStale' => ~ui'.calm
    BY <2>1 DEF UiStale
  <2>3. NoOverrides' = NoOverrides /\ ~across' /\ tp' = tp
    BY <1>3 DEF Choose, NoOverrides
  <2>4. CASE playing
    BY <1>3, <2>1, <2>2, <2>3, <2>4 DEF Choose, UiStale, Unseen
  <2>5. CASE ~playing
    <3>1. Unseen' \/ NoOverrides
      BY <1>3, <2>5 DEF Choose, Unseen
    <3> QED
      BY <2>1, <2>2, <2>3, <3>1
  <2> QED
    BY <2>4, <2>5
<1>4. CASE Start \/ Stop
  <2>1. ui'.at = ui.at /\ (ui.at \in {"sync", "leds"} => ui'.id = ui.id)
        /\ (ui # Idle => ui.calm /\ ~ui'.calm) /\ (ui.at # "idle" => ui # Idle)
    BY <1>4, UiFacts, BetweenFacts DEF Start, Stop
  <2>2. UiStale' => ~ui'.calm
    BY <2>1 DEF UiStale
  <2>3. NoOverrides' = NoOverrides /\ tp' = tp
    BY <1>4 DEF Start, Stop, NoOverrides
  <2>4. CASE id' = id
    <3>1. UiStale' = UiStale /\ Unseen' = Unseen
      BY <1>4, <2>1, <2>4 DEF Start, Stop, UiStale, Unseen
    <3> QED
      BY <1>4, <2>1, <2>2, <2>3, <3>1 DEF Start, Stop
  <2>5. CASE id' # id
    <3>1. ~across' /\ (Unseen' \/ NoOverrides)
      BY <1>4, <2>5 DEF Start, Stop, Unseen
    <3> QED
      BY <2>1, <2>2, <2>3, <3>1
  <2> QED
    BY <2>4, <2>5
<1>5. CASE Gesture \/ LedPass
  BY <1>5 DEF Gesture, LedPass, stock, UiStale, NoOverrides, Unseen
<1>6. CASE Sync
  <2>1. tp'.seen /\ tp'.global = ui.id /\ ui.id \in Ids
    BY <1>6, UiFacts, GlobalFacts DEF Sync
  <2>2. ~UiStale'
    BY <1>6 DEF Sync, UiStale, Idle
  <2>3. across => ui.id = id
    BY <1>6 DEF Sync, UiStale
  <2> QED
    BY <1>6, <2>1, <2>2, <2>3 DEF Sync, stock
<1>7. CASE Queue
  BY <1>7 DEF Queue, stock, UiStale, NoOverrides, Unseen
<1>8. CASE Write
  <2>1. tp'.seen = tp.seen /\ tp'.global = tp.global
    BY <1>8, UiFacts, QueuedFacts DEF Write
  <2>2. ~UiStale'
    BY <1>8 DEF Write, UiStale
  <2> QED
    BY <1>8, <2>1, <2>2 DEF Write, stock
<1>9. CASE Toast \/ Rebuild
  <2>1. tp'.seen /\ tp'.global = id /\ ~UiStale'
    BY <1>9, GlobalFacts DEF Toast, Rebuild, UiStale, Idle
  <2> QED
    BY <1>9, <2>1 DEF Toast, Rebuild, stock
<1>10. CASE UNCHANGED vars
  BY <1>10 DEF vars, stock, UiStale, NoOverrides, Unseen
<1> QED
  BY <1>1, <1>2, <1>3, <1>4, <1>5, <1>6, <1>7, <1>8, <1>9, <1>10 DEF Next

LEMMA PassHolds ==
  ASSUME TpTypeOK, SyncInv, PassInv, [Next]_vars
  PROVE  PassInv'
<1> USE DEF TpTypeOK
<1>0. \A t \in Tracks : Zero[t] = 0
  BY DEF Zero
<1>1. CASE Tick
  <2>1. playing' /\ (pos' = 0 => counter' = Zero)
    BY <1>1, TickFacts DEF Tick
  <2>2. ASSUME NEW t \in Tracks, counter'[t] # 0
        PROVE  /\ tp'.started[t] /\ tp'.last[t] < counter'[t]
               /\ heard'[t] = IF across' THEN pend' ELSE Plays(t)'
    <3>1. counter'[t] = counter[t] + 1
      BY <1>1, <2>2, TickFacts
    <3>2. tp'.started[t] /\ tp'.last[t] = counter[t]
      BY <1>1, TickFacts, SteppedFacts
    <3>3. ~Unseen' /\ id' = id /\ pend' = pend
      BY <1>1, TickFacts DEF Unseen
    <3>4. heard'[t] = IF across' THEN pend' ELSE Plays(t)'
      <4> DEFINE chosen == IF pos = 0 /\ pend # NoId THEN pend ELSE id
      <4>1. heard'[t] = Given(tp', t, chosen) /\ across' = (chosen # id)
        BY <1>1, TickFacts DEF Tick
      <4>2. CASE chosen = id
        <5>1. id = <<id[1], id[2]>>
          BY IdFacts DEF Steps
        <5> QED
          BY <3>3, <4>1, <4>2, <5>1 DEF Given, Plays, Pattern
      <4>3. CASE chosen # id
        BY <3>3, <4>1, <4>3 DEF Given
      <4> QED
        BY <4>2, <4>3
    <3> QED
      BY <3>1, <3>2, <3>4
  <2> QED
    BY <2>1, <2>2 DEF PassInv
<1>2. CASE ChangeLands
  <2>1. Unseen' /\ id' = pend
    BY <1>2 DEF ChangeLands, Unseen, SyncInv
  <2> QED
    BY <1>2, <2>1 DEF ChangeLands, PassInv, SyncInv, Plays
<1>3. CASE Choose
  BY <1>0, <1>3 DEF Choose, PassInv, Plays, Unseen
<1>4. CASE Start \/ Stop
  BY <1>0, <1>4 DEF Start, Stop, PassInv, Plays, Unseen
<1>5. CASE Gesture \/ LedPass \/ Queue
  BY <1>5 DEF Gesture, LedPass, Queue, stock, PassInv, Plays, Unseen
<1>6. CASE Sync \/ Toast \/ Rebuild
  <2>1. PICK now \in Ids : /\ tp' = Global(tp, now)
                           /\ now = id \/ Unseen \/ NoOverrides
    BY <1>6, UiFacts DEF Sync, Toast, Rebuild, SyncInv, UiStale
  <2>2. /\ id' = id /\ across' = across /\ pend' = pend /\ counter' = counter
        /\ playing' = playing /\ pos' = pos /\ heard' = heard
    BY <1>6 DEF Sync, Toast, Rebuild, stock
  <2>3. tp'.last = tp.last /\ tp'.started = tp.started
    BY <2>1, GlobalFacts
  <2>4. \A t \in Tracks : NowPlays(t)' = NowPlays(t)
    BY <2>1, <2>2, FollowingKeeps
  <2>5. \A t \in Tracks : Plays(t)' = Plays(t)
    BY <2>2, <2>4 DEF Plays, NowPlays
  <2> QED
    BY <2>2, <2>3, <2>5 DEF PassInv
<1>7. CASE Write
  <2>1. /\ tp'.seen = tp.seen /\ tp'.global = tp.global
        /\ tp'.last = tp.last /\ tp'.started = tp.started
        /\ \A t \in Tracks \ {ui.track} : tp'.src[t] = tp.src[t]
        /\ ui.runs => tp'.src = tp.src
        /\ ~ui.runs => heard'[ui.track] = NoId
        /\ \A t \in Tracks : heard'[t] \in {heard[t], NoId}
    BY <1>7, UiFacts, QueuedFacts DEF Write
  <2>2. UNCHANGED stock
    BY <1>7 DEF Write
  <2>3. \A t \in Tracks : heard'[t] # NoId =>
          heard'[t] = heard[t] /\ Plays(t)' = Plays(t)
    BY <2>1, <2>2 DEF Plays, Unseen, stock
  <2> QED
    BY <2>1, <2>2, <2>3 DEF PassInv, stock
<1>8. CASE UNCHANGED vars
  BY <1>8 DEF vars, stock, PassInv, Plays, Unseen
<1> QED
  BY <1>1, <1>2, <1>3, <1>4, <1>5, <1>6, <1>7, <1>8 DEF Next

LEMMA ToldHolds ==
  ASSUME TpTypeOK, ToldInv, [Next]_vars
  PROVE  ToldInv'
<1> USE DEF TpTypeOK
<1>1. \A t \in Tracks : Zero[t] = 0
  BY DEF Zero
<1>2. ASSUME NEW now \in Ids, tp' = Global(tp, now), told' = ToldAfter(now),
             NEW t \in Tracks
      PROVE  /\ ~Cleared(tp, now) => Wants(t)' = Wants(t) /\ told'[t] = told[t]
             /\ Cleared(tp, now) => Wants(t)' = 0 /\ told'[t] = 0
  BY <1>1, <1>2, GlobalFacts DEF Wants, ToldAfter
<1>3. CASE Tick
  <2>1. \A t \in Tracks : tp'.next[t] = 0 \/ tp'.next[t] = Global(tp, id).next[t]
    BY <1>3, TickFacts, SteppedFacts
  <2> DEFINE s == Global(tp, id)
             W(t) == IF s.next[t] # 0 THEN Landed(s.next[t]) ELSE s.src[t]
  <2>2. \A t \in Tracks : Wants(t)' = W(t)
    <3>1. ASSUME NEW t \in Lands(s, counter), t \in Tracks PROVE Wants(t)' = W(t)
      <4>1. s.next[t] # 0
        BY <3>1 DEF Lands
      <4>2. tp'.next[t] = 0 /\ tp'.src[t] = Landed(s.next[t])
        BY <1>3, <3>1, TickFacts, SteppedFacts
      <4> QED
        BY <4>1, <4>2 DEF Wants
    <3>2. ASSUME NEW t \in Tracks \ Lands(s, counter) PROVE Wants(t)' = W(t)
      BY <1>3, <3>2, TickFacts, SteppedFacts DEF Wants
    <3> QED
      BY <3>1, <3>2
  <2>3. \A t \in Tracks :
          /\ ~Cleared(tp, id) => W(t) = Wants(t) /\ told'[t] = told[t]
          /\ Cleared(tp, id) => W(t) = 0 /\ told'[t] = 0
    BY <1>1, <1>3, GlobalFacts DEF Tick, ToldAfter, Wants
  <2>4. /\ ui'.at = ui.at /\ (ui.at = "label" => ui'.track = ui.track)
        /\ ui.at \in {"write", "label"} => ~ui'.calm
    BY <1>3, UiFacts, BetweenFacts DEF Tick, Idle
  <2>5. \A t \in Tracks : (ui'.at = "label" => ui'.track # t)
                          => Wants(t)' = told'[t]
    BY <2>2, <2>3, <2>4 DEF ToldInv, ToastIsKept
  <2> QED
    BY <2>4, <2>5 DEF ToldInv, ToastIsKept
<1>4. CASE ChangeLands \/ Choose \/ Start \/ Stop
  <2>1. tp' = tp /\ told' = told
    BY <1>4 DEF ChangeLands, Choose, Start, Stop
  <2>2. /\ ui'.at = ui.at /\ (ui.at = "label" => ui'.track = ui.track)
        /\ ui' = ui \/ (ui.at \in {"write", "label"} => ~ui'.calm)
    BY <1>4, UiFacts, BetweenFacts DEF ChangeLands, Choose, Start, Stop, Idle
  <2> QED
    BY <2>1, <2>2 DEF ToldInv, ToastIsKept, Wants
<1>5. CASE Gesture \/ LedPass \/ Queue
  BY <1>5 DEF Gesture, LedPass, Queue, ToldInv, ToastIsKept, Wants, Idle
<1>6. CASE Sync
  <2>1. ui'.at \notin {"write", "label"}
    BY <1>6 DEF Sync, Idle
  <2>2. ui.id \in Ids
    BY <1>6, UiFacts DEF Sync
  <2> QED
    BY <1>2, <1>6, <2>1, <2>2 DEF Sync, ToldInv, ToastIsKept
<1>7. CASE Rebuild
  <2>1. ui' = Idle
    BY <1>7 DEF Rebuild
  <2> QED
    BY <1>2, <1>7, <2>1 DEF Rebuild, ToldInv, ToastIsKept, Idle
<1>8. CASE Write
  <2>1. /\ ui'.at = "label" /\ ui'.track = ui.track /\ ui'.code = ui.code
        /\ ui'.calm = ui.calm /\ told' = told /\ ui.track \in Tracks
    BY <1>8, UiFacts DEF Write
  <2>2. /\ \A t \in Tracks \ {ui.track} : Wants(t)' = Wants(t)
        /\ ui.src = tp.src[ui.track] => Wants(ui.track)' = Landed(ui.code)
    <3>1. /\ ui.track \in Tracks /\ ui.code \in QueueCodes
          /\ ui.src \in Codes /\ ui.runs \in BOOLEAN
          /\ tp' = Queued(tp, ui.track, ui.code, ui.src, ui.runs)
      BY <1>8, UiFacts DEF Write
    <3>. DEFINE q == Queued(tp, ui.track, ui.code, ui.src, ui.runs)
    <3>4. /\ \A o \in Tracks \ {ui.track} :
                q.src[o] = tp.src[o] /\ q.next[o] = tp.next[o]
          /\ ui.runs => /\ q.src = tp.src
                        /\ q.next[ui.track] =
                             IF Landed(ui.code) = ui.src THEN 0 ELSE ui.code
          /\ ~ui.runs => /\ q.src[ui.track] = Landed(ui.code)
                         /\ q.next[ui.track] = 0
      BY <3>1, QueuedFacts
    <3> HIDE DEF q
    <3>5. tp' = q
      BY <3>1 DEF q
    <3>2. \A t \in Tracks \ {ui.track} : Wants(t)' = Wants(t)
      BY <3>4, <3>5 DEF Wants
    <3>3. ASSUME ui.src = tp.src[ui.track]
          PROVE  Wants(ui.track)' = Landed(ui.code)
      <4>1. CASE ui.runs
        <5>1. /\ tp'.src[ui.track] = tp.src[ui.track]
              /\ tp'.next[ui.track] =
                   IF Landed(ui.code) = ui.src THEN 0 ELSE ui.code
              /\ ui.code # 0
          BY <3>1, <3>4, <3>5, <4>1, CodeFacts
        <5> QED
          BY <2>1, <3>3, <5>1 DEF Wants
      <4>2. CASE ~ui.runs
        BY <2>1, <3>4, <3>5, <4>2 DEF Wants
      <4> QED
        BY <3>1, <4>1, <4>2
    <3> QED
      BY <3>2, <3>3
  <2> QED
    BY <1>8, <2>1, <2>2 DEF Write, ToldInv, ToastIsKept
<1>9. CASE Toast
  <2>1. ui' = Idle /\ ui.track \in Tracks
    BY <1>9, UiFacts DEF Toast
  <2>2. CASE Cleared(tp, id)
    BY <1>1, <1>9, <2>1, <2>2, GlobalFacts
       DEF Toast, ToldInv, ToastIsKept, Wants, Idle
  <2>3. CASE ~Cleared(tp, id)
    <3>1. \A t \in Tracks : Wants(t)' = Wants(t)
      BY <1>9, <2>3, GlobalFacts DEF Toast, Wants
    <3>2. told'[ui.track] = Wants(ui.track)
      BY <1>9, <2>1, <2>3 DEF Toast, Label, Wants
    <3>3. \A t \in Tracks \ {ui.track} : told'[t] = told[t]
      BY <1>9, <2>3 DEF Toast
    <3> QED
      BY <1>9, <2>1, <3>1, <3>2, <3>3 DEF Toast, ToldInv, ToastIsKept, Idle
  <2> QED
    BY <2>2, <2>3
<1>10. CASE UNCHANGED vars
  BY <1>10 DEF vars, ToldInv, ToastIsKept, Wants
<1> QED
  BY <1>3, <1>4, <1>5, <1>6, <1>7, <1>8, <1>9, <1>10 DEF Next

LEMMA ReadyHolds ==
  ASSUME TpTypeOK, SyncInv, ReadyInv, [Next]_vars
  PROVE  ReadyInv'
<1> USE DEF TpTypeOK
<1>1. CASE Tick \/ ChangeLands \/ Choose \/ Start \/ Stop
  BY <1>1 DEF Tick, ChangeLands, Choose, Start, Stop, ReadyInv, NoSteps
<1>2. CASE Gesture \/ LedPass \/ Queue
  BY <1>2 DEF Gesture, LedPass, Queue, stock, ReadyInv, UiStale, PeekPattern
<1>3. CASE Sync
  <2>1. ~UiStale'
    BY <1>3 DEF Sync, UiStale, Idle
  <2>2. ASSUME NEW t \in Tracks, ready[t] # NoId PROVE tp' = tp
    <3>1. tp.seen /\ tp.global = id /\ ui.id = id
      BY <1>3, <2>2 DEF Sync, ReadyInv, UiStale
    <3> QED
      BY <1>3, <3>1 DEF Sync, Global, Cleared, TpStates
  <2> QED
    BY <1>3, <2>1, <2>2 DEF Sync, stock, ReadyInv, PeekPattern
<1>4. CASE Write
  <2>1. ~UiStale'
    BY <1>4 DEF Write, UiStale
  <2>2. /\ tp'.seen = tp.seen /\ tp'.global = tp.global
        /\ tp'.last = tp.last /\ tp'.started = tp.started
        /\ \A t \in Tracks \ {ui.track} : /\ tp'.src[t] = tp.src[t]
                                          /\ tp'.next[t] = tp.next[t]
    BY <1>4, UiFacts, QueuedFacts DEF Write
  <2>3. \A t \in Tracks : ready'[t] # NoId =>
          ready'[t] = ready[t] /\ t # ui.track
    BY <1>4, UiFacts DEF Write
  <2>4. \A t \in Tracks \ {ui.track} : PeekPattern(tp, t)' = PeekPattern(tp, t)
    BY <1>4, <2>2 DEF Write, stock, PeekPattern, Peek, Pattern, Wraps
  <2> QED
    BY <1>4, <2>1, <2>2, <2>3, <2>4 DEF Write, stock, ReadyInv
<1>5. CASE Toast \/ Rebuild
  <2>1. tp'.seen /\ tp'.global = id /\ ~UiStale'
    BY <1>5, GlobalFacts DEF Toast, Rebuild, UiStale, Idle
  <2>2. UNCHANGED stock /\ ready' = Rebuilt(tp')
    BY <1>5 DEF Toast, Rebuild
  <2>3. \A t \in Tracks : ready'[t] # NoId =>
          playing /\ ready'[t] = PeekPattern(tp, t)'
    BY <2>2 DEF Rebuilt, stock, PeekPattern
  <2> QED
    BY <2>1, <2>2, <2>3 DEF ReadyInv, stock
<1>6. CASE UNCHANGED vars
  BY <1>6 DEF vars, stock, ReadyInv, UiStale, PeekPattern
<1> QED
  BY <1>1, <1>2, <1>3, <1>4, <1>5, <1>6 DEF Next

-----------------------------------------------------------------------------
Inv == TpTypeOK /\ SyncInv /\ PassInv /\ ToldInv /\ ReadyInv

LEMMA InvStarts == Init => Inv
<1> SUFFICES ASSUME Init PROVE Inv
  OBVIOUS
<1>1. TpTypeOK
  BY InitTypes
<1>2. NoOverrides /\ ~across /\ ui = Idle /\ ui.at = "idle" /\ counter = Zero
  BY DEF Init, NoOverrides, Idle
<1>3. \A t \in Tracks : Zero[t] = 0 /\ NoSteps[t] = NoId
  BY DEF Zero, NoSteps
<1>4. SyncInv
  BY <1>2 DEF Init, SyncInv, UiStale
<1>5. PassInv
  BY <1>2, <1>3 DEF PassInv
<1>6. ToldInv
  BY <1>2, <1>3 DEF Init, ToldInv, ToastIsKept, Wants
<1>7. ReadyInv
  BY <1>3 DEF Init, ReadyInv
<1> QED
  BY <1>1, <1>4, <1>5, <1>6, <1>7 DEF Inv

LEMMA InvHolds == TpSpec => []Inv
<1>1. Inv /\ [Next]_vars => Inv'
  BY TypeHolds, SyncHolds, PassHolds, ToldHolds, ReadyHolds DEF Inv
<1> QED
  BY <1>1, InvStarts, PTL DEF TpSpec

(* ToastIsKept: Wants moves with told at every landing and clear, and      *)
(* tp_label names what tp_queue left.                                      *)
THEOREM ToastsAreKept == TpSpec => []ToastIsKept
<1>1. Inv => ToastIsKept
  BY DEF Inv, ToldInv
<1> QED
  BY <1>1, InvHolds, PTL

(* PassKeepsItsPattern, from PassInv: within a pass the step was given     *)
(* from what the track plays, and only a wrap of its counter lands.        *)
THEOREM PassesKeepTheirPattern == TpSpec => PassKeepsItsPattern
<1> DEFINE Kept == \A t \in Tracks :
             heard[t] # NoId /\ heard'[t] \notin {heard[t], NoId}
             => counter[t] = 0
<1>1. ASSUME Inv, [Next]_vars, NEW t \in Tracks,
             heard[t] # NoId, heard'[t] \notin {heard[t], NoId},
             counter[t] # 0
      PROVE  FALSE
  <2>1. Tick
    BY <1>1, UiFacts DEF Next, vars, ChangeLands, Choose, Start, Stop, Gesture,
       LedPass, Sync, Queue, Write, Toast, Rebuild, NoSteps, Inv, TpTypeOK
  <2>2. pos # 0 /\ ~across
    BY <1>1, <2>1 DEF Inv, PassInv, Tick, Zero
  <2>3. /\ tp.started[t] /\ tp.last[t] < counter[t] /\ heard[t] = Plays(t)
    BY <1>1, <2>2 DEF Inv, PassInv
  <2> DEFINE s == Global(tp, id)
  <2>4. t \notin Lands(s, counter)
    BY <1>1, <2>3, GlobalFacts DEF Inv, TpTypeOK, TpStates, Lands, Wraps
  <2>5. /\ tp'.src[t] = s.src[t] /\ tp'.seen /\ tp'.global = id /\ id' = id
        /\ heard'[t] = <<id[1], Pattern(tp', t, id[2])>>
    <3>1. heard'[t] = Given(tp', t, id)
      BY <2>1, <2>2, TickFacts DEF Tick, Inv
    <3> QED
      BY <1>1, <2>1, <2>4, <3>1, TickFacts, SteppedFacts DEF Inv, Given, TpTypeOK
  <2>6. s.src[t] = NowPlays(t)
    BY <1>1, GlobalFacts DEF Inv, TpTypeOK, NowPlays, Unseen, Cleared, Zero
  <2>7. id = <<id[1], id[2]>>
    BY <1>1, IdFacts DEF Inv, TpTypeOK, Steps
  <2> QED
    BY <1>1, <2>3, <2>5, <2>6, <2>7 DEF Plays, NowPlays, Pattern
<1>2. Inv /\ [Next]_vars => [Kept]_vars
  BY <1>1
<1> QED
  BY <1>2, InvHolds, PTL DEF TpSpec, PassKeepsItsPattern

(* RebuildAgrees, from ReadyInv: tp_peek of the counter is what tp_step    *)
(* then leads to.                                                          *)
THEOREM RebuildsAgree == TpSpec => RebuildAgrees
<1> DEFINE Agrees == \A t \in Tracks : Tick /\ ~across' /\ ready[t] # NoId
                                       => heard'[t] = ready[t]
<1>1. ASSUME Inv, Tick, ~across', NEW t \in Tracks, ready[t] # NoId
      PROVE  heard'[t] = ready[t]
  <2>1. playing /\ tp.seen /\ tp.global = id /\ ready[t] = PeekPattern(tp, t)
    BY <1>1 DEF Inv, ReadyInv
  <2>2. /\ Global(tp, id).src = tp.src /\ Global(tp, id).next = tp.next
        /\ Global(tp, id).last = tp.last
        /\ Global(tp, id).started = tp.started
    BY <1>1, <2>1, GlobalFacts DEF Inv, TpTypeOK, Cleared
  <2>3. t \in Lands(Global(tp, id), counter)
        <=> Wraps(tp, t, counter[t]) /\ tp.next[t] # 0
    BY <2>2 DEF Lands, Wraps
  <2>4. heard'[t] = <<id[1], Pattern(tp', t, id[2])>>
    <3>1. heard'[t] = Given(tp', t, id)
      BY <1>1, TickFacts DEF Tick, Inv
    <3> QED
      BY <3>1 DEF Given
  <2>5. tp'.src[t] = IF Wraps(tp, t, counter[t]) /\ tp.next[t] # 0
                     THEN Landed(tp.next[t]) ELSE tp.src[t]
    BY <1>1, <2>2, <2>3, TickFacts, SteppedFacts DEF Inv, TpTypeOK
  <2> QED
    BY <2>1, <2>4, <2>5 DEF PeekPattern, Peek, Pattern
<1>2. Inv /\ [Next]_vars => [Agrees]_vars
  BY <1>1
<1> QED
  BY <1>2, InvHolds, PTL DEF TpSpec, RebuildAgrees

(* Each step of the sequencer brings a track nearer its loop start or is   *)
(* it, and nothing else moves a track within its loop but a STOP.          *)
LEMMA TickNears ==
  ASSUME Inv, Tick, NEW t \in Tracks, tp'.next[t] # 0
  PROVE  ToLoopStart(t)' < ToLoopStart(t)
<1> DEFINE s == Global(tp, id)
           M == Master[id[2]]
<1>1. M \in Nat \ {0} /\ pos \in Nat /\ counter \in [Tracks -> Nat]
  BY IdFacts, MasterAssumption DEF Inv, TpTypeOK, Steps
<1>2. counter[t] # 0
  <2> SUFFICES ASSUME counter[t] = 0 PROVE FALSE
    OBVIOUS
  <2>1. s \in TpStates /\ tp' = Stepped(s, counter)
    BY TickFacts DEF Inv
  <2>2. s.last[t] \in Nat
    BY <2>1 DEF TpStates
  <2>3. Wraps(s, t, counter[t])
    BY <2>2 DEF Wraps
  <2>4. CASE s.next[t] # 0
    BY <1>1, <2>1, <2>3, <2>4, SteppedFacts DEF Lands
  <2>5. CASE s.next[t] = 0
    BY <1>1, <2>1, <2>5, SteppedFacts DEF Lands
  <2> QED
    BY <2>4, <2>5
<1>3. id' = id /\ counter'[t] \in Nat
  BY TickFacts DEF Inv
<1>4. CASE pos + 1 >= M
  <2>1. counter'[t] = 0
    BY <1>4 DEF Tick
  <2> QED
    BY <1>1, <1>2, <2>1 DEF ToLoopStart
<1>5. CASE pos + 1 < M
  <2>1. pos' = pos + 1
    BY <1>1, <1>5 DEF Tick
  <2>2. ToLoopStart(t) = M - pos
    BY <1>1, <1>2, <1>5 DEF ToLoopStart
  <2>3. ToLoopStart(t)' \in {0, M - (pos + 1)}
    BY <1>1, <1>3, <1>5, <2>1 DEF ToLoopStart
  <2> QED
    BY <1>1, <1>5, <2>2, <2>3
<1> QED
  BY <1>1, <1>4, <1>5

LEMMA OthersNear ==
  ASSUME Inv, [Next]_vars, ~Tick, UNCHANGED id, NEW t \in Tracks
  PROVE  ToLoopStart(t)' <= ToLoopStart(t)
<1>1. Master[id[2]] \in Nat \ {0} /\ pos \in Nat
  BY IdFacts, MasterAssumption DEF Inv, TpTypeOK, Steps
<1>2. UNCHANGED <<pos, counter>> \/ counter' = Zero
  BY DEF Next, vars, stock, ChangeLands, Choose, Start, Stop, Gesture, LedPass,
         Sync, Queue, Write, Toast, Rebuild
<1> QED
  BY <1>1, <1>2 DEF ToLoopStart, Zero

(* NearsLoopStart: so a change queued lands within the MASTER LENGTH, if   *)
(* the sequencer goes on and the global pattern stays.                     *)
THEOREM QueuedNearsLoopStart == TpSpec => NearsLoopStart
<1> DEFINE Nears(t) ==
      IF Tick THEN tp'.next[t] # 0 => ToLoopStart(t)' < ToLoopStart(t)
      ELSE UNCHANGED id => ToLoopStart(t)' <= ToLoopStart(t)
<1>1. Inv /\ [Next]_vars => [\A t \in Tracks : Nears(t)]_vars
  BY TickNears, OthersNear
<1> QED
  BY <1>1, InvHolds, PTL DEF TpSpec, NearsLoopStart

-----------------------------------------------------------------------------
(* The clips a state stands for *)

Choices == Patterns \cup {NPatterns}
AsChoice(src) == IF src = 0 THEN NPatterns ELSE src - 1
Playing == [t \in Tracks |-> AsChoice(NowPlays(t))]
Wanting == [t \in Tracks |-> AsChoice(NowWants(t))]

LEMMA Mapping ==
  /\ [t \in Tracks |-> Chosen(tp.src[t])] = Playing
  /\ [t \in Tracks |-> Chosen(Wants(t))] = Wanting
BY DEF Playing, Wanting, Chosen, AsChoice, NowPlays, NowWants

LEMMA MappingNext ==
  /\ [t \in Tracks |-> Chosen(tp.src[t])]' = Playing'
  /\ [t \in Tracks |-> Chosen(Wants(t))]' = Wanting'
BY DEF Playing, Wanting, Chosen, AsChoice, NowPlays, NowWants

LEMMA ChoiceFacts ==
  \A src \in Codes : AsChoice(src) \in Choices
BY CountsAssumption DEF Codes, Choices, Patterns, AsChoice

(* The abstract steps, in these terms.                                     *)
LEMMA AbstractQuiet ==
  ASSUME UNCHANGED <<id, Playing, Wanting, heard>>
  PROVE  UNCHANGED Clips!clips
BY Mapping, MappingNext DEF Clips!clips

LEMMA AbstractAsk ==
  ASSUME NEW t \in Tracks, NEW x \in Choices,
         Wanting' = [Wanting EXCEPT ![t] = x],
         Playing' \in {Playing, [Playing EXCEPT ![t] = x]},
         heard' \in {heard, [heard EXCEPT ![t] = NoId]},
         id' = id
  PROVE  Clips!Ask
BY Mapping, MappingNext DEF Clips!Ask, Clips!Choices, Choices

LEMMA AbstractChange ==
  ASSUME id' \in Ids \ {id}, heard' \in {heard, NoSteps},
         Playing' = [t \in Tracks |-> NPatterns],
         Wanting' = [t \in Tracks |-> NPatterns]
  PROVE  Clips!Change
BY MappingNext DEF Clips!Change, Clips!Quiet, NoSteps

LEMMA AbstractStep ==
  ASSUME NEW starts \in SUBSET Tracks, id' = id, Wanting' = Wanting,
         Playing' = [t \in Tracks |-> IF t \in starts THEN Wanting[t]
                                      ELSE Playing[t]],
         heard' = [t \in Tracks |-> IF Playing'[t] = NPatterns THEN id
                                    ELSE <<id[1], Playing'[t]>>]
  PROVE  Clips!Step
BY Mapping, MappingNext DEF Clips!Step, Clips!Reads

LEMMA AbstractAcross ==
  ASSUME NEW starts \in SUBSET Tracks, id' = id, Wanting' = Wanting,
         Playing' = [t \in Tracks |-> IF t \in starts THEN Wanting[t]
                                      ELSE Playing[t]],
         NEW new \in Ids \ {id}, heard' = [t \in Tracks |-> new]
  PROVE  Clips!StepAcross
BY Mapping, MappingNext DEF Clips!StepAcross

LEMMA AbstractHush ==
  ASSUME heard' = NoSteps, UNCHANGED <<id, Playing, Wanting>>
  PROVE  Clips!Hush
BY Mapping, MappingNext DEF Clips!Hush, Clips!Quiet, NoSteps

(* A step is one of every track's; those at their loop start land.         *)
LEMMA TickMaps ==
  ASSUME TpTypeOK, SyncInv, Tick
  PROVE  Clips!Step \/ Clips!StepAcross
<1> DEFINE s == Global(tp, id)
           starts == Lands(s, counter)
<1>1. /\ s \in TpStates /\ counter \in [Tracks -> Nat] /\ id \in Ids
      /\ tp' = Stepped(s, counter) /\ id' = id
      /\ tp'.seen /\ tp'.global = id
  BY TickFacts DEF TpTypeOK
<1>2. ~Unseen' /\ starts \in SUBSET Tracks
  BY <1>1 DEF Unseen, Lands
<1>3. \A t \in Tracks :
        /\ NowPlays(t) = s.src[t]
        /\ NowWants(t) = IF s.next[t] # 0 THEN Landed(s.next[t]) ELSE s.src[t]
  <2>1. /\ s.src = IF Unseen THEN Zero ELSE tp.src
        /\ s.next = IF Unseen THEN Zero ELSE tp.next
    BY <1>1, GlobalFacts DEF TpTypeOK, Cleared, Unseen
  <2> QED
    BY <2>1 DEF NowPlays, NowWants, Wants, Zero
<1>4. \A t \in Tracks :
        /\ NowPlays(t)' = tp'.src[t]
        /\ NowWants(t)' = IF tp'.next[t] # 0 THEN Landed(tp'.next[t])
                          ELSE tp'.src[t]
  BY <1>2 DEF NowPlays, NowWants, Wants
<1>5. \A t \in Tracks :
        /\ t \in starts => /\ s.next[t] # 0
                           /\ tp'.src[t] = Landed(s.next[t])
                           /\ tp'.next[t] = 0
        /\ t \notin starts => /\ tp'.src[t] = s.src[t]
                              /\ tp'.next[t] = s.next[t]
  BY <1>1, SteppedFacts DEF Lands
<1> HIDE DEF s, starts
<1>6. \A t \in Tracks :
        /\ NowPlays(t)' = IF t \in starts THEN NowWants(t) ELSE NowPlays(t)
        /\ NowWants(t)' = NowWants(t)
  BY <1>3, <1>4, <1>5
<1>7. Wanting' = Wanting
  BY <1>6 DEF Wanting
<1>8. Playing' = [t \in Tracks |-> IF t \in starts THEN Wanting[t]
                                   ELSE Playing[t]]
  BY <1>6 DEF Playing, Wanting
<1>9. CASE across'
  <2>1. pend \in Ids \ {id} /\ heard' = [t \in Tracks |-> pend]
    BY <1>9 DEF Tick, Given, TpTypeOK
  <2> QED
    BY <1>1, <1>2, <1>7, <1>8, <2>1, AbstractAcross
<1>10. CASE ~across'
  <2>1. heard' = [t \in Tracks |-> <<id[1], Pattern(tp', t, id[2])>>]
    BY <1>1, <1>10 DEF Tick, Given, s
  <2>2. \A t \in Tracks : tp'.src[t] \in Codes
    BY <1>1, SteppedFacts DEF TpStates, s
  <2>3. id = <<id[1], id[2]>>
    BY <1>1, IdsAssumption DEF Steps
  <2>4. \A t \in Tracks : <<id[1], Pattern(tp', t, id[2])>> =
          IF Playing'[t] = NPatterns THEN id ELSE <<id[1], Playing'[t]>>
    <3> TAKE t \in Tracks
    <3>1. Playing'[t] = AsChoice(tp'.src[t])
      BY <1>4 DEF Playing
    <3> QED
      BY <2>2, <2>3, <3>1, CountsAssumption DEF AsChoice, Pattern, Codes
  <2>5. heard' = [t \in Tracks |-> IF Playing'[t] = NPatterns THEN id
                                   ELSE <<id[1], Playing'[t]>>]
    BY <2>1, <2>4
  <2> QED
    BY <1>1, <1>2, <1>7, <1>8, <2>5, AbstractStep
<1> QED
  BY <1>9, <1>10

(* The queue's write asks for one track; a change not yet seen hides it.   *)
LEMMA WriteMaps ==
  ASSUME TpTypeOK, Write
  PROVE  Clips!Ask
<1>t. PICK t \in Tracks : t = ui.track
  BY UiFacts DEF Write, TpTypeOK
<1> DEFINE x == IF Unseen THEN NPatterns ELSE AsChoice(NowWants(t)')
<1>1. ui.code \in QueueCodes /\ ui.src \in Codes /\ ui.runs \in BOOLEAN
  BY UiFacts DEF Write, TpTypeOK
<1>2. /\ tp' \in TpStates /\ tp'.seen = tp.seen /\ tp'.global = tp.global
      /\ id' = id
      /\ \A o \in Tracks \ {t} : /\ tp'.src[o] = tp.src[o]
                                 /\ tp'.next[o] = tp.next[o]
      /\ ui.runs => tp'.src = tp.src
      /\ ~ui.runs => tp'.next[t] = 0
  BY <1>t, <1>1, QueuedFacts DEF Write, TpTypeOK, stock
<1>3. Unseen' = Unseen
  BY <1>2 DEF Unseen
<1>4. Wanting' = [Wanting EXCEPT ![t] = x]
  <2>1. \A o \in Tracks \ {t} : NowWants(o)' = NowWants(o)
    BY <1>2, <1>3 DEF NowWants, Wants
  <2>2. Unseen => NowWants(t)' = 0
    BY <1>3 DEF NowWants
  <2> QED
    BY <1>1, <2>1, <2>2 DEF Wanting, AsChoice
<1>5. x \in Choices
  <2>1. tp'.next[t] # 0 => Landed(tp'.next[t]) \in Codes
    BY <1>1, <1>2, NextFacts, CodeFacts
  <2>2. NowWants(t)' \in Codes
    BY <1>1, <1>2, <2>1, CodeFacts DEF NowWants, Wants, TpStates
  <2> QED
    BY <2>2, ChoiceFacts DEF Choices
<1>6. Playing' \in {Playing, [Playing EXCEPT ![t] = x]}
  <2>1. \A o \in Tracks \ {t} : NowPlays(o)' = NowPlays(o)
    BY <1>2, <1>3 DEF NowPlays
  <2>2. CASE Unseen \/ ui.runs
    BY <1>2, <1>3, <2>2 DEF Playing, NowPlays
  <2>3. CASE ~Unseen /\ ~ui.runs
    <3>1. NowPlays(t)' = NowWants(t)'
      BY <1>2, <1>3, <2>3 DEF NowPlays, NowWants, Wants
    <3> QED
      BY <1>1, <2>1, <2>3, <3>1 DEF Playing
  <2> QED
    BY <2>2, <2>3
<1>7. heard' \in {heard, [heard EXCEPT ![t] = NoId]}
  BY <1>t DEF Write
<1> QED
  BY <1>1, <1>2, <1>4, <1>5, <1>6, <1>7, AbstractAsk

(* A change of the global pattern brings every track back, seen or not.    *)
LEMMA ChangeMaps ==
  ASSUME TpTypeOK, SyncInv, id' \in Ids \ {id}, UNCHANGED tp,
         heard' \in {heard, NoSteps}, tp.seen => tp.global # id'
  PROVE  Clips!Change
<1>1. \A t \in Tracks : NowPlays(t)' = 0 /\ NowWants(t)' = 0
  BY DEF NowPlays, NowWants, Wants, Unseen, SyncInv, NoOverrides, Zero
<1>2. /\ Playing' = [t \in Tracks |-> NPatterns]
      /\ Wanting' = [t \in Tracks |-> NPatterns]
  BY <1>1 DEF Playing, Wanting, AsChoice
<1> QED
  BY <1>2, AbstractChange

(* Following the global pattern is no step of the clips.                   *)
LEMMA FollowMaps ==
  ASSUME TpTypeOK, NEW now \in Ids, now = id \/ Unseen \/ NoOverrides,
         tp' = Global(tp, now), UNCHANGED <<id, heard>>
  PROVE  UNCHANGED Clips!clips
<1>1. \A t \in Tracks : NowPlays(t)' = NowPlays(t) /\ NowWants(t)' = NowWants(t)
  BY FollowingKeeps
<1>2. Playing' = Playing /\ Wanting' = Wanting
  BY <1>1 DEF Playing, Wanting
<1> QED
  BY <1>2, AbstractQuiet

(* Nor is anything that leaves the engine's state and the pattern alone.   *)
LEMMA StillMaps ==
  ASSUME UNCHANGED <<tp, id>>
  PROVE  /\ heard' = heard => UNCHANGED Clips!clips
         /\ heard' = NoSteps => Clips!Hush
<1>1. Playing' = Playing /\ Wanting' = Wanting
  BY DEF Playing, Wanting, NowPlays, NowWants, Wants, Unseen
<1> QED
  BY <1>1, AbstractQuiet, AbstractHush

LEMMA ClipsStart ==
  ASSUME Init
  PROVE  Clips!Init
<1>1. \A t \in Tracks : NowPlays(t) = 0 /\ NowWants(t) = 0
  BY DEF Init, NowPlays, NowWants, Wants, Zero
<1>2. /\ Playing = [t \in Tracks |-> NPatterns]
      /\ Wanting = [t \in Tracks |-> NPatterns]
  BY <1>1 DEF Playing, Wanting, AsChoice
<1> QED
  BY <1>2, Mapping DEF Init, Clips!Init, NoSteps

LEMMA ClipsGoOn ==
  ASSUME TpTypeOK, SyncInv, [Next]_vars
  PROVE  [Clips!Next]_(Clips!clips)
<1> USE DEF Clips!Next
<1>1. CASE Tick
  BY <1>1, TickMaps
<1>2. CASE ChangeLands
  <2>1. id' \in Ids \ {id} /\ tp.global # id' /\ UNCHANGED <<tp, heard>>
    BY <1>2 DEF ChangeLands, SyncInv, TpTypeOK
  <2> QED
    BY <2>1, ChangeMaps
<1>3. CASE Choose
  <2>1. CASE playing
    BY <1>3, <2>1, StillMaps DEF Choose
  <2>2. CASE ~playing
    <3>1. /\ id' \in Ids \ {id} /\ UNCHANGED <<tp, heard>>
          /\ tp.seen => tp.global # id'
      BY <1>3, <2>2 DEF Choose
    <3> QED
      BY <3>1, ChangeMaps
  <2> QED
    BY <2>1, <2>2
<1>4. CASE Start \/ Gesture \/ LedPass \/ Queue \/ UNCHANGED vars
  <2>1. UNCHANGED <<tp, id, heard>>
    BY <1>4 DEF Start, Gesture, LedPass, Queue, vars, stock
  <2> QED
    BY <2>1, StillMaps
<1>5. CASE Stop
  <2>1. CASE pend \in {NoId, id}
    BY <1>5, <2>1, StillMaps DEF Stop
  <2>2. CASE pend \notin {NoId, id}
    <3>1. /\ id' \in Ids \ {id} /\ UNCHANGED tp /\ heard' = NoSteps
          /\ tp.seen => tp.global # id'
      BY <1>5, <2>2 DEF Stop, TpTypeOK
    <3> QED
      BY <3>1, ChangeMaps
  <2> QED
    BY <2>1, <2>2
<1>6. CASE Sync
  <2>1. /\ ui.id \in Ids /\ tp' = Global(tp, ui.id) /\ UNCHANGED <<id, heard>>
    BY <1>6, UiFacts DEF Sync, TpTypeOK, stock
  <2>2. ui.id = id \/ Unseen \/ NoOverrides
    BY <1>6 DEF Sync, SyncInv, UiStale
  <2> QED
    BY <2>1, <2>2, FollowMaps
<1>7. CASE Write
  BY <1>7, WriteMaps
<1>8. CASE Toast \/ Rebuild
  <2>1. id \in Ids /\ tp' = Global(tp, id) /\ UNCHANGED <<id, heard>>
    BY <1>8 DEF Toast, Rebuild, TpTypeOK, stock
  <2> QED
    BY <2>1, FollowMaps
<1> QED
  BY <1>1, <1>2, <1>3, <1>4, <1>5, <1>6, <1>7, <1>8 DEF Next

(* ClipsSpec: the engine and its glue, the interrupt anywhere in the UI    *)
(* task's code, keep what PatternClips promises of every track.            *)
THEOREM ImplementsClips == TpSpec => ClipsSpec
<1>1. Init => Clips!Init
  BY ClipsStart
<1>2. Inv /\ [Next]_vars => [Clips!Next]_(Clips!clips)
  BY ClipsGoOn DEF Inv
<1> QED
  BY <1>1, <1>2, InvHolds, PTL DEF TpSpec, ClipsSpec, Clips!ClipsSpec
=============================================================================
