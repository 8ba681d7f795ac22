----------------------- MODULE FreeLoopHistoryProofs ------------------------
(***************************************************************************)
(* FREE LOOP on one track: no recording of its own that starts in time is  *)
(* taken for a stray, and as long as they all do UNDO TO's loop stays and  *)
(* the two buffers implement LoopHistory.                                  *)
(***************************************************************************)
EXTENDS FreeLoopProofs

-----------------------------------------------------------------------------
(* What the engine's functions do to the two loops of a track. *)

(* The buffer with the loop the track is on, and the one with the loop it  *)
(* would go back to.                                                       *)
HeardIn(s) == IF s.rec # "none" /\ ~s.inplace THEN Flip(s.rec) ELSE s.cur
BackIn(s) == IF s.valid THEN Flip(s.cur) ELSE "none"

SameHistory(s, t) ==
  /\ HeardIn(t) = HeardIn(s) /\ BackIn(t) = BackIn(s) /\ SameAnchor(s, t)

(* UNDO TO's loop is marked.                                               *)
Marks(s, x) == x.ubuf /\ x.undoto # 0 /\ s.anchorN = x.undoto

(* The engine's two loops; e tells that the UNDO buffer is empty.          *)
Sound(s, x, e) ==
  /\ Shape(s, x)
  /\ x.ubuf \/ (s.cur = "X" /\ ~s.valid)
  /\ s.rec # "none" => (s.valid <=> s.inplace)
  /\ e => ~s.valid /\ s.rec # "X" /\ (s.rec = "none" => s.cur = "X")
  /\ Marks(s, x) => IF s.rec = "none" THEN s.anchorAt # s.cur => s.valid
                    ELSE s.anchorAt # s.rec

LEMMA SameSound ==
  ASSUME NEW s, NEW t, NEW x, NEW e, SameLoop(s, t), SameAnchor(s, t),
         Sound(s, x, e)
  PROVE  Sound(t, x, e) /\ SameHistory(s, t)
BY DEF SameLoop, SameAnchor, Sound, SameHistory, Shape, Marks, HeardIn, BackIn

LEMMA PassDropSound ==
  ASSUME NEW s \in States, NEW x \in Configs, NEW e \in BOOLEAN, Sound(s, x, e)
  PROVE  Sound(PassDrop(s), x, e) /\ SameHistory(s, PassDrop(s))
<1> SUFFICES ASSUME NEW t, t = PassDrop(s)
             PROVE  Sound(t, x, e) /\ SameHistory(s, t)
  OBVIOUS
<1>1. /\ SameAnchor(s, t) /\ t.rec = "none"
      /\ s.rec = "none" => t = s
      /\ s.rec # "none" =>
           /\ ~t.swap /\ ~t.inplace /\ t.valid = s.inplace
           /\ t.cur = IF s.inplace \/ s.swap THEN s.cur ELSE Flip(s.cur)
  BY PassDropDoes
<1>2. /\ s.cur \in Buffers /\ s.rec \in {"none"} \cup Buffers
      /\ s.valid \in BOOLEAN /\ s.inplace \in BOOLEAN
  BY Fields
<1>3. CASE s.rec = "none"
  BY <1>1, <1>3 DEF SameHistory, HeardIn, BackIn
<1>4. CASE s.rec # "none"
  <2>1. s.valid = s.inplace /\ x.ubuf
    BY <1>2, <1>4 DEF Sound, Shape
  <2>2. t.cur = IF s.inplace THEN s.rec ELSE Flip(s.rec)
    BY <1>1, <1>2, <1>4, FlipFacts DEF Sound, Shape
  <2>3. SameHistory(s, t)
    BY <1>1, <1>4, <2>1, <2>2, FlipFacts
       DEF SameHistory, HeardIn, BackIn, Sound, Shape
  <2>4. Marks(t, x) => (t.anchorAt # t.cur => t.valid)
    BY <1>1, <1>2, <1>4, <2>1, <2>2, FlipFacts, Fields
       DEF Sound, Marks, SameAnchor, States
  <2>5. e => ~t.valid /\ t.cur = "X"
    BY <1>1, <1>2, <1>4, <2>1, <2>2 DEF Sound, Buffers, Flip
  <2> QED
    BY <1>1, <1>4, <2>1, <2>3, <2>4, <2>5 DEF Sound, Shape
<1> QED
  BY <1>3, <1>4

(* A pass that is over: the loop it made, and the one before.              *)
Commits(s, t) == HeardIn(t) = Flip(HeardIn(s)) /\ BackIn(t) = HeardIn(s)

LEMMA PassOverSound ==
  ASSUME NEW s \in States, NEW x \in Configs, NEW e \in BOOLEAN,
         Sound(s, x, e), s.rec # "none" => ~e
  PROVE  LET t == PassOver(s, x)
         IN /\ Sound(t, x, e)
            /\ IF s.rec = "none" THEN t = s
               ELSE /\ t.cur = s.rec /\ t.valid
                    /\ SameAnchor(s, t) \/ t.anchorAt = t.cur
                    /\ HeardIn(t) = s.rec /\ BackIn(t) = Flip(s.rec)
                    /\ s.inplace => HeardIn(s) = s.rec /\ BackIn(s) = Flip(s.rec)
                    /\ ~s.inplace => HeardIn(s) = Flip(s.rec)
<1> SUFFICES ASSUME NEW t, t = PassOver(s, x)
    PROVE /\ Sound(t, x, e)
          /\ IF s.rec = "none" THEN t = s
             ELSE /\ t.cur = s.rec /\ t.valid
                  /\ SameAnchor(s, t) \/ t.anchorAt = t.cur
                  /\ HeardIn(t) = s.rec /\ BackIn(t) = Flip(s.rec)
                  /\ s.inplace => HeardIn(s) = s.rec /\ BackIn(s) = Flip(s.rec)
                  /\ ~s.inplace => HeardIn(s) = Flip(s.rec)
  OBVIOUS
<1>1. /\ t.rec = "none" /\ (s.rec = "none" => t = s)
      /\ s.rec # "none" =>
           /\ ~t.swap /\ ~t.inplace /\ t.valid
           /\ t.cur = IF s.swap THEN Flip(s.cur) ELSE s.cur
  BY PassOverDoes
<1>2. /\ s.cur \in Buffers /\ s.rec \in {"none"} \cup Buffers
      /\ t \in States
  BY Fields, PassOverType
<1>3. CASE s.rec = "none"
  BY <1>1, <1>3
<1>4. CASE s.rec # "none"
  <2>1. x.ubuf /\ t.cur = s.rec
    BY <1>1, <1>2, <1>4, FlipFacts DEF Sound, Shape
  <2>2. SameAnchor(s, t) \/ t.anchorAt = t.cur
    BY <1>4 DEF PassOver, States, SameAnchor
  <2>3. s.inplace => s.cur = s.rec /\ s.valid
    BY <1>4 DEF Sound, Shape
  <2> QED
    BY <1>1, <1>4, <2>1, <2>2, <2>3 DEF Sound, Shape, HeardIn, BackIn
<1> QED
  BY <1>3, <1>4

LEMMA IntoSound ==
  ASSUME NEW s \in States, NEW x \in Configs, NEW e \in BOOLEAN,
         NEW replace \in BOOLEAN, Sound(s, x, e), s.rec = "none", x.ubuf,
         replace => s.anchorN = 0
  PROVE  LET t == Into(s, x, replace)
         IN /\ Sound(t, x, e) /\ HeardIn(t) = HeardIn(s) /\ SameAnchor(s, t)
            /\ BackIn(t) \in {BackIn(s), "none"}
            /\ t.inplace => BackIn(t) = BackIn(s)
<1> SUFFICES ASSUME NEW t, t = Into(s, x, replace)
    PROVE /\ Sound(t, x, e) /\ HeardIn(t) = HeardIn(s) /\ SameAnchor(s, t)
          /\ BackIn(t) \in {BackIn(s), "none"}
          /\ t.inplace => BackIn(t) = BackIn(s)
  OBVIOUS
<1>1. /\ SameAnchor(s, t) /\ t.cur = s.cur
      /\ \/ /\ t.rec = s.cur /\ ~t.swap /\ t.inplace /\ t.valid
            /\ ~replace /\ x.undoto # 0 /\ s.anchorN = x.undoto
            /\ s.anchorAt # s.cur
         \/ /\ t.rec = Flip(s.cur) /\ t.swap /\ ~t.inplace /\ ~t.valid
            /\ \/ replace \/ x.undoto = 0 \/ s.anchorN # x.undoto
               \/ s.anchorAt = s.cur
  BY IntoDoes
<1>2. s.cur \in Buffers /\ s.anchorAt \in Buffers
  BY Fields
<1>3. CASE /\ t.rec = s.cur /\ ~t.swap /\ t.inplace /\ t.valid
           /\ ~replace /\ x.undoto # 0 /\ s.anchorN = x.undoto
           /\ s.anchorAt # s.cur
  <2>1. s.valid
    BY <1>3 DEF Sound, Marks
  <2> QED
    BY <1>1, <1>2, <1>3, <2>1
       DEF Sound, Shape, HeardIn, BackIn, Marks, SameAnchor, Buffers
<1>4. CASE /\ t.rec = Flip(s.cur) /\ t.swap /\ ~t.inplace /\ ~t.valid
           /\ \/ replace \/ x.undoto = 0 \/ s.anchorN # x.undoto
              \/ s.anchorAt = s.cur
  <2>1. Flip(s.cur) \in Buffers /\ Flip(s.cur) # s.cur
        /\ Flip(Flip(s.cur)) = s.cur /\ Flip(s.cur) # "none"
    BY <1>2, FlipFacts DEF Buffers
  <2>2. Marks(t, x) => t.anchorAt # t.rec
    BY <1>1, <1>4, <2>1 DEF Marks, SameAnchor
  <2>3. HeardIn(t) = s.cur /\ HeardIn(s) = s.cur
    BY <1>4, <2>1 DEF HeardIn
  <2>4. e => ~t.valid /\ t.rec # "X"
    BY <1>4, <2>1 DEF Sound
  <2>5. Shape(t, x)
    BY <1>1, <1>4, <2>1 DEF Shape
  <2> QED
    BY <1>1, <1>4, <2>1, <2>2, <2>3, <2>4, <2>5 DEF Sound, BackIn
<1> QED
  BY <1>1, <1>3, <1>4

LEMMA RecRunningSound ==
  ASSUME NEW s \in States, NEW x \in Configs, NEW e \in BOOLEAN, Sound(s, x, e)
  PROVE  Sound(RecRunning(s), x, e) /\ SameHistory(s, RecRunning(s))
<1> SUFFICES ASSUME NEW t, t = RecRunning(s)
             PROVE  Sound(t, x, e) /\ SameHistory(s, t)
  OBVIOUS
<1>1. /\ SameAnchor(s, t) /\ ~t.swap /\ t.rec = s.rec
      /\ t.inplace = s.inplace /\ t.valid = s.valid
      /\ t.cur = IF s.swap THEN Flip(s.cur) ELSE s.cur
      /\ ~s.swap => t = s
  BY RecRunningDoes DEF RecRunning
<1>2. CASE ~s.swap
  BY <1>1, <1>2 DEF SameHistory, SameAnchor
<1>3. CASE s.swap
  <2>1. s.rec # "none" /\ ~s.inplace /\ ~s.valid /\ x.ubuf
    BY <1>3, Fields DEF Sound, Shape
  <2>2. t.cur = s.rec
    BY <1>1, <1>3, <2>1, Fields, FlipFacts DEF Sound, Shape
  <2> QED
    BY <1>1, <1>3, <2>1, <2>2
       DEF Sound, Shape, SameHistory, HeardIn, BackIn, Marks, SameAnchor
<1> QED
  BY <1>2, <1>3

(* UNDO and REDO: the two loops change places, or a pass is dropped.       *)
Swaps(s, t) ==
  /\ BackIn(s) # "none" /\ HeardIn(t) = BackIn(s) /\ BackIn(t) = HeardIn(s)
  /\ SameAnchor(s, t)

LEMMA UndoSound ==
  ASSUME NEW s \in States, NEW x \in Configs, NEW e \in BOOLEAN,
         Sound(s, x, e), NEW r, UndoOutcome(s, x, r), r.s \in States
  PROVE  Sound(r.s, x, e) /\ (SameHistory(s, r.s) \/ Swaps(s, r.s))
<1> DEFINE t == r.s
<1>1. /\ s.cur \in Buffers /\ s.rec \in {"none"} \cup Buffers
      /\ s.anchorAt \in Buffers
      /\ s.valid \in BOOLEAN /\ s.inplace \in BOOLEAN /\ t.cur \in Buffers
      /\ t.valid \in BOOLEAN /\ t.inplace \in BOOLEAN /\ t.swap \in BOOLEAN
  BY Fields
<1>2. SameAnchor(s, t)
  BY DEF UndoOutcome
<1>3. CASE t = s
  BY <1>2, <1>3 DEF SameHistory
<1>4. CASE /\ x.ubuf /\ s.rec = "none" /\ s.valid
           /\ t.rec = "none" /\ t.cur = Flip(s.cur)
           /\ t.swap = s.swap /\ t.inplace = s.inplace /\ t.valid
  <2>1. Swaps(s, t)
    BY <1>1, <1>2, <1>4, FlipFacts DEF Swaps, HeardIn, BackIn, Buffers
  <2> QED
    BY <1>1, <1>2, <1>4, <2>1, FlipFacts DEF Sound, Shape, Marks, SameAnchor
<1>5. CASE /\ x.ubuf /\ s.rec # "none" /\ s.inplace
           /\ t.rec = "none" /\ ~t.inplace
           /\ t.swap = s.swap /\ t.valid /\ t.cur = Flip(s.cur)
  <2>1. s.valid /\ ~s.swap /\ s.cur = s.rec
    BY <1>5 DEF Sound, Shape
  <2>2. Swaps(s, t)
    BY <1>1, <1>2, <1>5, <2>1, FlipFacts DEF Swaps, HeardIn, BackIn, Buffers
  <2> QED
    BY <1>1, <1>2, <1>5, <2>1, <2>2, FlipFacts
       DEF Sound, Shape, Marks, SameAnchor
<1>6. CASE /\ x.ubuf /\ s.rec # "none" /\ ~s.inplace
           /\ t.rec = "none" /\ ~t.inplace /\ ~t.swap /\ ~t.valid
           /\ t.cur = IF s.swap THEN s.cur ELSE Flip(s.cur)
  <2>1. ~s.valid /\ t.cur = Flip(s.rec)
    BY <1>1, <1>6, FlipFacts DEF Sound, Shape
  <2>2. SameHistory(s, t)
    BY <1>2, <1>6, <2>1 DEF SameHistory, HeardIn, BackIn
  <2>3. Marks(t, x) => t.anchorAt = t.cur
    BY <1>1, <1>2, <1>6, <2>1, FlipFacts DEF Sound, Marks, SameAnchor
  <2>4. e => t.cur = "X"
    BY <1>1, <1>6, <2>1 DEF Sound, Flip, Buffers
  <2> QED
    BY <1>6, <2>1, <2>2, <2>3, <2>4 DEF Sound, Shape
<1>7. \/ t = s
      \/ /\ x.ubuf /\ s.rec = "none" /\ s.valid
         /\ t.rec = "none" /\ t.cur = Flip(s.cur)
         /\ t.swap = s.swap /\ t.inplace = s.inplace /\ t.valid
      \/ /\ x.ubuf /\ s.rec # "none" /\ s.inplace
         /\ t.rec = "none" /\ ~t.inplace
         /\ t.swap = s.swap /\ t.valid /\ t.cur = Flip(s.cur)
      \/ /\ x.ubuf /\ s.rec # "none" /\ ~s.inplace
         /\ t.rec = "none" /\ ~t.inplace /\ ~t.swap /\ ~t.valid
         /\ t.cur = IF s.swap THEN s.cur ELSE Flip(s.cur)
  BY <1>1 DEF UndoOutcome
<1> QED
  BY <1>3, <1>4, <1>5, <1>6, <1>7

LEMMA StoppedSound ==
  ASSUME NEW s \in States, NEW x \in Configs, NEW e \in BOOLEAN, Sound(s, x, e)
  PROVE  Sound(Stopped(s), x, e) /\ SameHistory(s, Stopped(s))
<1> SUFFICES ASSUME NEW t, t = Stopped(s)
             PROVE  Sound(t, x, e) /\ SameHistory(s, t)
  OBVIOUS
<1> DEFINE d == PassDrop(s)
<1>1. /\ SameAnchor(s, t) /\ t.rec = "none"
      /\ s.rec = "none" => SameLoop(s, t)
      /\ s.rec # "none" =>
           /\ ~t.swap /\ ~t.inplace /\ t.valid = s.inplace
           /\ t.cur = IF s.inplace \/ s.swap THEN s.cur ELSE Flip(s.cur)
  BY StoppedDoes
<1>2. /\ SameAnchor(s, d) /\ d.rec = "none"
      /\ s.rec = "none" => d = s
      /\ s.rec # "none" =>
           /\ ~d.swap /\ ~d.inplace /\ d.valid = s.inplace
           /\ d.cur = IF s.inplace \/ s.swap THEN s.cur ELSE Flip(s.cur)
  BY PassDropDoes
<1>3. d \in States /\ t \in States
  BY PassDropType, StoppedType
<1>4. Sound(d, x, e) /\ SameHistory(s, d)
  BY PassDropSound
<1> HIDE DEF d
<1>5. SameLoop(d, t) /\ SameAnchor(d, t)
  <2>1. SameAnchor(d, t)
    BY <1>1, <1>2 DEF SameAnchor
  <2>2. CASE s.rec = "none"
    BY <1>1, <1>2, <2>1, <2>2
  <2>3. CASE s.rec # "none"
    BY <1>1, <1>2, <1>3, <2>1, <2>3, Fields DEF SameLoop
  <2> QED
    BY <2>2, <2>3
<1> QED
  BY <1>4, <1>5, SameSound DEF SameHistory, SameAnchor

(* A clear leaves the track on its own buffer, with nothing to go back to. *)
LEMMA ClearedSound ==
  ASSUME NEW s, NEW x \in Configs, NEW e,
         s.rec = "none", ~s.swap, ~s.inplace, ~s.valid, s.cur = "X",
         s.anchorN = 0
  PROVE  /\ Sound(s, x, e) /\ HeardIn(s) = "X" /\ BackIn(s) = "none"
         /\ ~Marks(s, x)
BY DEF Sound, Shape, HeardIn, BackIn, Marks

(* The gate: a pass over, and the next begun.                              *)
LEMMA GateSound ==
  ASSUME NEW s \in States, NEW x \in Configs, NEW e \in BOOLEAN,
         Sound(s, x, e), s.rec # "none" => ~e
  PROVE  LET t == Gate(s, x).s
         IN /\ Sound(t, x, e)
            /\ IF s.rec = "none"
               THEN /\ HeardIn(t) = HeardIn(s)
                    /\ BackIn(t) \in {BackIn(s), "none"}
               ELSE /\ HeardIn(t) = s.rec
                    /\ BackIn(t) \in {Flip(s.rec), "none"}
                    /\ s.inplace => /\ HeardIn(s) = s.rec
                                    /\ BackIn(s) = Flip(s.rec)
                    /\ ~s.inplace => HeardIn(s) = Flip(s.rec)
            /\ Marks(t, x) => \/ SameAnchor(s, t)
                              \/ s.rec # "none" /\ t.anchorAt = s.rec
<1> DEFINE over == PassOver(s, x)
           replace == over.st = "armed" /\ over.repl
           taken == Taken(over)
           into == Into(taken, x, replace)
<1>1. /\ over \in States /\ over.rec = "none" /\ Sound(over, x, e)
      /\ IF s.rec = "none" THEN over = s
         ELSE /\ SameAnchor(s, over) \/ over.anchorAt = s.rec
              /\ HeardIn(over) = s.rec /\ BackIn(over) = Flip(s.rec)
              /\ s.inplace => HeardIn(s) = s.rec /\ BackIn(s) = Flip(s.rec)
              /\ ~s.inplace => HeardIn(s) = Flip(s.rec)
  BY PassOverType, PassOverDoes, PassOverSound
<1> HIDE DEF over
<1>2. /\ taken \in States /\ SameLoop(over, taken)
      /\ replace => taken.anchorN = 0
      /\ SameAnchor(over, taken) \/ taken.anchorN = 0
  BY <1>1, TakenType, TakenDoes DEF SameAnchor
<1>3. /\ Sound(taken, x, e) /\ taken.rec = "none"
      /\ HeardIn(taken) = HeardIn(over) /\ BackIn(taken) = BackIn(over)
  BY <1>1, <1>2 DEF SameLoop, SameAnchor, Sound, Shape, Marks, HeardIn, BackIn
<1>4. x.ubuf => /\ Sound(into, x, e) /\ HeardIn(into) = HeardIn(taken)
                /\ SameAnchor(taken, into)
                /\ BackIn(into) \in {BackIn(taken), "none"}
  <2>1. replace \in BOOLEAN
    OBVIOUS
  <2> HIDE DEF replace, taken
  <2> QED
    BY <1>2, <1>3, <2>1, IntoSound
<1>5. (Gate(s, x).s = into /\ x.ubuf) \/ Gate(s, x).s = taken
  BY DEF Gate, over
<1> HIDE DEF into, taken
<1>6. SUFFICES ASSUME NEW t, t = Gate(s, x).s
      PROVE /\ Sound(t, x, e)
            /\ HeardIn(t) = HeardIn(over)
            /\ BackIn(t) \in {BackIn(over), "none"}
            /\ Marks(t, x) => SameAnchor(over, t)
  BY <1>1 DEF SameAnchor
<1>7. CASE t = taken
  BY <1>2, <1>3, <1>7 DEF Marks
<1>8. CASE t = into /\ x.ubuf
  BY <1>2, <1>3, <1>4, <1>8 DEF Marks, SameAnchor
<1> QED
  BY <1>5, <1>6, <1>7, <1>8

-----------------------------------------------------------------------------
(***************************************************************************)
(* The stray guard: what FREE LOOP lets start is authorised until the      *)
(* guard sees it record, and then it is known to run.                      *)
(***************************************************************************)

(* The UI tick under way has already counted.                              *)
Counting == IF ui = "idle" THEN 0 ELSE 1

Authorised ==
  /\ auth \in 0..AuthTicks \cup {AuthRun}
  /\ run["X"] # "off" => auth # 0 \/ newtake \/ fl.st = "take"
  /\ due.rec = "X" =>
       /\ run["X"] # "ending" /\ (auth = AuthRun => run["X"] # "off")
       /\ tick + Counting <= StepTicks
       /\ newtake \/ auth = AuthRun \/ auth + tick + Counting >= AuthTicks

(* A start is prepared for the step to come.  A free take records.         *)
Prepared == due # NoDue => pos \in {0, L}

TakeRuns ==
  fl.st = "take" => run["X"] = "take" /\ due = NoDue /\ clr = 0

(* A press of REC that ends a take has no long press.                      *)
PressInv ==
  /\ LoopInv
  /\ fl.press.pedal = "rec" => fl.press.was # "take"

(* While what FREE LOOP starts starts in time.                             *)
StrayInv == PressInv /\ ~late /\ Authorised /\ Prepared /\ TakeRuns

GuardInv == PressInv /\ (late \/ StrayInv)

LEMMA AuthFacts ==
  /\ AuthTicks \in Nat /\ AuthTicks >= 1
  /\ StepTicks \in Nat /\ StepTicks >= AuthTicks
  /\ AuthKeep = AuthTicks + 1 /\ AuthStray = AuthTicks + 2
  /\ AuthRun = AuthTicks + 3
BY TicksAssumption DEF AuthKeep, AuthStray, AuthRun

LEMMA CountedFacts ==
  ASSUME StrayInv
  PROVE  /\ Counted \in 0..AuthTicks \cup {AuthRun}
         /\ run["X"] # "off" => Counted # 0
         /\ auth = AuthRun => Counted = AuthRun
         /\ auth # AuthRun /\ newtake => Counted = AuthTicks
         /\ auth # AuthRun => Counted \in {auth, AuthTicks}
<1>1. auth \in 0..AuthTicks \cup {AuthRun}
  BY DEF StrayInv, Authorised
<1>2. CASE auth = AuthRun
  BY <1>1, <1>2, AuthFacts DEF Counted
<1>3. CASE auth # AuthRun
  <2>1. auth \in 0..AuthTicks /\ auth < AuthKeep
    BY <1>1, <1>3, AuthFacts
  <2>2. Counted = IF newtake \/ fl.st = "take" THEN AuthTicks ELSE auth
    BY <2>1 DEF Counted
  <2>3. run["X"] # "off" => auth # 0 \/ newtake \/ fl.st = "take"
    BY DEF StrayInv, Authorised
  <2>4. AuthTicks # 0 /\ AuthTicks \in 0..AuthTicks
    BY AuthFacts
  <2>5. CASE newtake \/ fl.st = "take"
    BY <1>3, <2>2, <2>4, <2>5
  <2>6. CASE ~(newtake \/ fl.st = "take")
    BY <1>3, <2>1, <2>2, <2>3, <2>6
  <2> QED
    BY <2>5, <2>6
<1> QED
  BY <1>2, <1>3

(* With the guard's marks in range, it finds no stray and no loop lost.    *)
LEMMA GuardQuiet ==
  ASSUME StrayInv, NEW runs, Trimmed(runs)
  PROVE  /\ StrayGuard(runs).runs = runs /\ ~StrayGuard(runs).lost
         /\ StrayGuard(runs).auth =
              IF run["X"] # "off" THEN AuthRun
              ELSE IF Counted = AuthRun \/ Counted = 0 THEN 0
              ELSE Counted - 1
<1>1. runs["X"] # "off" <=> run["X"] # "off"
  BY Stored DEF Trimmed
<1>2. /\ Counted \in 0..AuthTicks \cup {AuthRun}
      /\ run["X"] # "off" => Counted # 0
  BY CountedFacts
<1>3. Counted # AuthStray /\ (Counted >= AuthKeep <=> Counted = AuthRun)
      /\ (Counted < AuthKeep \/ Counted = AuthRun)
  BY <1>2, AuthFacts
<1> QED
  BY <1>1, <1>2, <1>3 DEF StrayGuard

(* The engine goes on, the buffers as they are: the two loops stay, or     *)
(* change places.                                                          *)
Moved(s, t, x) ==
  \A e \in BOOLEAN : Sound(s, x, e) =>
    Sound(t, x, e) /\ (SameHistory(s, t) \/ Swaps(s, t))

Wiped(t) ==
  /\ t.rec = "none" /\ ~t.swap /\ ~t.inplace /\ ~t.valid /\ t.cur = "X"
  /\ t.anchorN = 0

LEMMA SameMoved ==
  ASSUME NEW s, NEW t, NEW u, NEW x, Moved(s, t, x), SameLoop(t, u),
         SameAnchor(t, u)
  PROVE  Moved(s, u, x)
<1> SUFFICES ASSUME NEW e \in BOOLEAN, Sound(s, x, e)
             PROVE  Sound(u, x, e) /\ (SameHistory(s, u) \/ Swaps(s, u))
  BY DEF Moved
<1>1. Sound(t, x, e) /\ (SameHistory(s, t) \/ Swaps(s, t))
  BY DEF Moved
<1>2. Sound(u, x, e) /\ SameHistory(t, u)
  BY <1>1, SameSound
<1> QED
  BY <1>1, <1>2 DEF SameHistory, Swaps, SameAnchor

LEMMA SelfMoved == \A s, x : Moved(s, s, x)
BY DEF Moved, SameHistory, SameAnchor

LEMMA WipedSame ==
  ASSUME NEW s, NEW t, Wiped(s), SameLoop(s, t), SameAnchor(s, t)
  PROVE  Wiped(t)
BY DEF Wiped, SameLoop, SameAnchor

(* The UI tick sees a clear of everything.                                 *)
ClearsAll == clrall = "asked" \/ (clrall = "bank" /\ playing)

LEMMA UiHeadDoes ==
  ASSUME StrayInv, UiHead
  PROVE  /\ UNCHANGED <<cfg, clr, playing, pos, tick, due, lane, voice>>
         /\ ui = "idle" /\ ui' # "idle" /\ ~newtake' /\ fl' \in States
         /\ playing => tick < StepTicks \/ due.rec # "X"
         /\ auth' = IF run["X"] # "off" THEN AuthRun
                    ELSE IF Counted = AuthRun \/ Counted = 0 THEN 0
                    ELSE Counted - 1
         /\ Trimmed(run') /\ (playing => run' = run)
         /\ fl.st = "take" => run'["X"] = run["X"]
         /\ fl'.st = "take" => fl.st = "take"
         /\ fl.st = "take" => fl'.st = "take"
         /\ fl'.press \in {fl.press, NoPress}
         /\ nth' = Marked(fl')
         /\ fl'.rec \in {"none", fl.rec}
         /\ IF ClearsAll
            THEN Wiped(fl') /\ \A r \in Buffers : buf'[r] = Empty
            ELSE Moved(fl, fl', c) /\ \A r \in Buffers : buf'[r] = buf[r]
<1> DEFINE stopped == was /\ ~playing
           runs == IF stopped /\ fl.rec # "none"
                   THEN StopRecorder(PassRecorder(fl), run) ELSE run
           s == IF stopped THEN Stopped(fl) ELSE fl
           guard == StrayGuard(runs)
           kept == IF guard.lost THEN [s EXCEPT !.has = FALSE] ELSE s
           cleared == IF ClearsAll THEN Reset(kept) ELSE kept
           armed == IF playing /\ entry # "none" THEN Pattern(cleared, entry)
                    ELSE cleared
<1>1. FreeTypeOK /\ fl \in States /\ LoopInv /\ c \in Configs
      /\ run \in [Buffers -> Kinds]
  BY SettingsFact DEF StrayInv, PressInv, LoopInv, FreeTypeOK
<1>2. /\ fl' = armed /\ auth' = guard.auth
      /\ run' = IF ClearsAll /\ kept.st = "take"
                THEN StopRecorder("X", guard.runs) ELSE guard.runs
      /\ buf' = [r \in Buffers |-> IF ClearsAll \/ (guard.lost /\ r = "X")
                                   THEN Empty ELSE buf[r]]
      /\ UNCHANGED <<cfg, clr, playing, pos, tick, due, lane, voice>>
      /\ ui = "idle" /\ ui' # "idle" /\ ~newtake' /\ nth' = Marked(armed)
      /\ playing => \/ tick < IF cfg.slow THEN StepTicks ELSE AuthTicks - 1
                    \/ due.rec # "X"
  BY DEF UiHead, ClearsAll
<1>12. playing => tick < StepTicks \/ due.rec # "X"
  BY <1>1, <1>2, AuthFacts DEF FreeTypeOK
<1>3. ClearsAll => fl.st # "take" /\ \A r \in Buffers : run[r] = "off"
  BY <1>1, Stored
     DEF LoopInv, ClearsAlone, ClearsAll, Quiet, Recording, StrayInv, TakeRuns
<1>4. /\ CutTo(fl, runs) /\ (playing => runs = run)
      /\ (fl.st = "take" => runs = run)
  BY <1>1, CutHere, CutMore, PassRecorderType
     DEF LoopInv, Passes, TakeShape
<1> HIDE DEF runs
<1>5. /\ guard.runs = runs /\ ~guard.lost
      /\ guard.auth = IF run["X"] # "off" THEN AuthRun
                      ELSE IF Counted = AuthRun \/ Counted = 0 THEN 0
                      ELSE Counted - 1
  BY <1>4, GuardQuiet DEF CutTo
<1> HIDE DEF guard
<1>6. /\ s \in States /\ s.press = fl.press /\ Moved(fl, s, c)
      /\ (s.st = "take" <=> fl.st = "take") /\ (fl.st = "idle" => s.st = "idle")
      /\ s.rec \in {"none", fl.rec}
  <2>1. CASE stopped
    <3>1. s = Stopped(fl) /\ ~playing
      BY <2>1
    <3>2. /\ s.press = fl.press /\ s \in States /\ s.rec = "none"
          /\ s.st = IF fl.st \in {"armed", "overdub"} THEN "idle" ELSE fl.st
      BY <1>1, <3>1, StoppedType, StoppedDoes
    <3>3. Moved(fl, s, c)
      BY <1>1, <3>1, StoppedSound DEF Moved
    <3> QED
      BY <3>1, <3>2, <3>3
  <2>2. CASE ~stopped
    BY <1>1, <2>2, SelfMoved
  <2> QED
    BY <2>1, <2>2
<1> HIDE DEF s
<1>7. kept = s
  BY <1>5
<1> HIDE DEF kept
<1>13. /\ \/ fl' = cleared
          \/ fl' = Pattern(cleared, entry)
       /\ nth' = Marked(fl') /\ cleared \in States
  BY <1>2, <1>6, <1>7, ResetType
<1>14. /\ fl' \in States /\ SameLoop(cleared, fl') /\ SameAnchor(cleared, fl')
       /\ fl'.press = cleared.press
       /\ (fl'.st = "take" <=> cleared.st = "take")
  <2>1. SameLoop(cleared, cleared) /\ SameAnchor(cleared, cleared)
    BY DEF SameLoop, SameAnchor
  <2> HIDE DEF cleared
  <2> QED
    BY <1>13, <2>1, PatternType, PatternDoes
<1> HIDE DEF armed
<1>8. CASE ClearsAll
  <2>1. cleared = Reset(s)
    BY <1>7, <1>8
  <2>2. cleared.st = "idle" /\ cleared.press = NoPress /\ Wiped(cleared)
    BY <1>6, <2>1, ResetDoes DEF Wiped
  <2>3. run' = runs
    BY <1>2, <1>3, <1>5, <1>6, <1>7, <1>8
  <2>4. \A r \in Buffers : buf'[r] = Empty
    BY <1>2, <1>8
  <2> HIDE DEF cleared
  <2>5. Wiped(fl') /\ fl'.press = NoPress /\ fl'.st # "take"
    BY <1>14, <2>2, WipedSame
  <2> QED
    BY <1>2, <1>3, <1>4, <1>5, <1>8, <1>12, <1>13, <1>14, <2>3, <2>4, <2>5
       DEF CutTo, Wiped
<1>9. CASE ~ClearsAll
  <2>1. cleared = s
    BY <1>7, <1>9
  <2>3. Moved(fl, fl', c)
    BY <1>6, <1>14, <2>1, SameMoved
  <2>4. run' = runs
    BY <1>2, <1>5, <1>9
  <2>6. \A r \in Buffers : buf'[r] = buf[r]
    BY <1>2, <1>5, <1>9
  <2>7. fl'.rec \in {"none", fl.rec}
    BY <1>6, <1>14, <2>1 DEF SameLoop
  <2> HIDE DEF cleared
  <2> QED
    BY <1>2, <1>4, <1>5, <1>6, <1>9, <1>12, <1>13, <1>14, <2>1, <2>3, <2>4,
       <2>6, <2>7
       DEF CutTo
<1> QED
  BY <1>8, <1>9

LEMMA LongPressMoves ==
  ASSUME StrayInv, Apart, LongHeld, NEW on \in BOOLEAN, NEW m \in BOOLEAN,
         NEW h, h = LongPress(fl, c, on, m)
  PROVE  /\ h.s \in States /\ h.s.press = NoPress
         /\ Moved(fl, h.s, c) /\ h.s.rec \in {"none", fl.rec}
         /\ due # NoDue => h.do \notin {"clear", "cut"}
         /\ fl.st = "take" => h.s.st = "take" \/ auth = AuthRun
         /\ h.s.st = "take" => fl.st = "take" /\ h.do \notin {"clear", "cut"}
         /\ IF h.do = "clear"
            THEN SameLoop(fl, h.s) /\ h.s.st = "idle"
            ELSE CutTo(h.s,
                       IF h.do = "cut" THEN StopRecorder(PassRecorder(fl), run)
                       ELSE run)
<1>1. FreeTypeOK /\ fl \in States /\ c \in Configs /\ LoopInv
  BY SettingsFact DEF StrayInv, PressInv, LoopInv, FreeTypeOK
<1>2. /\ h.s \in States /\ h.s.press = NoPress
      /\ h.s.rec # "none" => h.s.rec = fl.rec
      /\ IF h.do = "clear"
         THEN /\ due = NoDue
              /\ h.s.st = "idle" /\ SameLoop(fl, h.s)
         ELSE CutTo(h.s,
                    IF h.do = "cut" THEN StopRecorder(PassRecorder(fl), run)
                    ELSE run)
  BY <1>1, LongPressKeeps
<1>3. PICK r :
  /\ r = LongPress(fl, c, on, m) /\ r.s.press = NoPress
  /\ \/ /\ fl.press.pedal = "play" /\ r.do \in {"nothing", "toast"}
        /\ SameLoop(fl, r.s) /\ SameAnchor(fl, r.s) /\ r.s.st = fl.st
     \/ /\ fl.press.pedal # "play" /\ fl.press.started # "take"
        /\ \E u \in States :
             /\ SameLoop(fl, u) /\ SameAnchor(fl, u) /\ u.press = NoPress
             /\ u.st = IF fl.rec = "none" THEN fl.press.was ELSE fl.st
             /\ UndoOutcome(u, c, r)
     \/ /\ fl.press.pedal # "play" /\ r.do = "clear" /\ r.s.st = "idle"
        /\ SameLoop(fl, r.s) /\ SameAnchor(fl, r.s)
  BY <1>1, LongPressDoes
<1>4. h = r
  BY <1>3
<1>5. /\ fl.press.pedal \in {"rec", "play"}
      /\ fl.press.pedal = "rec" => due = NoDue
      /\ fl.press.started = "take" => auth = AuthRun
  BY <1>1, Fields DEF LongHeld, Calm, Presses, Apart
<1>6. fl.st = "take" /\ fl.press.pedal = "rec" => fl.press.started = "take"
  BY <1>1 DEF LoopInv, Passes, TakeShape
<1>7. CASE /\ SameLoop(fl, h.s) /\ SameAnchor(fl, h.s)
           /\ \/ fl.press.pedal = "play" /\ h.do \in {"nothing", "toast"}
                 /\ h.s.st = fl.st
              \/ /\ fl.press.pedal # "play" /\ h.do = "clear"
                 /\ h.s.st = "idle"
  <2>1. Moved(fl, h.s, c)
    BY <1>7, SelfMoved, SameMoved
  <2> QED
    BY <1>2, <1>5, <1>6, <1>7, <2>1
<1>8. CASE /\ fl.press.pedal # "play" /\ fl.press.started # "take"
           /\ \E u \in States :
                /\ SameLoop(fl, u) /\ SameAnchor(fl, u) /\ u.press = NoPress
                /\ u.st = IF fl.rec = "none" THEN fl.press.was ELSE fl.st
                /\ UndoOutcome(u, c, h)
  <2>1. PICK u \in States :
          /\ SameLoop(fl, u) /\ SameAnchor(fl, u)
          /\ u.st = IF fl.rec = "none" THEN fl.press.was ELSE fl.st
          /\ UndoOutcome(u, c, h)
    BY <1>8
  <2>2. fl.press.pedal = "rec" /\ fl.st # "take" /\ u.st # "take"
    BY <1>1, <1>5, <1>6, <1>8, <2>1 DEF StrayInv, PressInv
  <2>3. h.s.st # "take" /\ h.do # "clear"
    BY <2>1, <2>2 DEF UndoOutcome
  <2>4. Moved(fl, h.s, c)
    <3> SUFFICES ASSUME NEW e \in BOOLEAN, Sound(fl, c, e)
                 PROVE  /\ Sound(h.s, c, e)
                        /\ SameHistory(fl, h.s) \/ Swaps(fl, h.s)
      BY DEF Moved
    <3>1. Sound(u, c, e) /\ SameHistory(fl, u)
      BY <2>1, SameSound
    <3>2. Sound(h.s, c, e) /\ (SameHistory(u, h.s) \/ Swaps(u, h.s))
      BY <1>1, <1>2, <2>1, <3>1, UndoSound
    <3> QED
      BY <3>1, <3>2 DEF SameHistory, Swaps, SameAnchor
  <2> QED
    BY <1>2, <1>5, <2>2, <2>3, <2>4
<1> QED
  BY <1>3, <1>4, <1>7, <1>8

LEMMA NotCleared ==
  ASSUME NEW asked, asked = 0, NEW s, NEW runs
  PROVE  LET k == Clearing(asked, s, runs)
         IN k.runs = runs /\ ~k.done /\ k.clr = 0
<1> DEFINE done == asked # 0 /\ ~(runs[PassRecorder(s)] # "off"
                                  \/ runs["X"] # "off")
           now == IF asked = 1
                  THEN StopRecorder("X", StopRecorder(PassRecorder(s), runs))
                  ELSE runs
           after == IF asked # 0 /\ (runs[PassRecorder(s)] # "off"
                                     \/ runs["X"] # "off") THEN 2 ELSE 0
<1>1. done = FALSE /\ now = runs /\ after = 0
  OBVIOUS
<1>2. Clearing(asked, s, runs) = [done |-> done, clr |-> after, runs |-> now]
  BY DEF Clearing
<1> HIDE DEF done, now, after
<1> QED
  BY <1>1, <1>2

LEMMA UiTrackDoes ==
  ASSUME StrayInv, Apart, NEW long \in BOOLEAN, UiTrack(long)
  PROVE  /\ UNCHANGED <<cfg, clrall, was, auth, newtake, playing, pos, due,
                        voice, entry>>
         /\ ui # "idle" /\ ui' = "idle" /\ fl' \in States
         /\ tick' = IF ~playing THEN 0 ELSE IF tick < StepTicks THEN tick + 1
                                           ELSE tick
         /\ Trimmed(run') /\ (due # NoDue => run' = run)
         /\ fl.st = "take" => fl'.st = "take" \/ auth = AuthRun
         /\ fl'.st = "take" => fl.st = "take" /\ run' = run /\ clr' = 0
         /\ fl'.press \in {fl.press, NoPress}
         /\ nth' = Marked(fl') /\ fl'.rec \in {"none", fl.rec}
         /\ lane' = IF c.ubuf THEN fl'.cur ELSE lane
         /\ \/ /\ Wiped(fl')
               /\ \A r \in Buffers :
                    buf'[r] = IF c.ubuf \/ r = lane THEN Empty ELSE buf[r]
            \/ Moved(fl, fl', c) /\ \A r \in Buffers : buf'[r] = buf[r]
<1> DEFINE h == IF long THEN LongPress(fl, c, ui = "run", Muted)
                ELSE Result(fl, "nothing", "none")
           cut == IF h.do = "cut" THEN StopRecorder(PassRecorder(fl), run)
                  ELSE run
           now == h.s.rpass = "now"
           heard == IF now THEN [h.s EXCEPT !.rpass = "none"] ELSE h.s
           asked == IF h.do = "clear" THEN 1 ELSE clr
           clear == Clearing(asked, heard, cut)
           gone == IF clear.done THEN Cleared(heard) ELSE heard
           s == IF clear.runs[PassRecorder(gone)] # "off" THEN RecRunning(gone)
                ELSE gone
           holds == [r \in Buffers |->
                       IF clear.done /\ (c.ubuf \/ r = lane) THEN Empty
                       ELSE buf[r]]
<1>1. FreeTypeOK /\ LoopInv /\ fl \in States /\ c \in Configs
  BY SettingsFact DEF StrayInv, PressInv, LoopInv, FreeTypeOK
<1>2. /\ fl' = IF ui = "stopped" /\ s.st = "idle"
               THEN [s EXCEPT !.has = holds[lane] # Empty] ELSE s
      /\ run' = clear.runs /\ buf' = holds /\ clr' = clear.clr
      /\ lane' = Follow(s) /\ nth' = Marked(s)
      /\ UNCHANGED <<cfg, clrall, was, auth, newtake, playing, pos, due, voice,
                     entry>>
      /\ ui # "idle" /\ ui' = "idle"
      /\ tick' = IF ~playing THEN 0 ELSE IF tick < StepTicks THEN tick + 1
                                        ELSE tick
  BY DEF UiTrack
<1>3. /\ h.s \in States /\ h.s.press \in {fl.press, NoPress}
      /\ Moved(fl, h.s, c) /\ h.s.rec \in {"none", fl.rec}
      /\ due # NoDue => h.do \notin {"clear", "cut"} /\ clr = 0
      /\ fl.st = "take" => clr = 0
      /\ fl.st = "take" => h.s.st = "take" \/ auth = AuthRun
      /\ h.s.st = "take" => /\ fl.st = "take" /\ clr = 0
                            /\ h.do \notin {"clear", "cut"}
      /\ IF h.do = "clear"
         THEN SameLoop(fl, h.s) /\ h.s.st = "idle" /\ cut = run
         ELSE CutTo(h.s, cut)
  <2>0. (due # NoDue => clr = 0) /\ (fl.st = "take" => clr = 0)
    BY DEF StrayInv, PressInv, LoopInv, ClearsAlone, ClearDue, TakeRuns
  <2>1. CASE long
    <3>1. LongHeld /\ h = LongPress(fl, c, ui = "run", Muted)
      BY <2>1 DEF UiTrack
    <3>2. (ui = "run") \in BOOLEAN /\ Muted \in BOOLEAN
      BY DEF Muted
    <3>3. h.do = "clear" => cut = run
      OBVIOUS
    <3>4. cut = IF h.do = "cut" THEN StopRecorder(PassRecorder(fl), run)
                ELSE run
      OBVIOUS
    <3> HIDE DEF h, cut
    <3>5. /\ h.s \in States /\ h.s.press = NoPress
          /\ Moved(fl, h.s, c) /\ h.s.rec \in {"none", fl.rec}
          /\ due # NoDue => h.do \notin {"clear", "cut"}
          /\ fl.st = "take" => h.s.st = "take" \/ auth = AuthRun
          /\ h.s.st = "take" => fl.st = "take" /\ h.do \notin {"clear", "cut"}
          /\ IF h.do = "clear"
             THEN SameLoop(fl, h.s) /\ h.s.st = "idle"
             ELSE CutTo(h.s, cut)
      BY <3>1, <3>2, <3>4, LongPressMoves
    <3> QED
      BY <2>0, <3>3, <3>5
  <2>2. CASE ~long
    <3>1. h = Result(fl, "nothing", "none")
      BY <2>2
    <3>2. h.s = fl /\ h.do = "nothing" /\ cut = run
      BY <3>1 DEF Result
    <3> HIDE DEF h, cut
    <3> QED
      BY <1>1, <2>0, <3>2, CutHere, SelfMoved
  <2> QED
    BY <2>1, <2>2
<1>4. cut \in [Buffers -> Kinds] /\ (h.do # "cut" => cut = run)
  BY <1>1, StopRecorderType, PassRecorderType DEF FreeTypeOK
<1> HIDE DEF h, cut
<1>5. /\ heard \in States /\ SameLoop(h.s, heard) /\ SamePress(h.s, heard)
      /\ SameAnchor(h.s, heard)
  <2>1. heard \in States
    BY <1>3, SetField
  <2> QED
    BY <1>3, <2>1 DEF States, SameLoop, SamePress, SameAnchor
<1> HIDE DEF heard, now
<1>6. /\ asked \in 0..2 /\ (due # NoDue => asked = 0)
      /\ (heard.st = "take" => asked = 0)
  BY <1>1, <1>3, <1>5 DEF SamePress, FreeTypeOK
<1>7. \/ CutTo(heard, cut)
      \/ asked = 1 /\ cut = run /\ SameLoop(fl, heard) /\ heard.st = "idle"
  <2>1. CASE h.do = "clear"
    BY <1>3, <1>5, <2>1 DEF SameLoop, SamePress
  <2>2. CASE h.do # "clear"
    BY <1>3, <1>5, <2>2, CutSame DEF SamePress
  <2> QED
    BY <2>1, <2>2
<1> HIDE DEF asked
<1>8. asked = 0 => clear.runs = cut /\ ~clear.done /\ clear.clr = 0
  BY NotCleared
<1>9. CutTo(heard, clear.runs)
  BY <1>1, <1>4, <1>5, <1>6, <1>7, ClearingDoes
<1> HIDE DEF clear
<1>10. /\ gone \in States /\ SamePress(heard, gone)
       /\ clear.done => Wiped(gone)
       /\ ~clear.done => gone = heard /\ Moved(fl, gone, c)
  <2>1. CASE clear.done
    BY <1>5, <2>1, ClearedType, ClearedDoes DEF Wiped
  <2>2. CASE ~clear.done
    BY <1>3, <1>5, <2>2, SameMoved DEF SamePress
  <2> QED
    BY <2>1, <2>2
<1> HIDE DEF gone
<1>11. /\ s \in States /\ SamePress(gone, s) /\ s.rec = gone.rec
       /\ clear.done => Wiped(s)
       /\ ~clear.done => Moved(fl, s, c)
  <2>1. CASE s = gone
    BY <1>10, <2>1 DEF SamePress
  <2>2. CASE s = RecRunning(gone)
    <3> HIDE DEF s
    <3>1. /\ SamePress(gone, s) /\ SameAnchor(gone, s) /\ ~s.swap
          /\ s.rec = gone.rec /\ s.inplace = gone.inplace
          /\ s.valid = gone.valid /\ s \in States
          /\ s.cur = IF gone.swap THEN Flip(gone.cur) ELSE gone.cur
      BY <1>10, <2>2, RecRunningDoes, RecRunningType
    <3>2. clear.done => Wiped(s)
      BY <1>10, <3>1 DEF Wiped, SameAnchor
    <3>3. ~clear.done => Moved(fl, s, c)
      <4> SUFFICES ASSUME ~clear.done, NEW e \in BOOLEAN, Sound(fl, c, e)
                   PROVE  /\ Sound(s, c, e)
                          /\ SameHistory(fl, s) \/ Swaps(fl, s)
        BY DEF Moved
      <4>1. Sound(gone, c, e) /\ (SameHistory(fl, gone) \/ Swaps(fl, gone))
        BY <1>10 DEF Moved
      <4>2. Sound(s, c, e) /\ SameHistory(gone, s)
        BY <1>1, <1>10, <2>2, <4>1, RecRunningSound
      <4> QED
        BY <4>1, <4>2 DEF SameHistory, Swaps, SameAnchor
    <3> QED
      BY <3>1, <3>2, <3>3
  <2> QED
    BY <2>1, <2>2
<1> HIDE DEF s
<1>12. /\ fl' \in States /\ SameLoop(s, fl') /\ SameAnchor(s, fl')
       /\ SamePress(s, fl')
  <2>1. fl' \in States
    BY <1>2, <1>11, SetField
  <2> QED
    BY <1>2, <1>11 DEF States, SameLoop, SameAnchor, SamePress
<1>13. /\ fl'.st = h.s.st /\ fl'.press = h.s.press
       /\ clear.done => Wiped(fl')
       /\ ~clear.done => Moved(fl, fl', c)
  BY <1>5, <1>10, <1>11, <1>12, SameMoved, WipedSame DEF SamePress
<1>14. nth' = Marked(fl')
  BY <1>2, <1>12 DEF Marked, SameAnchor
<1>15. fl'.rec \in {"none", fl.rec} /\ lane' = IF c.ubuf THEN fl'.cur ELSE lane
  <2>1. gone.rec \in {"none", fl.rec}
    BY <1>3, <1>5, <1>10 DEF Wiped, SameLoop
  <2> QED
    BY <1>2, <1>11, <1>12, <2>1 DEF SameLoop, Follow
<1>16. Trimmed(run') /\ (due # NoDue => run' = run)
       /\ (fl'.st = "take" => fl.st = "take" /\ run' = run /\ clr' = 0)
  BY <1>2, <1>3, <1>4, <1>5, <1>6, <1>8, <1>9, <1>13 DEF CutTo, SamePress
<1>17. IF clear.done
       THEN \A r \in Buffers :
              buf'[r] = IF c.ubuf \/ r = lane THEN Empty ELSE buf[r]
       ELSE \A r \in Buffers : buf'[r] = buf[r]
  BY <1>2
<1> QED
  BY <1>2, <1>3, <1>12, <1>13, <1>14, <1>15, <1>16, <1>17

-----------------------------------------------------------------------------
(* A step that starts no recording.                                        *)
LEMMA QuietStray ==
  ASSUME StrayInv, UNCHANGED <<auth, clr, newtake>>,
         due' = NoDue \/ UNCHANGED <<ui, pos, tick, due>>,
         due.rec = "X" /\ due' # NoDue => run'["X"] = run["X"],
         run'["X"] # "off" => run["X"] # "off",
         fl.st = "take" <=> fl'.st = "take",
         fl.st = "take" => run'["X"] = run["X"]
  PROVE  Authorised' /\ Prepared' /\ TakeRuns'
<1>1. Authorised /\ Prepared /\ TakeRuns
  BY DEF StrayInv
<1>2. Prepared' /\ TakeRuns'
  BY <1>1 DEF Prepared, TakeRuns
<1>3. CASE due' = NoDue
  <2>1. due'.rec # "X"
    BY <1>3 DEF NoDue
  <2> QED
    BY <1>1, <1>2, <2>1 DEF Authorised, AuthRun
<1>4. CASE UNCHANGED <<ui, pos, tick, due>> /\ due' # NoDue
  <2>1. Counting' = Counting
    BY <1>4 DEF Counting
  <2>2. /\ auth' \in 0..AuthTicks \cup {AuthRun'}
        /\ run'["X"] # "off" => auth' # 0 \/ newtake' \/ fl'.st = "take"
    BY <1>1 DEF Authorised, AuthRun
  <2>3. due'.rec = "X" =>
          /\ run'["X"] # "ending" /\ (auth' = AuthRun' => run'["X"] # "off")
          /\ tick' + Counting' <= StepTicks
          /\ \/ newtake' \/ auth' = AuthRun'
             \/ auth' + tick' + Counting' >= AuthTicks
    BY <1>1, <1>4, <2>1 DEF Authorised, AuthRun
  <2> QED
    BY <1>2, <2>2, <2>3 DEF Authorised
<1> QED
  BY <1>2, <1>3, <1>4

(* A start is prepared, with the engine in state s: of X, once the guard   *)
(* has seen the end of what X recorded before.                             *)
LEMMA PrepareAuth ==
  ASSUME LoopInv, EndSeen, NEW s \in States, NEW q, Shape(s, c), TakeShape(s),
         Prepare(s, q), due'.rec = "X", UNCHANGED auth, pos' \in {0, L},
         tick' = 0, run' = run, run["X"] # "ending"
  PROVE  Authorised' /\ Prepared' /\ TakeRuns'
<1>1. FreeTypeOK
  BY DEF LoopInv
<1>2. fl'.st # "take"
  BY <1>1, PrepareDoes DEF NoDue
<1>3. newtake'
  BY DEF Prepare, NoDue
<1>4. /\ auth \in 0..AuthTicks \cup {AuthRun}
      /\ auth = AuthRun => run["X"] # "off"
  BY <1>1, AuthFacts DEF FreeTypeOK, EndSeen, Recording
<1>5. tick' + Counting' <= StepTicks
  BY AuthFacts DEF Counting
<1> QED
  BY <1>2, <1>3, <1>4, <1>5 DEF Authorised, Prepared, TakeRuns, AuthRun

LEMMA PrepareStray ==
  ASSUME StrayInv, NEW s \in States, NEW q, Shape(s, c), TakeShape(s),
         Prepare(s, q), UNCHANGED <<auth, clr>>, pos' \in {0, L}, tick' = 0,
         \/ /\ UNCHANGED run /\ run["X"] # "ending"
            /\ fl.st = "take" <=> s.st = "take"
         \/ /\ run' = StopRecorder("X", run) /\ s.st = "idle"
            /\ auth = AuthRun
  PROVE  late' \/ (Authorised' /\ Prepared' /\ TakeRuns')
<1>1. FreeTypeOK /\ LoopInv /\ Authorised /\ TakeRuns
  BY DEF StrayInv, PressInv, LoopInv
<1>2. /\ s.st \notin {"armed", "overdub"} => due' = NoDue /\ fl'.st = s.st
      /\ s.st \in {"armed", "overdub"} => fl'.st # "take"
  BY <1>1, PrepareDoes
<1>3. CASE due'.rec = "X"
  <2>1. s.st \in {"armed", "overdub"} /\ run' = run /\ run["X"] # "ending"
    BY <1>2, <1>3 DEF NoDue
  <2>2. late' \/ EndSeen
    BY <1>3 DEF Prepare, NoDue
  <2> QED
    BY <1>1, <1>3, <2>1, <2>2, PrepareAuth
<1>4. CASE due'.rec # "X"
  <2>1. newtake => newtake'
    BY DEF Prepare
  <2>2. TakeRuns'
    <3>1. fl'.st = "take" => s.st = "take" /\ due' = NoDue
      BY <1>2
    <3> QED
      BY <1>1, <3>1 DEF TakeRuns
  <2>3. run'["X"] # "off" => auth' # 0 \/ newtake' \/ fl'.st = "take"
    BY <1>1, <1>2, <2>1, AuthFacts DEF Authorised
  <2> QED
    BY <1>1, <1>4, <2>2, <2>3 DEF Authorised, Prepared, AuthRun
<1> QED
  BY <1>3, <1>4

LEMMA SeqStepStray ==
  ASSUME StrayInv, SeqStep
  PROVE  late' \/ (Authorised' /\ Prepared' /\ TakeRuns')
<1>1. /\ FreeTypeOK /\ LoopInv /\ Authorised /\ Prepared /\ TakeRuns
      /\ fl \in States /\ Shape(fl, c) /\ TakeShape(fl)
  BY DEF StrayInv, PressInv, LoopInv, Passes, FreeTypeOK
<1>2. /\ tick > 0 /\ tick' = 0 /\ UNCHANGED <<auth, clr, ui>>
      /\ \A r \in Buffers : run[r] # "ending"
      /\ pos' = IF pos = L THEN 1 ELSE pos + 1
  BY DEF SeqStep
<1>3. pos \in 0..L /\ L \in Nat /\ L > 1 /\ tick \in 0..StepTicks
  BY <1>1, LoopAssumption DEF FreeTypeOK
<1>4. CASE pos' = 1
  <2>1. LoopBegins
    BY <1>4 DEF SeqStep
  <2>2. /\ due' = NoDue /\ UNCHANGED newtake /\ SamePress(fl, fl')
        /\ run'["X"] = IF due.rec = "X" THEN due.kind
                       ELSE IF Pass("X") THEN "off" ELSE run["X"]
    BY <1>1, <2>1, TogglesDoes, Stored DEF LoopBegins
  <2>3. run["X"] = "take" => ~Pass("X")
    BY DEF Pass
  <2>4. NoDue.rec # "X"
    BY DEF NoDue
  <2>5. Prepared' /\ TakeRuns'
    BY <1>1, <1>2, <2>2, <2>3, <2>4 DEF Prepared, TakeRuns, SamePress
  <2>6. due.rec = "X" => late' \/ newtake \/ auth # 0
    <3>1. SUFFICES ASSUME due.rec = "X", ~late',
                          auth + tick + Counting >= AuthTicks
                   PROVE  auth # 0
      BY <1>1, AuthFacts DEF Authorised
    <3>2. Ticks < AuthTicks
      <4>1. ~(Ticks >= AuthTicks)
        BY <2>1, <3>1 DEF LoopBegins
      <4>2. Ticks \in Nat
        BY <1>3, AuthFacts DEF Ticks
      <4> QED
        BY <4>1, <4>2, AuthFacts
    <3>3. Ticks = tick + Counting
      BY <1>3 DEF Ticks, Counting
    <3> QED
      BY <1>3, <3>1, <3>2, <3>3, AuthFacts DEF Counting
  <2>7. run'["X"] # "off" => late' \/ auth' # 0 \/ newtake' \/ fl'.st = "take"
    <3>1. CASE due.rec = "X"
      BY <1>2, <2>2, <2>6, <3>1
    <3>2. CASE due.rec # "X"
      BY <1>1, <1>2, <2>2, <3>2 DEF Authorised, SamePress
    <3> QED
      BY <3>1, <3>2
  <2> QED
    BY <1>1, <1>2, <2>2, <2>4, <2>5, <2>7 DEF Authorised, AuthRun
<1>5. CASE pos' # 1
  <2>1. pos \notin {0, L}
    BY <1>2, <1>3, <1>5
  <2>2. due = NoDue
    BY <1>1, <2>1 DEF Prepared
  <2>3. CASE pos' = L
    <3>1. Prepare(fl, qany) /\ UNCHANGED run
      BY <1>5, <2>3 DEF SeqStep
    <3> QED
      BY <1>1, <1>2, <2>3, <3>1, Stored, PrepareStray DEF TakeRuns
  <2>4. CASE pos' # L
    <3>1. UNCHANGED <<fl, newtake, due, run>>
      BY <1>5, <2>4 DEF SeqStep
    <3> QED
      BY <1>1, <1>2, <2>2, <3>1, QuietStray
  <2> QED
    BY <2>3, <2>4
<1> QED
  BY <1>4, <1>5

-----------------------------------------------------------------------------
(* What the pedals and the transport do, for the guard and the history.    *)

(* A press that moves the engine alone.                                    *)
PressOnly ==
  /\ UNCHANGED <<run, buf, newtake, nth, late, playing, pos, tick, due>>
  /\ SameLoop(fl, fl') /\ SameAnchor(fl, fl')
  /\ fl.st = "take" <=> fl'.st = "take"
  /\ fl' \in States
  /\ fl'.press.pedal = "rec" => fl'.press.was # "take"

(* The sequencer starts, with the engine in state s and no pass; a take    *)
(* ends with it.                                                           *)
StartsFrom(s) ==
  /\ s \in States /\ Settled /\ SameLoop(fl, s) /\ s.rec = "none"
  /\ TakeShape(s)
  /\ \E q : Starts(s, q)
  /\ UNCHANGED buf
  /\ \/ /\ UNCHANGED run /\ SameAnchor(fl, s)
        /\ fl.st = "take" <=> s.st = "take"
     \/ /\ run' = StopRecorder("X", run) /\ s.st = "idle" /\ auth = AuthRun
        /\ fl.st = "take"
        /\ IF c.undoto = 1 THEN s.anchorN = 1 /\ s.anchorAt = s.cur
                           ELSE s.anchorN = 0
  /\ s.press.pedal = "rec" => s.press.was # "take"

Takes ==
  /\ ~playing /\ Settled /\ Refreshed /\ ~fl.has /\ fl.st = "idle"
  /\ clr = 0
  /\ c.role = "FREE" /\ due = NoDue
  /\ run' = [run EXCEPT !["X"] = "take"]
  /\ buf' = [buf EXCEPT !["X"] = Fresh]
  /\ SameLoop(fl, fl') /\ SameAnchor(fl, fl') /\ fl'.st = "take"
  /\ fl' \in States
  /\ fl'.press.pedal = "rec" => fl'.press.was # "take"
  /\ UNCHANGED <<playing, pos, tick, due, newtake, nth, late>>

Frame == UNCHANGED <<cfg, clr, clrall, was, ui, auth, lane, entry>>

LEMMA RecPressWas ==
  ASSUME NEW s \in States, NEW x \in Configs, NEW on \in BOOLEAN,
         NEW slave \in BOOLEAN, NEW others, NEW fits \in BOOLEAN,
         s.press.pedal = "rec" => s.press.was # "take"
  PROVE  LET t == RecPress(s, x, on, slave, others, fits).s
         IN t.press.pedal = "rec" => t.press.was # "take"
<1> SUFFICES ASSUME NEW r, r = RecPress(s, x, on, slave, others, fits)
             PROVE  r.s.press.pedal = "rec" => r.s.press.was # "take"
  OBVIOUS
<1> DEFINE t1 == [s EXCEPT !.st = "take"]
           t2 == [s EXCEPT !.st = "armed"]
           t3 == [s EXCEPT !.st = "idle", !.repl = FALSE]
           h1 == Hold(t1, "rec", s.st, "none", "take")
           h2 == Hold(t2, "rec", s.st, "none", "none")
           h3 == Hold(t3, "rec", s.st, "none", "none")
<1>1. t1 \in States /\ t2 \in States /\ t3 \in States
  BY DEF States
<1>2. h1.press.was = s.st /\ h2.press.was = s.st /\ h3.press.was = s.st
  <2> HIDE DEF t1, t2, t3
  <2> QED
    BY <1>1 DEF Hold, States
<1>3. CASE s.st = "take"
  <2>1. r = Launch(s, x, fits)
    BY <1>3 DEF RecPress
  <2>2. r.s.press = s.press
    BY <2>1, LaunchDoes
  <2> QED
    BY <2>2
<1>4. CASE s.st # "take"
  <2>1. \/ r.s = s \/ r = Result(h1, "take", "none")
        \/ r = Result(h2, "toast", "none") \/ r = Result(h3, "toast", "none")
    BY <1>4 DEF RecPress, Result
  <2> HIDE DEF h1, h2, h3
  <2> QED
    BY <1>2, <1>4, <2>1 DEF Result
<1> QED
  BY <1>3, <1>4

LEMMA RecDownDoes ==
  ASSUME PressInv, Apart, RecDown
  PROVE  Frame /\ (PressOnly \/ Takes \/ \E s : StartsFrom(s))
<1>1. /\ fl \in States /\ c \in Configs /\ playing \in BOOLEAN
      /\ LoopInv
      /\ fl.press.pedal = "rec" => fl.press.was # "take"
  BY SettingsFact DEF PressInv, LoopInv, FreeTypeOK
<1>0. (fl.st = "take" => fl.rec = "none") /\ (due # NoDue => playing)
  BY <1>1 DEF LoopInv, Passes, TakeShape, Window
<1>2. PICK slave \in BOOLEAN, fits \in BOOLEAN, others \in Others :
        /\ Lasts(fits, others)
        /\ LET r == RecPress(fl, c, playing, slave, others, fits)
           IN /\ r.do \in {"take", "launch"} => Settled
              /\ r.do = "take" => Refreshed /\ clr = 0
              /\ Perform(r, qany)
  BY DEF RecDown, Apart, ClearDue
<1>3. PICK r : r = RecPress(fl, c, playing, slave, others, fits)
  OBVIOUS
<1>4. /\ SameLoop(fl, r.s) /\ r.do \in {"toast", "launch", "take"}
      /\ r.do = "launch" => fl.st = "take" /\ r.s.st = "idle" /\ fits
      /\ r.do = "take" =>
           /\ ~playing /\ c.role = "FREE" /\ fl.st = "idle" /\ ~fl.has
           /\ r.s.st = "take"
      /\ r.do = "toast" => r.s = fl \/ (fl.st # "take" /\ r.s.st # "take")
      /\ IF r.do = "launch"
         THEN IF c.undoto = 1
              THEN r.s.anchorN = 1 /\ r.s.anchorAt = fl.cur
              ELSE r.s.anchorN = 0
         ELSE SameAnchor(fl, r.s)
  BY <1>1, <1>3, RecPressDoes
<1>5. /\ r.s \in States
      /\ r.s.press.pedal = "rec" => r.s.press.was # "take"
  BY <1>1, <1>3, RecPressType, RecPressWas DEF GoodResult
<1>6. /\ r.do \in {"take", "launch"} => Settled
      /\ r.do = "take" => Refreshed /\ clr = 0
      /\ Perform(r, qany) /\ (fits => auth = AuthRun)
  BY <1>2, <1>3 DEF Lasts
<1>7. Frame
  BY <1>6 DEF Perform, Frame
<1>8. CASE r.do = "toast"
  <2>1. /\ fl' = r.s
        /\ UNCHANGED <<run, buf, newtake, nth, late, playing, pos, tick, due>>
    BY <1>6, <1>8 DEF Perform, history
  <2> QED
    BY <1>4, <1>5, <1>7, <1>8, <2>1 DEF PressOnly
<1>9. CASE r.do = "launch"
  <2>1. run' = StopRecorder("X", run) /\ Starts(r.s, qany) /\ UNCHANGED buf
    BY <1>6, <1>9 DEF Perform
  <2>2. r.s.rec = "none" /\ r.s.cur = fl.cur
    BY <1>0, <1>4, <1>9 DEF SameLoop
  <2>3. TakeShape(r.s)
    BY <1>4, <1>9 DEF TakeShape
  <2>4. StartsFrom(r.s)
    BY <1>4, <1>5, <1>6, <1>9, <2>1, <2>2, <2>3 DEF StartsFrom
  <2> QED
    BY <1>7, <2>4
<1>10. CASE r.do = "take"
  <2>1. /\ run' = [run EXCEPT !["X"] = "take"]
        /\ buf' = [buf EXCEPT !["X"] = Fresh] /\ fl' = r.s
        /\ UNCHANGED <<playing, pos, tick, due, newtake, nth, late>>
    BY <1>6, <1>10 DEF Perform, history
  <2>2. due = NoDue
    BY <1>0, <1>4, <1>10
  <2> QED
    BY <1>4, <1>5, <1>6, <1>7, <1>10, <2>1, <2>2 DEF Takes
<1> QED
  BY <1>4, <1>8, <1>9, <1>10

LEMMA PlayDownDoes ==
  ASSUME PressInv, PlayDown
  PROVE  Frame /\ (PressOnly \/ \E s : StartsFrom(s))
<1>1. /\ fl \in States /\ c \in Configs /\ playing \in BOOLEAN
      /\ Muted \in BOOLEAN /\ LoopInv
      /\ fl.press.pedal = "rec" => fl.press.was # "take"
  BY SettingsFact DEF PressInv, LoopInv, FreeTypeOK, Muted
<1>0. fl.st = "take" => fl.rec = "none"
  BY <1>1 DEF LoopInv, Passes, TakeShape
<1>2. PICK fits \in BOOLEAN, others \in Others :
        /\ Lasts(fits, others)
        /\ LET r == PlayPress(fl, c, playing, Muted, others, fits)
           IN /\ r.do \in {"play", "launch"} => Settled
              /\ Perform(r, EndPending(r.s))
  BY DEF PlayDown
<1>3. PICK r : r = PlayPress(fl, c, playing, Muted, others, fits)
  OBVIOUS
<1>4. /\ SameLoop(fl, r.s) /\ r.do \in {"toast", "launch", "play", "nothing"}
      /\ r.do = "launch" => fl.st = "take" /\ r.s.st = "idle" /\ fits
      /\ r.do # "launch" => r.s.st = fl.st
      /\ r.do = "play" => ~playing /\ fl.st # "take"
      /\ r.s.press = fl.press \/ r.s.press.pedal = "play"
      /\ IF r.do = "launch"
         THEN IF c.undoto = 1
              THEN r.s.anchorN = 1 /\ r.s.anchorAt = fl.cur
              ELSE r.s.anchorN = 0
         ELSE SameAnchor(fl, r.s)
  BY <1>1, <1>3, PlayPressDoes
<1>5. /\ r.s \in States
      /\ r.s.press.pedal = "rec" => r.s.press.was # "take"
  BY <1>1, <1>3, <1>4, PlayPressType DEF GoodResult
<1>6. /\ r.do \in {"play", "launch"} => Settled
      /\ Perform(r, EndPending(r.s)) /\ (fits => auth = AuthRun)
  BY <1>2, <1>3 DEF Lasts
<1>7. Frame
  BY <1>6 DEF Perform, Frame
<1>8. CASE r.do \in {"toast", "nothing"}
  <2>1. /\ fl' = r.s
        /\ UNCHANGED <<run, buf, newtake, nth, late, playing, pos, tick, due>>
    BY <1>6, <1>8 DEF Perform, history
  <2> QED
    BY <1>4, <1>5, <1>7, <1>8, <2>1 DEF PressOnly
<1>9. CASE r.do = "launch"
  <2>1. /\ run' = StopRecorder("X", run) /\ Starts(r.s, EndPending(r.s))
        /\ UNCHANGED buf
    BY <1>6, <1>9 DEF Perform
  <2>2. r.s.rec = "none" /\ r.s.cur = fl.cur
    BY <1>0, <1>4, <1>9 DEF SameLoop
  <2>3. TakeShape(r.s)
    BY <1>4, <1>9 DEF TakeShape
  <2>4. StartsFrom(r.s)
    BY <1>4, <1>5, <1>6, <1>9, <2>1, <2>2, <2>3 DEF StartsFrom
  <2> QED
    BY <1>7, <2>4
<1>10. CASE r.do = "play"
  <2>1. Starts(r.s, EndPending(r.s)) /\ UNCHANGED <<run, buf>>
    BY <1>6, <1>10 DEF Perform
  <2>2. r.s.rec = "none"
    BY <1>1, <1>4, <1>6, <1>10, SettledFacts DEF SameLoop
  <2>3. TakeShape(r.s)
    BY <1>4, <1>10 DEF TakeShape
  <2>4. StartsFrom(r.s)
    BY <1>4, <1>5, <1>6, <1>10, <2>1, <2>2, <2>3 DEF StartsFrom
  <2> QED
    BY <1>7, <2>4
<1> QED
  BY <1>4, <1>8, <1>9, <1>10

-----------------------------------------------------------------------------
(* The other presses and the transport.                                    *)

Undone ==
  /\ due = NoDue /\ fl' \in States /\ fl'.press = fl.press
  /\ Moved(fl, fl', c) /\ fl'.rec \in {"none", fl.rec}
  /\ Trimmed(run') /\ (fl.st = "take" => run' = run)
  /\ fl.st = "take" <=> fl'.st = "take"
  /\ UNCHANGED <<buf, newtake, nth, late, playing, pos, tick, due>>

LEMMA UndoDownDoes ==
  ASSUME PressInv, Apart, UndoDown
  PROVE  Frame /\ Undone
<1>1. /\ LoopInv /\ fl \in States /\ c \in Configs
      /\ run \in [Buffers -> Kinds]
  BY SettingsFact DEF PressInv, LoopInv, FreeTypeOK
<1>2. PICK r : r = Undo(fl, c)
  OBVIOUS
<1>3. due = NoDue /\ Perform(r, qany)
  BY <1>2 DEF UndoDown, Calm, Apart
<1>4. UndoOutcome(fl, c, r) /\ r.s \in States
  BY <1>1, <1>2, UndoDoes, UndoType DEF GoodResult
<1>5. /\ fl' = r.s
      /\ run' = IF r.do = "cut" THEN StopRecorder(PassRecorder(fl), run)
                ELSE run
      /\ UNCHANGED <<buf, newtake, nth, late, playing, pos, tick, due>>
  <2>1. r.do \in {"toast", "cut"}
    BY <1>4 DEF UndoOutcome
  <2> QED
    BY <1>3, <2>1 DEF Perform, history
<1>6. Moved(fl, fl', c)
  BY <1>1, <1>4, <1>5, UndoSound DEF Moved
<1>7. Trimmed(run')
  <2>1. Trimmed(run)
    BY DEF Trimmed
  <2>2. Trimmed(StopRecorder(PassRecorder(fl), run))
    BY <1>1, StopRecorderDoes, PassRecorderType DEF Trimmed
  <2> QED
    BY <1>5, <2>1, <2>2
<1>8. fl.st = "take" => fl.rec = "none"
  BY <1>1 DEF LoopInv, Passes, TakeShape
<1>9. /\ fl.st = "take" => run' = run
      /\ fl.st = "take" <=> fl'.st = "take"
      /\ fl'.press = fl.press /\ fl'.rec \in {"none", fl.rec}
  BY <1>4, <1>5, <1>8 DEF UndoOutcome
<1>10. Frame
  BY <1>3 DEF Perform, Frame
<1> QED
  BY <1>3, <1>4, <1>5, <1>6, <1>7, <1>9, <1>10 DEF Undone

LEMMA OtherPressDoes ==
  ASSUME PressInv,
         EndDown \/ PedalUp \/ PatternLands \/ ClearAll \/ BankLands
  PROVE  UNCHANGED <<cfg, clr, ui, auth, lane>> /\ PressOnly
<1>1. /\ LoopInv /\ fl \in States
      /\ fl.press.pedal = "rec" => fl.press.was # "take"
  BY DEF PressInv, LoopInv, FreeTypeOK
<1>2. CASE EndDown
  <2>1. PICK r : r = End(fl, playing, Muted) /\ Perform(r, EndPending(r.s))
    BY <1>2 DEF EndDown
  <2>2. /\ SameLoop(fl, r.s) /\ SameAnchor(fl, r.s) /\ SamePress(fl, r.s)
        /\ r.do \in {"nothing", "toast"} /\ r.s \in States
    <3>1. playing \in BOOLEAN /\ Muted \in BOOLEAN
      BY <1>1 DEF Muted, LoopInv, FreeTypeOK
    <3> QED
      BY <1>1, <2>1, <3>1, EndDoes, EndType DEF GoodResult
  <2>3. /\ fl' = r.s
        /\ UNCHANGED <<cfg, clr, ui, auth, lane, run, buf, newtake, nth, late,
                       playing, pos, tick, due>>
    BY <2>1, <2>2 DEF Perform, history
  <2> QED
    BY <1>1, <2>2, <2>3 DEF PressOnly, SamePress
<1>3. CASE PedalUp
  <2>1. /\ fl' = Release(fl, fl.press.pedal)
        /\ UNCHANGED <<cfg, clr, ui, auth, lane, run, buf, newtake, nth, late,
                       playing, pos, tick, due>>
    BY <1>3 DEF PedalUp, unit, history
  <2>2. /\ SameLoop(fl, fl') /\ SameAnchor(fl, fl') /\ fl'.st = fl.st
        /\ fl'.press \in {fl.press, NoPress} /\ fl' \in States
    BY <1>1, <2>1, ReleaseDoes, ReleaseType
  <2>3. NoPress.pedal # "rec"
    BY DEF NoPress
  <2> QED
    BY <1>1, <2>1, <2>2, <2>3 DEF PressOnly
<1>4. CASE PatternLands
  BY <1>1, <1>4 DEF PatternLands, PressOnly, engine, unit, history, SameLoop,
                    SameAnchor
<1>5. CASE ClearAll
  BY <1>1, <1>5 DEF ClearAll, PressOnly, unit, history, SameLoop, SameAnchor
<1>6. CASE BankLands
  BY <1>1, <1>6 DEF BankLands, PressOnly, unit, history, SameLoop, SameAnchor
<1> QED
  BY <1>2, <1>3, <1>4, <1>5, <1>6

LEMMA StartDoes ==
  ASSUME PressInv, Start
  PROVE  /\ UNCHANGED <<cfg, clr, clrall, was, ui, auth, lane, entry>>
         /\ StartsFrom(fl)
<1>1. LoopInv /\ fl \in States /\ (fl.press.pedal = "rec" => fl.press.was # "take")
  BY DEF PressInv, LoopInv, FreeTypeOK
<1>2. fl.rec = "none"
  BY <1>1, SettledFacts DEF Start
<1> QED
  BY <1>1, <1>2 DEF Start, StartsFrom, SameLoop, SameAnchor, LoopInv, Passes

LEMMA StartsStray ==
  ASSUME StrayInv, NEW s, StartsFrom(s), UNCHANGED <<cfg, clr, ui, auth>>
  PROVE  late' \/ (Authorised' /\ Prepared' /\ TakeRuns')
<1>1. LoopInv /\ fl \in States /\ Shape(fl, c) /\ TakeShape(fl)
  BY DEF StrayInv, PressInv, LoopInv, FreeTypeOK, Passes
<1>2. /\ s \in States /\ Settled /\ SameLoop(fl, s) /\ s.rec = "none"
      /\ s.press.pedal = "rec" => s.press.was # "take"
      /\ \/ UNCHANGED run /\ (fl.st = "take" <=> s.st = "take")
         \/ run' = StopRecorder("X", run) /\ s.st = "idle" /\ auth = AuthRun
  BY DEF StartsFrom
<1>3. EndSeen /\ run["X"] # "ending"
  BY <1>2, Stored DEF Settled
<1>4. Shape(s, c)
  BY <1>1, <1>2, SameShape
<1>5. PICK q : Starts(s, q)
  BY DEF StartsFrom
<1>6. Prepare(s, q) /\ pos' = 0 /\ tick' = 0
  BY <1>5 DEF Starts
<1>7. TakeShape(s) /\ pos' \in {0, L}
  BY <1>6 DEF StartsFrom
<1> QED
  BY <1>2, <1>3, <1>4, <1>6, <1>7, PrepareStray

LEMMA RecorderDoneStray ==
  ASSUME StrayInv, NEW r \in Buffers, RecorderDone(r)
  PROVE  Authorised' /\ Prepared' /\ TakeRuns'
<1>1. /\ LoopInv /\ Authorised /\ TakeRuns /\ run \in [Buffers -> Kinds]
  BY DEF StrayInv, PressInv, LoopInv, FreeTypeOK
<1>2. /\ run[r] = "ending" \/ (Pass(r) /\ ~playing)
      /\ run' = [run EXCEPT ![r] = "off"]
      /\ UNCHANGED <<fl, clr, ui, auth, newtake, pos, tick, due>>
  BY DEF RecorderDone, engine
<1>3. due.rec = "X" => playing /\ run["X"] # "ending"
  BY <1>1 DEF Authorised, LoopInv, Window, NoDue
<1>4. run'["X"] # "off" => run'["X"] = run["X"]
  BY <1>1, <1>2, Stored
<1>5. fl.st = "take" => run'["X"] = run["X"]
  BY <1>1, <1>2, Stored DEF TakeRuns, Pass
<1>6. due.rec = "X" => run'["X"] = run["X"]
  BY <1>1, <1>2, <1>3, Stored
<1> QED
  BY <1>1, <1>2, <1>4, <1>5, <1>6, QuietStray

LEMMA UiHeadStray ==
  ASSUME StrayInv, UiHead
  PROVE  Authorised' /\ Prepared' /\ TakeRuns'
<1>1. LoopInv /\ FreeTypeOK /\ Authorised /\ Prepared /\ TakeRuns
  BY DEF StrayInv, PressInv, LoopInv
<1>2. /\ UNCHANGED <<clr, pos, tick, due>>
      /\ ui = "idle" /\ ui' # "idle" /\ ~newtake'
      /\ playing => tick < StepTicks \/ due.rec # "X"
      /\ auth' = IF run["X"] # "off" THEN AuthRun
                 ELSE IF Counted = AuthRun \/ Counted = 0 THEN 0
                 ELSE Counted - 1
      /\ Trimmed(run') /\ (playing => run' = run)
      /\ fl.st = "take" => run'["X"] = run["X"]
      /\ fl'.st = "take" => fl.st = "take"
  BY UiHeadDoes
<1>3. /\ Counted \in 0..AuthTicks \cup {AuthRun}
      /\ auth # AuthRun /\ newtake => Counted = AuthTicks
      /\ auth # AuthRun => Counted \in {auth, AuthTicks}
  BY CountedFacts
<1>4. Prepared' /\ TakeRuns'
  BY <1>1, <1>2 DEF Prepared, TakeRuns
<1>5. AuthRun' = AuthRun /\ Counting = 0 /\ Counting' = 1
  BY <1>2 DEF AuthRun, Counting
<1>6. /\ auth' \in 0..AuthTicks \cup {AuthRun}
      /\ auth' = AuthRun => run["X"] # "off"
  BY <1>2, <1>3, AuthFacts
<1>7. run'["X"] # "off" => run["X"] # "off" /\ auth' # 0
  BY <1>2, Stored, AuthFacts DEF Trimmed
<1>8. ASSUME due.rec = "X"
      PROVE  /\ run' = run /\ tick + 1 <= StepTicks
             /\ auth' = AuthRun \/ auth' + tick + 1 >= AuthTicks
  <2>1. /\ playing /\ (auth = AuthRun => run["X"] # "off")
        /\ newtake \/ auth = AuthRun \/ auth + tick + Counting >= AuthTicks
        /\ tick \in 0..StepTicks /\ auth \in 0..AuthTicks \cup {AuthRun}
    BY <1>1, <1>8 DEF Authorised, LoopInv, Window, FreeTypeOK, NoDue
  <2>2. tick < StepTicks
    BY <1>2, <1>8, <2>1
  <2>3. CASE run["X"] # "off"
    BY <1>2, <2>1, <2>2, <2>3, AuthFacts
  <2>4. CASE run["X"] = "off"
    <3>1. auth # AuthRun /\ auth \in 0..AuthTicks
      BY <2>1, <2>4
    <3>2. Counted \in 0..AuthTicks /\ Counted + tick >= AuthTicks
      BY <1>3, <1>5, <2>1, <3>1, AuthFacts
    <3>3. Counted # AuthRun
      BY <3>2, AuthFacts
    <3>4. auth' = IF Counted = 0 THEN 0 ELSE Counted - 1
      BY <1>2, <2>4, <3>3
    <3> QED
      BY <1>2, <2>1, <2>2, <3>2, <3>4, AuthFacts
  <2> QED
    BY <2>3, <2>4
<1> QED
  BY <1>1, <1>2, <1>4, <1>5, <1>6, <1>7, <1>8 DEF Authorised

LEMMA UiTrackStray ==
  ASSUME StrayInv, Apart, NEW long \in BOOLEAN, UiTrack(long)
  PROVE  Authorised' /\ Prepared' /\ TakeRuns'
<1>1. LoopInv /\ FreeTypeOK /\ Authorised /\ Prepared /\ TakeRuns
  BY DEF StrayInv, PressInv, LoopInv
<1>2. /\ UNCHANGED <<auth, newtake, playing, pos, due>>
      /\ ui # "idle" /\ ui' = "idle"
      /\ tick' = IF ~playing THEN 0 ELSE IF tick < StepTicks THEN tick + 1
                                        ELSE tick
      /\ Trimmed(run') /\ (due # NoDue => run' = run)
      /\ fl.st = "take" => fl'.st = "take" \/ auth = AuthRun
      /\ fl'.st = "take" => fl.st = "take" /\ run' = run /\ clr' = 0
  BY UiTrackDoes
<1>3. Prepared' /\ TakeRuns'
  BY <1>1, <1>2 DEF Prepared, TakeRuns
<1>4. AuthRun' = AuthRun /\ Counting = 1 /\ Counting' = 0
  BY <1>2 DEF AuthRun, Counting
<1>5. run'["X"] # "off" => run["X"] # "off"
  BY <1>2, Stored DEF Trimmed
<1>6. run'["X"] # "off" => auth' # 0 \/ newtake' \/ fl'.st = "take"
  BY <1>1, <1>2, <1>5, AuthFacts DEF Authorised
<1>7. due.rec = "X" => /\ run' = run /\ playing /\ tick + 1 <= StepTicks
                       /\ tick \in Nat
  BY <1>1, <1>2, <1>4 DEF Authorised, LoopInv, Window, NoDue, FreeTypeOK
<1>8. due.rec = "X" => tick' + Counting' = tick + Counting
  BY <1>2, <1>4, <1>7, AuthFacts
<1>9. due.rec = "X" => \/ newtake \/ auth = AuthRun
                       \/ auth + tick' + Counting' >= AuthTicks
  <2>1. CASE auth \in 0..AuthTicks /\ due.rec = "X"
    <3>1. auth + tick' + Counting' = auth + tick + Counting
      BY <1>2, <1>4, <1>7, <2>1, AuthFacts
    <3> QED
      BY <1>1, <2>1, <3>1 DEF Authorised
  <2> QED
    BY <1>1, <2>1 DEF Authorised
<1> QED
  BY <1>1, <1>2, <1>3, <1>4, <1>6, <1>7, <1>8, <1>9 DEF Authorised

LEMMA StrayInit == Init => StrayInv
<1> SUFFICES ASSUME Init PROVE StrayInv
  OBVIOUS
<1>1. LoopInv
  BY LoopInit
<1>2. /\ auth = 0 /\ ~newtake /\ due = NoDue /\ run["X"] = "off" /\ ~late
      /\ fl.st = "idle" /\ fl.press.pedal = "none"
  BY Stored DEF Init, Zeroed, NoPress
<1> QED
  BY <1>1, <1>2, AuthFacts
     DEF StrayInv, PressInv, Authorised, Prepared, TakeRuns, NoDue

Presses3 == RecDown \/ PlayDown \/ UndoDown \/ EndDown \/ PedalUp
              \/ PatternLands \/ ClearAll \/ BankLands \/ Start

LEMMA PressStray ==
  ASSUME StrayInv, Apart, Presses3
  PROVE  late' \/ (Authorised' /\ Prepared' /\ TakeRuns')
<1>1. PressInv /\ LoopInv /\ Authorised /\ Prepared /\ TakeRuns
  BY DEF StrayInv, PressInv
<1>2. CASE PressOnly /\ UNCHANGED <<clr, ui, auth>>
  BY <1>1, <1>2, QuietStray DEF PressOnly
<1>3. CASE \E s : StartsFrom(s) /\ UNCHANGED <<cfg, clr, ui, auth>>
  BY <1>3, StartsStray
<1>4. CASE Takes /\ Frame
  <2>1. run'["X"] = "take"
    BY <1>1, <1>4, Stored DEF Takes, LoopInv, FreeTypeOK
  <2>2. due'.rec # "X" /\ Prepared' /\ TakeRuns'
    BY <1>4, <2>1 DEF Takes, Frame, NoDue, Prepared, TakeRuns
  <2> QED
    BY <1>1, <1>4, <2>2 DEF Takes, Frame, Authorised, AuthRun
<1>5. CASE Undone /\ Frame
  <2>1. run'["X"] # "off" => run["X"] # "off"
    BY <1>5, Stored DEF Undone, Trimmed
  <2>2. due.rec # "X" /\ UNCHANGED <<auth, clr, newtake, ui, pos, tick, due>>
    BY <1>5 DEF Undone, Frame, NoDue
  <2> QED
    BY <1>5, <2>1, <2>2, QuietStray DEF Undone
<1>6. CASE RecDown
  BY <1>1, <1>2, <1>3, <1>4, <1>6, RecDownDoes DEF Frame
<1>7. CASE PlayDown
  BY <1>1, <1>2, <1>3, <1>7, PlayDownDoes DEF Frame
<1>8. CASE UndoDown
  BY <1>1, <1>5, <1>8, UndoDownDoes
<1>9. CASE EndDown \/ PedalUp \/ PatternLands \/ ClearAll \/ BankLands
  BY <1>1, <1>2, <1>9, OtherPressDoes
<1>10. CASE Start
  BY <1>1, <1>3, <1>10, StartDoes
<1> QED
  BY <1>6, <1>7, <1>8, <1>9, <1>10 DEF Presses3

(* A step of a recording in time leaves the next in time, or says it is    *)
(* late.                                                                   *)
LEMMA StrayNext ==
  ASSUME StrayInv, Apart, [Next]_vars
  PROVE  late' \/ (Authorised' /\ Prepared' /\ TakeRuns')
<1>1. LoopInv /\ Authorised /\ Prepared /\ TakeRuns
  BY DEF StrayInv, PressInv
<1>4. CASE UNCHANGED vars
  BY <1>4, QuietStray DEF vars, engine, unit
<1>5. CASE Stop
  <2>1. due' = NoDue /\ UNCHANGED <<fl, auth, clr, newtake, run>>
    BY <1>5 DEF Stop, engine
  <2> QED
    BY <2>1, QuietStray
<1>6. CASE SeqStep
  BY <1>6, SeqStepStray
<1>7. CASE \E r \in Buffers : RecorderDone(r)
  BY <1>7, RecorderDoneStray
<1>8. CASE UiTick
  BY <1>8, UiHeadStray, UiTrackStray DEF UiTick
<1> QED
  BY <1>4, <1>5, <1>6, <1>7, <1>8, PressStray DEF Next, Presses3

-----------------------------------------------------------------------------
(* Late or not, a press remembers no take. *)

LEMMA UiPress ==
  ASSUME LoopInv, UiTick
  PROVE  fl'.press \in {fl.press, NoPress} /\ (late => late')
<1>1. FreeTypeOK /\ fl \in States /\ c \in Configs /\ Muted \in BOOLEAN
  BY SettingsFact DEF LoopInv, FreeTypeOK, Muted
<1>2. CASE UiHead
  <2> DEFINE s == IF was /\ ~playing THEN Stopped(fl) ELSE fl
  <2>1. PICK lost \in BOOLEAN :
          LET kept == IF lost THEN [s EXCEPT !.has = FALSE] ELSE s
              cleared == IF ClearsAll THEN Reset(kept) ELSE kept
          IN fl' = IF playing /\ entry # "none" THEN Pattern(cleared, entry)
                   ELSE cleared
    <3> DEFINE runs == IF was /\ ~playing /\ fl.rec # "none"
                       THEN StopRecorder(PassRecorder(fl), run) ELSE run
    <3>1. StrayGuard(runs).lost \in BOOLEAN
      BY DEF StrayGuard
    <3>2. LET kept == IF StrayGuard(runs).lost THEN [s EXCEPT !.has = FALSE]
                      ELSE s
              cleared == IF ClearsAll THEN Reset(kept) ELSE kept
          IN fl' = IF playing /\ entry # "none" THEN Pattern(cleared, entry)
                   ELSE cleared
      BY <1>2 DEF UiHead, ClearsAll
    <3> HIDE DEF runs, s
    <3> QED
      BY <3>1, <3>2
  <2>2. s \in States /\ s.press = fl.press
    BY <1>1, StoppedType, StoppedDoes
  <2> HIDE DEF s
  <2> DEFINE kept == IF lost THEN [s EXCEPT !.has = FALSE] ELSE s
             cleared == IF ClearsAll THEN Reset(kept) ELSE kept
  <2>3. kept \in States /\ kept.press = fl.press
    <3>1. [s EXCEPT !.has = FALSE] \in States
      BY <2>2, SetField
    <3>2. [s EXCEPT !.has = FALSE].press = s.press
      BY <2>2 DEF States
    <3> QED
      BY <2>2, <3>1, <3>2
  <2> HIDE DEF kept
  <2>4. cleared \in States /\ cleared.press \in {fl.press, NoPress}
    BY <2>3, ResetType, ResetDoes
  <2>5. fl' = cleared \/ fl' = Pattern(cleared, entry)
    BY <2>1 DEF kept
  <2> HIDE DEF cleared
  <2>6. fl'.press = cleared.press
    BY <2>4, <2>5, PatternDoes
  <2> QED
    BY <1>2, <2>4, <2>6 DEF UiHead
<1>3. ASSUME NEW long \in BOOLEAN, UiTrack(long)
      PROVE  fl'.press \in {fl.press, NoPress}
  <2> DEFINE h == IF long THEN LongPress(fl, c, ui = "run", Muted)
                  ELSE Result(fl, "nothing", "none")
             now == h.s.rpass = "now"
             heard == IF now THEN [h.s EXCEPT !.rpass = "none"] ELSE h.s
  <2>1. PICK done \in BOOLEAN, running \in BOOLEAN, has \in BOOLEAN,
             empty \in BOOLEAN :
          LET gone == IF done THEN Cleared(heard) ELSE heard
              s == IF running THEN RecRunning(gone) ELSE gone
          IN fl' = IF has THEN [s EXCEPT !.has = empty] ELSE s
    <3> DEFINE cut == IF h.do = "cut" THEN StopRecorder(PassRecorder(fl), run)
                      ELSE run
               clear == Clearing(IF h.do = "clear" THEN 1 ELSE clr, heard, cut)
               done == clear.done
               gone == IF done THEN Cleared(heard) ELSE heard
               running == clear.runs[PassRecorder(gone)] # "off"
               s == IF running THEN RecRunning(gone) ELSE gone
               has == ui = "stopped" /\ s.st = "idle"
               empty == [r \in Buffers |->
                           IF clear.done /\ (c.ubuf \/ r = lane) THEN Empty
                           ELSE buf[r]][lane] # Empty
    <3>1. fl' = IF has THEN [s EXCEPT !.has = empty] ELSE s
      BY <1>3 DEF UiTrack
    <3>2. done \in BOOLEAN
      BY DEF Clearing
    <3> HIDE DEF clear, cut, heard
    <3>3. running \in BOOLEAN /\ has \in BOOLEAN /\ empty \in BOOLEAN
      OBVIOUS
    <3> HIDE DEF done, running, has, empty
    <3> QED
      BY <3>1, <3>2, <3>3
  <2>2. h.s \in States /\ h.s.press \in {fl.press, NoPress}
    <3>1. CASE long
      <4>1. h = LongPress(fl, c, ui = "run", Muted) /\ (ui = "run") \in BOOLEAN
        BY <3>1
      <4> HIDE DEF h
      <4>2. h.s \in States /\ h.s.press = NoPress
        <5>1. h.s \in States
          BY <1>1, <4>1, LongPressType DEF GoodResult
        <5>2. ASSUME NEW on \in BOOLEAN
              PROVE  LongPress(fl, c, on, Muted).s.press = NoPress
          <6>1. PICK r : r = LongPress(fl, c, on, Muted) /\ r.s.press = NoPress
            BY <1>1, LongPressDoes
          <6> QED
            BY <6>1
        <5> QED
          BY <4>1, <5>1, <5>2
      <4> QED
        BY <4>2
    <3>2. CASE ~long
      BY <1>1, <3>2 DEF Result
    <3> QED
      BY <3>1, <3>2
  <2> HIDE DEF h
  <2>3. heard \in States /\ heard.press = h.s.press
    <3>1. [h.s EXCEPT !.rpass = "none"] \in States
      BY <2>2, SetField
    <3>2. [h.s EXCEPT !.rpass = "none"].press = h.s.press
      BY <2>2 DEF States
    <3> QED
      BY <2>2, <3>1, <3>2
  <2> HIDE DEF heard
  <2> DEFINE gone == IF done THEN Cleared(heard) ELSE heard
             s == IF running THEN RecRunning(gone) ELSE gone
  <2>4. gone \in States /\ gone.press = heard.press
    BY <2>3, ClearedType, ClearedDoes DEF SamePress
  <2> HIDE DEF gone
  <2>5. s \in States /\ s.press = gone.press
    BY <2>4, RecRunningType, RecRunningDoes DEF SamePress
  <2>6. fl' = IF has THEN [s EXCEPT !.has = empty] ELSE s
    BY <2>1 DEF gone
  <2> HIDE DEF s
  <2>7. fl'.press = s.press
    BY <2>5, <2>6 DEF States
  <2> QED
    BY <2>2, <2>3, <2>4, <2>5, <2>7
<1>4. ASSUME NEW long \in BOOLEAN, UiTrack(long)
      PROVE  late => late'
  BY <1>4 DEF UiTrack
<1> QED
  BY <1>2, <1>3, <1>4 DEF UiTick

LEMMA StepLate ==
  ASSUME PressInv, Apart, SeqStep
  PROVE  /\ fl'.press.pedal = "rec" => fl'.press.was # "take"
         /\ late => late' \/ (Authorised' /\ Prepared' /\ TakeRuns')
<1>1. /\ LoopInv /\ FreeTypeOK /\ fl \in States
      /\ Shape(fl, c) /\ TakeShape(fl)
      /\ fl.press.pedal = "rec" => fl.press.was # "take"
  BY DEF PressInv, LoopInv, Passes, FreeTypeOK
<1>2. /\ tick' = 0 /\ UNCHANGED auth
      /\ \A r \in Buffers : run[r] # "ending"
  BY DEF SeqStep
<1>3. CASE pos' = 1
  <2>1. LoopBegins
    BY <1>3 DEF SeqStep
  <2>2. late => late'
    BY <2>1 DEF LoopBegins
  <2>3. fl'.press = fl.press
    <3>1. fl' = fl \/ fl' = LoopStart(fl).s
      BY <2>1 DEF LoopBegins, Toggles
    <3> QED
      BY <1>1, <3>1, LoopStartDoes DEF SamePress
  <2> QED
    BY <1>1, <2>2, <2>3
<1>4. CASE pos' # 1 /\ pos' = L
  <2>1. Prepare(fl, qany) /\ UNCHANGED run
    BY <1>4 DEF SeqStep
  <2>2. fl'.press = fl.press
    BY <1>1, <2>1, PrepareDoes
  <2>3. run["X"] # "ending"
    BY <1>2, Stored
  <2>4. CASE due'.rec = "X" /\ EndSeen
    BY <1>1, <1>2, <1>4, <2>1, <2>2, <2>3, <2>4, PrepareAuth
  <2>5. CASE due'.rec = "X" /\ ~EndSeen
    <3>1. late'
      BY <2>1, <2>5 DEF Prepare, NoDue
    <3> QED
      BY <1>1, <2>2, <3>1
  <2>6. CASE due'.rec # "X"
    <3>1. late' = late
      BY <2>1, <2>6 DEF Prepare
    <3> QED
      BY <1>1, <2>2, <3>1
  <2> QED
    BY <2>4, <2>5, <2>6
<1>5. CASE pos' # 1 /\ pos' # L
  <2>1. UNCHANGED <<fl, late>>
    BY <1>5 DEF SeqStep, history
  <2> QED
    BY <1>1, <2>1
<1> QED
  BY <1>3, <1>4, <1>5

(* A start late, the next X starts in time again, prepared once the guard  *)
(* has seen the end of what was late.                                      *)
LEMMA PressNext ==
  ASSUME PressInv, Apart, [Next]_vars
  PROVE  /\ PressInv'
         /\ late => late' \/ (Authorised' /\ Prepared' /\ TakeRuns')
<1>1. /\ LoopInv /\ FreeTypeOK /\ LoopInv' /\ fl \in States
      /\ Shape(fl, c) /\ TakeShape(fl)
      /\ fl.press.pedal = "rec" => fl.press.was # "take"
  BY LoopNext DEF PressInv, LoopInv, Passes, FreeTypeOK
<1>2. SUFFICES /\ fl'.press.pedal = "rec" => fl'.press.was # "take"
               /\ late => late' \/ (Authorised' /\ Prepared' /\ TakeRuns')
  BY <1>1 DEF PressInv
<1>3. CASE PressOnly \/ Takes \/ (Undone /\ fl'.press = fl.press)
  BY <1>1, <1>3 DEF PressOnly, Takes, Undone
<1>4. CASE \E s : StartsFrom(s) /\ UNCHANGED <<cfg, clr, ui, auth>>
  <2>1. PICK s : StartsFrom(s) /\ UNCHANGED <<cfg, clr, ui, auth>>
    BY <1>4
  <2>2. PICK q : Starts(s, q)
    BY <2>1 DEF StartsFrom
  <2>3. /\ Prepare(s, q) /\ pos' = 0 /\ tick' = 0 /\ s \in States
        /\ Shape(s, c) /\ TakeShape(s)
        /\ EndSeen /\ run["X"] # "ending"
        /\ s.press.pedal = "rec" => s.press.was # "take"
        /\ run' = run \/ s.st = "idle"
    BY <1>1, <2>1, <2>2, SameShape, Stored DEF Starts, StartsFrom, Settled
  <2>4. /\ fl'.press = s.press
        /\ s.st = "idle" => due' = NoDue
    BY <1>1, <2>3, PrepareDoes
  <2>5. CASE due'.rec = "X"
    BY <1>1, <2>1, <2>3, <2>4, <2>5, PrepareAuth DEF NoDue
  <2>6. CASE due'.rec # "X"
    <3>1. late' = late
      BY <2>3, <2>6 DEF Prepare
    <3> QED
      BY <2>3, <2>4, <3>1
  <2> QED
    BY <2>5, <2>6
<1>5. CASE RecDown
  BY <1>3, <1>4, <1>5, RecDownDoes DEF Frame
<1>6. CASE PlayDown
  BY <1>3, <1>4, <1>6, PlayDownDoes DEF Frame
<1>7. CASE UndoDown
  BY <1>3, <1>7, UndoDownDoes DEF Undone
<1>8. CASE EndDown \/ PedalUp \/ PatternLands \/ ClearAll \/ BankLands
  BY <1>3, <1>8, OtherPressDoes
<1>9. CASE Start
  BY <1>4, <1>9, StartDoes
<1>10. CASE UNCHANGED vars \/ Stop \/ \E r \in Buffers : RecorderDone(r)
  <2>1. UNCHANGED <<fl, late>>
    BY <1>10 DEF vars, engine, history, Stop, RecorderDone
  <2> QED
    BY <1>1, <2>1
<1>11. CASE UiTick
  BY <1>1, <1>11, UiPress DEF NoPress
<1>12. CASE SeqStep
  BY <1>12, StepLate
<1> QED
  BY <1>5, <1>6, <1>7, <1>8, <1>9, <1>10, <1>11, <1>12 DEF Next

(* The stray guard stops no recording of FREE LOOP's own that starts in    *)
(* time and is let through after the last one's end was seen, for every    *)
(* setting, loop length and length of a step.                              *)
THEOREM OwnNotStray == Apart => (FreeSpec => []OwnRecordingIsNotStray)
<1>1. Init => GuardInv
  BY StrayInit DEF GuardInv, StrayInv
<1>2. GuardInv /\ Apart /\ [Next]_vars => GuardInv'
  <2> SUFFICES ASSUME GuardInv, Apart, [Next]_vars PROVE GuardInv'
    OBVIOUS
  <2>1. PressInv' /\ (late => late' \/ (Authorised' /\ Prepared' /\ TakeRuns'))
    BY PressNext DEF GuardInv
  <2>2. ~late => late' \/ (Authorised' /\ Prepared' /\ TakeRuns')
    BY StrayNext DEF GuardInv
  <2> QED
    BY <2>1, <2>2 DEF GuardInv, StrayInv
<1>3. GuardInv => OwnRecordingIsNotStray
  BY AuthFacts DEF GuardInv, StrayInv, Authorised, OwnRecordingIsNotStray
<1>4. Apart => []Apart
  OBVIOUS
<1> QED
  BY <1>1, <1>2, <1>3, <1>4, PTL DEF FreeSpec

-----------------------------------------------------------------------------
(***************************************************************************)
(* The two buffers of a track hold its two loops.                          *)
(***************************************************************************)

(* The UNDO buffer, once recorded into, holds another loop than the        *)
(* track's own; UNDO TO's loop is the one that was marked; a pass that is  *)
(* under way has left its loop; without an UNDO buffer there is one slot.  *)
TwoLoops ==
  /\ Sound(fl, c, buf["Y"] = Empty)
  /\ c.ubuf \/ lane = "X"
  /\ buf["Y"] # Empty => buf["X"] # buf["Y"]
  /\ fl.rec # "none" /\ due = NoDue /\ playing => buf[fl.rec] # Empty
  /\ run["Y"] # "off" => buf["Y"] # Empty \/ (fl.rec = "none" /\ fl.anchorN = 0)
  /\ Marks(fl, c) => buf[fl.anchorAt] = nth /\ nth # Empty

HistInv == StrayInv /\ TwoLoops

(* The steps of LoopHistory.                                               *)
Moves ==
  \/ Heard' = Heard /\ Back' = Back
  \/ Heard' \in Contents \ {Heard, Back} /\ Back' = Back
  \/ Heard' = Heard /\ Back' = Nothing
  \/ Heard' \in Contents \ {Heard} /\ Back' \in {Heard, Nothing}
  \/ Back # Nothing /\ Heard' = Back /\ Back' = Heard
  \/ Heard' = Empty /\ Back' = Nothing

LEMMA HistFacts ==
  ASSUME StrayInv
  PROVE  /\ FreeTypeOK /\ fl \in States /\ c \in Configs
         /\ fl.cur \in Buffers /\ fl.rec \in {"none"} \cup Buffers
         /\ fl.anchorAt \in Buffers
         /\ HeardIn(fl) \in Buffers /\ BackIn(fl) \in {"none"} \cup Buffers
         /\ buf["X"] \in Contents \cup {Empty}
         /\ buf["Y"] \in Contents \cup {Empty}
         /\ Heard = buf[HeardIn(fl)]
         /\ Back = IF BackIn(fl) = "none" THEN Nothing ELSE buf[BackIn(fl)]
<1>1. FreeTypeOK /\ fl \in States /\ c \in Configs
  BY SettingsFact DEF StrayInv, PressInv, LoopInv, FreeTypeOK
<1>2. /\ fl.cur \in Buffers /\ fl.rec \in {"none"} \cup Buffers
      /\ fl.anchorAt \in Buffers /\ fl.valid \in BOOLEAN
  BY <1>1, Fields
<1>3. HeardIn(fl) \in Buffers /\ BackIn(fl) \in {"none"} \cup Buffers
  BY <1>2, FlipFacts DEF HeardIn, BackIn
<1>4. Heard = buf[HeardIn(fl)]
  BY DEF Heard, HeardIn
<1>5. Back = IF BackIn(fl) = "none" THEN Nothing ELSE buf[BackIn(fl)]
  BY <1>2 DEF Back, BackIn, Flip, Buffers
<1>6. buf["X"] \in Contents \cup {Empty} /\ buf["Y"] \in Contents \cup {Empty}
  BY <1>1 DEF FreeTypeOK, Buffers
<1> QED
  BY <1>1, <1>2, <1>3, <1>4, <1>5, <1>6

LEMMA HistFactsNext ==
  ASSUME StrayInv'
  PROVE  /\ FreeTypeOK' /\ fl' \in States
         /\ fl'.cur \in Buffers /\ fl'.rec \in {"none"} \cup Buffers
         /\ HeardIn(fl') \in Buffers /\ BackIn(fl') \in {"none"} \cup Buffers
         /\ Heard' = buf'[HeardIn(fl')]
         /\ Back' = IF BackIn(fl') = "none" THEN Nothing ELSE buf'[BackIn(fl')]
<1>1. FreeTypeOK' /\ fl' \in States
  BY DEF StrayInv, PressInv, LoopInv, FreeTypeOK
<1>2. /\ fl'.cur \in Buffers /\ fl'.rec \in {"none"} \cup Buffers
      /\ fl'.valid \in BOOLEAN
  BY <1>1, Fields
<1>3. HeardIn(fl') \in Buffers /\ BackIn(fl') \in {"none"} \cup Buffers
  BY <1>2, FlipFacts DEF HeardIn, BackIn
<1>4. Heard' = buf'[HeardIn(fl')]
  BY DEF Heard, HeardIn
<1>5. Back' = IF BackIn(fl') = "none" THEN Nothing ELSE buf'[BackIn(fl')]
  BY <1>2 DEF Back, BackIn, Flip, Buffers
<1> QED
  BY <1>1, <1>2, <1>3, <1>4, <1>5

(* The buffers as they are, UNDO or REDO at most.                          *)
LEMMA MovedHist ==
  ASSUME HistInv, StrayInv', Moved(fl, fl', c), UNCHANGED cfg,
         \A r \in Buffers : buf'[r] = buf[r],
         fl'.rec \in {"none", fl.rec}, c.ubuf \/ lane' = "X",
         due' = NoDue /\ playing' => due = NoDue /\ playing,
         run'["Y"] # "off" => run["Y"] # "off",
         nth' = nth \/ nth' = Marked(fl')
  PROVE  TwoLoops' /\ Moves
<1>1. StrayInv /\ TwoLoops
  BY DEF HistInv
<1>2. c' = c /\ (buf'["Y"] = Empty) = (buf["Y"] = Empty)
  BY Stored DEF c, Buffers
<1>3. /\ Sound(fl', c, buf["Y"] = Empty)
      /\ SameHistory(fl, fl') \/ Swaps(fl, fl')
  <2>1. (buf["Y"] = Empty) \in BOOLEAN
    OBVIOUS
  <2> QED
    BY <1>1, <2>1 DEF TwoLoops, Moved
<1>4. SameAnchor(fl, fl')
  BY <1>3 DEF SameHistory, Swaps
<1>5. Marks(fl', c) => Marks(fl, c) /\ nth' = nth
  BY <1>4 DEF Marks, SameAnchor, Marked
<1>6. /\ buf'["X"] = buf["X"] /\ buf'["Y"] = buf["Y"]
      /\ fl.anchorAt \in Buffers
  BY <1>1, HistFacts DEF Buffers
<1>7. TwoLoops'
  <2>1. Sound(fl', c', buf'["Y"] = Empty)
    BY <1>2, <1>3
  <2>2. Marks(fl', c') => buf'[fl'.anchorAt] = nth' /\ nth' # Empty
    BY <1>1, <1>2, <1>4, <1>5, <1>6 DEF TwoLoops, SameAnchor
  <2>3. fl'.rec # "none" /\ due' = NoDue /\ playing' => buf'[fl'.rec] # Empty
    BY <1>1, HistFacts DEF TwoLoops
  <2>4. run'["Y"] # "off" =>
          buf'["Y"] # Empty \/ (fl'.rec = "none" /\ fl'.anchorN = 0)
    BY <1>1, <1>4, <1>6 DEF TwoLoops, SameAnchor
  <2> QED
    BY <1>1, <1>2, <1>6, <2>1, <2>2, <2>3, <2>4 DEF TwoLoops
<1>8. Moves
  <2>1. /\ HeardIn(fl) \in Buffers /\ BackIn(fl) \in {"none"} \cup Buffers
        /\ Heard = buf[HeardIn(fl)]
        /\ Back = IF BackIn(fl) = "none" THEN Nothing ELSE buf[BackIn(fl)]
        /\ \A r \in Buffers : buf[r] # Nothing
    BY <1>1, HistFacts, ContentsAssumption DEF Buffers
  <2>2. /\ HeardIn(fl') \in Buffers /\ BackIn(fl') \in {"none"} \cup Buffers
        /\ Heard' = buf'[HeardIn(fl')]
        /\ Back' = IF BackIn(fl') = "none" THEN Nothing ELSE buf'[BackIn(fl')]
    BY HistFactsNext
  <2>3. CASE SameHistory(fl, fl')
    <3>1. Heard' = Heard /\ Back' = Back
      BY <2>1, <2>2, <2>3 DEF SameHistory
    <3> QED
      BY <3>1 DEF Moves
  <2>4. CASE Swaps(fl, fl')
    <3>1. Back # Nothing /\ Heard' = Back /\ Back' = Heard
      BY <2>1, <2>2, <2>4, Stored DEF Swaps, Buffers
    <3> QED
      BY <3>1 DEF Moves
  <2> QED
    BY <1>3, <2>3, <2>4
<1> QED
  BY <1>7, <1>8

(* A clear.                                                                *)
LEMMA WipedHist ==
  ASSUME HistInv, StrayInv', Wiped(fl'), UNCHANGED cfg,
         buf'["X"] = Empty, buf'["Y"] \in {Empty, buf["Y"]},
         c.ubuf \/ lane' = "X"
  PROVE  TwoLoops' /\ Moves
<1>1. StrayInv /\ TwoLoops /\ c' = c /\ c \in Configs
  BY HistFacts DEF HistInv, c
<1>2. /\ Sound(fl', c', buf'["Y"] = Empty) /\ HeardIn(fl') = "X"
      /\ BackIn(fl') = "none" /\ ~Marks(fl', c')
  BY <1>1, ClearedSound DEF Wiped
<1>3. TwoLoops'
  BY <1>1, <1>2 DEF TwoLoops, Wiped
<1>4. Heard' = Empty /\ Back' = Nothing
  BY <1>2, HistFactsNext
<1> QED
  BY <1>3, <1>4 DEF Moves

-----------------------------------------------------------------------------
LEMMA NoneStarts ==
  ASSUME FreeTypeOK, NEW s \in States, NEW q, Shape(s, c), TakeShape(s),
         Prepare(s, q), due' = NoDue
  PROVE  fl'.rec = "none"
<1>1. c \in Configs
  BY SettingsFact
<1>2. PICK g :
        /\ g = Gate(s, c)
        /\ IF s.st \in {"armed", "overdub"}
           THEN IF c.ubuf THEN g.fires = g.s.rec /\ g.fires \in Buffers
                          ELSE g.fires = "X" /\ g.s.rec = "none"
           ELSE g.fires = "none" /\ g.s = PassOver(s, c)
  BY <1>1, GateDoes
<1>3. /\ fl' = g.s
      /\ due' = IF g.fires = "none" THEN NoDue
                ELSE [rec |-> g.fires,
                      kind |-> IF c.ubuf /\ ~g.s.inplace THEN "pass"
                               ELSE "inplace"]
  BY <1>2 DEF Prepare
<1>4. g.fires \notin Buffers
  BY <1>3 DEF NoDue, Buffers
<1> QED
  BY <1>2, <1>3, <1>4, PassOverDoes DEF Buffers

(* The gate at the first step, from engine state s: a pass over becomes    *)
(* the track's loop, and the next one may leave nothing to go back to.     *)
LEMMA PrepareHist ==
  ASSUME HistInv, StrayInv', NEW s \in States, NEW q, Prepare(s, q),
         Shape(s, c), TakeShape(s), SameLoop(fl, s),
         Sound(s, c, buf["Y"] = Empty),
         Marks(s, c) => SameAnchor(fl, s) \/ buf[s.anchorAt] # Empty,
         fl.rec # "none" => buf[fl.rec] # Empty,
         run'["Y"] # "off" => buf["Y"] # Empty,
         UNCHANGED <<cfg, buf, lane>>
  PROVE  TwoLoops' /\ Moves
<1>1. /\ StrayInv /\ TwoLoops /\ c' = c /\ c \in Configs /\ FreeTypeOK
      /\ fl \in States
      /\ buf["X"] \in Contents \cup {Empty} /\ buf["Y"] \in Contents \cup {Empty}
      /\ fl.rec \in {"none"} \cup Buffers
  BY HistFacts DEF HistInv, c
<1>2. s.rec # "none" => buf["Y"] # Empty
  BY <1>1 DEF Sound, Buffers, SameLoop
<1>3. /\ Sound(fl', c, buf["Y"] = Empty)
      /\ IF s.rec = "none"
         THEN /\ HeardIn(fl') = HeardIn(s)
              /\ BackIn(fl') \in {BackIn(s), "none"}
         ELSE /\ HeardIn(fl') = s.rec
              /\ BackIn(fl') \in {Flip(s.rec), "none"}
              /\ s.inplace => HeardIn(s) = s.rec /\ BackIn(s) = Flip(s.rec)
              /\ ~s.inplace => HeardIn(s) = Flip(s.rec)
      /\ Marks(fl', c) => \/ SameAnchor(s, fl')
                          \/ s.rec # "none" /\ fl'.anchorAt = s.rec
  <2>1. fl' = Gate(s, c).s
    BY DEF Prepare
  <2>2. (buf["Y"] = Empty) \in BOOLEAN
    OBVIOUS
  <2> QED
    BY <1>1, <1>2, <2>1, <2>2, GateSound
<1>4. HeardIn(s) = HeardIn(fl) /\ BackIn(s) = BackIn(fl)
  BY DEF SameLoop, HeardIn, BackIn
<1>5. nth' = Marked(fl')
  BY DEF Prepare
<1>6. Marks(fl', c) => buf[fl'.anchorAt] = nth' /\ nth' # Empty
  <2>1. Marks(fl', c) => SameAnchor(fl, fl') \/ buf[fl'.anchorAt] # Empty
    BY <1>3 DEF SameAnchor, Marks, SameLoop
  <2>2. CASE Marks(fl', c) /\ SameAnchor(fl, fl')
    <3>1. Marks(fl, c) /\ fl'.anchorN # 0
      BY <2>2 DEF Marks, SameAnchor
    <3>2. nth' = nth
      BY <1>5, <2>2, <3>1 DEF Marked, SameAnchor
    <3> QED
      BY <1>1, <2>2, <3>1, <3>2 DEF TwoLoops, SameAnchor
  <2>3. CASE Marks(fl', c) /\ ~SameAnchor(fl, fl')
    <3>1. fl'.anchorN # 0
      BY <2>3 DEF Marks
    <3>2. nth' = buf[fl'.anchorAt]
      BY <1>5, <2>3, <3>1 DEF Marked, SameAnchor
    <3> QED
      BY <2>1, <2>3, <3>2
  <2> QED
    BY <2>2, <2>3
<1>7. due' = NoDue => fl'.rec = "none"
  BY <1>1, NoneStarts
<1>8. TwoLoops'
  BY <1>1, <1>3, <1>6, <1>7 DEF TwoLoops
<1>9. Moves
  <2>1. /\ HeardIn(fl) \in Buffers /\ BackIn(fl) \in {"none"} \cup Buffers
        /\ Heard = buf[HeardIn(fl)]
        /\ Back = IF BackIn(fl) = "none" THEN Nothing ELSE buf[BackIn(fl)]
    BY <1>1, HistFacts
  <2>2. /\ Heard' = buf[HeardIn(fl')]
        /\ Back' = IF BackIn(fl') = "none" THEN Nothing ELSE buf[BackIn(fl')]
    BY HistFactsNext
  <2>3. CASE s.rec = "none" \/ s.inplace
    <3>1. /\ HeardIn(fl') = HeardIn(fl)
          /\ BackIn(fl') \in {BackIn(fl), "none"}
      BY <1>3, <1>4, <2>3
    <3>2. Heard' = Heard /\ Back' \in {Back, Nothing}
      BY <2>1, <2>2, <3>1
    <3> QED
      BY <3>2 DEF Moves
  <2>4. CASE s.rec # "none" /\ ~s.inplace
    <3>1. s.rec \in Buffers /\ s.rec = fl.rec
      BY <1>1, <2>4 DEF SameLoop
    <3>2. /\ Heard' = buf[s.rec] /\ Heard = buf[Flip(s.rec)]
          /\ Back' \in {Heard, Nothing}
      BY <1>3, <1>4, <2>1, <2>2, <2>4
    <3>3. buf[s.rec] # Empty /\ buf[s.rec] # buf[Flip(s.rec)]
      BY <1>1, <1>2, <2>4, <3>1 DEF TwoLoops, Flip, Buffers
    <3>4. Heard' \in Contents \ {Heard}
      BY <1>1, <3>1, <3>2, <3>3 DEF Buffers
    <3> QED
      BY <3>2, <3>4 DEF Moves
  <2> QED
    BY <2>3, <2>4
<1> QED
  BY <1>8, <1>9

(* The sequencer starts.                                                   *)
LEMMA StartsHist ==
  ASSUME HistInv, StrayInv', NEW s, StartsFrom(s), UNCHANGED <<cfg, lane>>
  PROVE  TwoLoops' /\ Moves
<1>1. /\ StrayInv /\ TwoLoops /\ c \in Configs /\ FreeTypeOK /\ LoopInv
      /\ fl.cur \in Buffers
  BY HistFacts DEF HistInv, StrayInv, PressInv
<1>2. /\ s \in States /\ Settled /\ SameLoop(fl, s) /\ s.rec = "none"
      /\ TakeShape(s) /\ UNCHANGED buf
      /\ \/ UNCHANGED run /\ SameAnchor(fl, s)
         \/ /\ run' = StopRecorder("X", run) /\ fl.st = "take"
            /\ IF c.undoto = 1 THEN s.anchorN = 1 /\ s.anchorAt = s.cur
                               ELSE s.anchorN = 0
  BY DEF StartsFrom
<1>3. fl.rec = "none" /\ s.cur = fl.cur
  BY <1>2 DEF SameLoop
<1>4. run'["Y"] = "off"
  <2>1. run["Y"] = "off"
    BY <1>1, <1>2, Stored DEF Settled, LoopInv, Recorders, Buffers
  <2> QED
    BY <1>1, <1>2, <2>1 DEF StopRecorder, LoopInv, FreeTypeOK, Buffers
<1>5. Shape(s, c)
  BY <1>1, <1>2, SameShape DEF LoopInv, Passes
<1>6. ~SameAnchor(fl, s) /\ Marks(s, c) =>
        s.anchorAt = s.cur /\ buf[s.cur] # Empty
  <2>1. SUFFICES ASSUME ~SameAnchor(fl, s), Marks(s, c)
                 PROVE  s.anchorAt = s.cur /\ buf[s.cur] # Empty
    OBVIOUS
  <2>2. /\ fl.st = "take"
        /\ IF c.undoto = 1 THEN s.anchorN = 1 /\ s.anchorAt = s.cur
                           ELSE s.anchorN = 0
    BY <1>2, <2>1
  <2>3. s.anchorAt = s.cur
    BY <2>1, <2>2 DEF Marks
  <2>4. buf["X"] # Empty
    BY <1>1, <2>2 DEF StrayInv, TakeRuns, LoopInv, RecordedIsFull
  <2>5. s.cur = "Y" => buf["Y"] # Empty
    BY <1>1, <1>3 DEF TwoLoops, Sound
  <2> QED
    BY <1>1, <1>3, <2>3, <2>4, <2>5 DEF Buffers
<1>7. Sound(s, c, buf["Y"] = Empty)
  <2>1. CASE SameAnchor(fl, s)
    BY <1>1, <1>2, <2>1, SameSound DEF TwoLoops
  <2>2. CASE ~SameAnchor(fl, s)
    BY <1>1, <1>2, <1>3, <1>5, <1>6, <2>2 DEF TwoLoops, Sound, SameLoop
  <2> QED
    BY <2>1, <2>2
<1>8. PICK q : Prepare(s, q)
  BY DEF StartsFrom, Starts
<1> QED
  BY <1>2, <1>3, <1>4, <1>5, <1>6, <1>7, <1>8, PrepareHist

-----------------------------------------------------------------------------
(* A free take is recorded into the empty buffer of a track with no loop.  *)
LEMMA TakesHist ==
  ASSUME HistInv, StrayInv', Takes, UNCHANGED <<cfg, lane>>
  PROVE  TwoLoops' /\ Moves
<1>1. /\ StrayInv /\ TwoLoops /\ c \in Configs /\ FreeTypeOK /\ LoopInv
      /\ fl.cur \in Buffers /\ c' = c
  BY HistFacts DEF HistInv, StrayInv, PressInv, c
<1>2. fl.rec = "none" /\ buf[fl.cur] = Empty /\ run["Y"] = "off"
  <2>1. fl.rec = "none" /\ run["Y"] = "off"
    BY <1>1, SettledFacts DEF Takes, Buffers
  <2> QED
    BY <2>1 DEF Takes, Refreshed
<1>3. fl.cur = "X"
  BY <1>1, <1>2 DEF TwoLoops, Sound, Buffers
<1>4. Fresh \in Contents /\ Fresh \notin {buf["X"], buf["Y"], nth, Empty}
  BY <1>1, FreshFacts
<1>5. /\ buf'["X"] = Fresh /\ buf'["Y"] = buf["Y"] /\ run'["Y"] = "off"
      /\ SameLoop(fl, fl') /\ SameAnchor(fl, fl') /\ UNCHANGED <<due, nth>>
  BY <1>1, <1>2, Stored DEF Takes, FreeTypeOK, Buffers
<1>6. /\ Sound(fl', c, buf["Y"] = Empty) /\ SameHistory(fl, fl')
  BY <1>1, <1>5, SameSound DEF TwoLoops
<1>7. Marks(fl', c) => buf'[fl'.anchorAt] = nth' /\ nth' # Empty
  <2>1. SUFFICES ASSUME Marks(fl', c)
                 PROVE  buf'[fl'.anchorAt] = nth' /\ nth' # Empty
    OBVIOUS
  <2>2. Marks(fl, c) /\ fl'.anchorAt = fl.anchorAt
    BY <1>5, <2>1 DEF Marks, SameAnchor
  <2>3. buf[fl.anchorAt] = nth /\ nth # Empty /\ fl.anchorAt \in Buffers
    BY <1>1, <2>2, HistFacts DEF TwoLoops
  <2>4. fl.anchorAt = "Y"
    BY <1>2, <1>3, <2>3 DEF Buffers
  <2> QED
    BY <1>5, <2>2, <2>3, <2>4
<1>8. TwoLoops'
  BY <1>1, <1>2, <1>4, <1>5, <1>6, <1>7 DEF TwoLoops, SameLoop
<1>9. Heard' \in Contents \ {Heard, Back} /\ Back' = Back
  <2>1. /\ HeardIn(fl) = "X" /\ BackIn(fl) \in {"none", "Y"}
    BY <1>2, <1>3 DEF HeardIn, BackIn, Flip
  <2>2. /\ Heard = buf["X"]
        /\ Back = IF BackIn(fl) = "none" THEN Nothing ELSE buf["Y"]
    BY <1>1, <2>1, HistFacts
  <2>3. /\ Heard' = buf'["X"]
        /\ Back' = IF BackIn(fl) = "none" THEN Nothing ELSE buf'["Y"]
    BY <1>6, <2>1, HistFactsNext DEF SameHistory
  <2>4. Fresh # Nothing
    BY <1>4, ContentsAssumption
  <2> QED
    BY <1>4, <1>5, <2>2, <2>3, <2>4
<1> QED
  BY <1>8, <1>9 DEF Moves

(* A buffer filled as its recorder ends was no loop of the track.          *)
LEMMA LeaveHist ==
  ASSUME HistInv, NEW ends
  PROVE  /\ Leave(ends)["X"] = IF "X" \in ends /\ buf["X"] = Empty THEN Fresh
                               ELSE buf["X"]
         /\ Leave(ends)["Y"] = IF "Y" \in ends /\ buf["Y"] = Empty THEN Fresh
                               ELSE buf["Y"]
BY Stored DEF Leave, Buffers

LEMMA RecorderDoneHist ==
  ASSUME HistInv, StrayInv', NEW r \in Buffers, RecorderDone(r)
  PROVE  TwoLoops' /\ Moves
<1>1. /\ StrayInv /\ TwoLoops /\ c \in Configs /\ FreeTypeOK /\ LoopInv
      /\ fl.cur \in Buffers /\ c' = c /\ fl \in States
  BY HistFacts DEF HistInv, StrayInv, PressInv, RecorderDone, c
<1>2. /\ run[r] # "off" /\ run' = [run EXCEPT ![r] = "off"]
      /\ buf' = Leave({r})
      /\ UNCHANGED <<cfg, fl, playing, due, lane, nth>>
  BY DEF RecorderDone, Pass, engine
<1>3. /\ run'["Y"] # "off" => run["Y"] # "off"
      /\ buf["X"] = Empty => r # "X"
  BY <1>1, <1>2, Stored DEF LoopInv, RecordedIsFull, FreeTypeOK
<1>4. CASE r = "Y" /\ buf["Y"] = Empty
  <2>1. /\ buf'["X"] = buf["X"] /\ buf'["Y"] = Fresh
        /\ run'["Y"] = "off"
    BY <1>1, <1>2, <1>4, LeaveHist, Stored DEF FreeTypeOK, Buffers
  <2>2. Fresh \notin {buf["X"], Empty}
    BY <1>1, FreshFacts
  <2>3. fl.rec = "none" /\ fl.anchorN = 0
    BY <1>1, <1>2, <1>4 DEF TwoLoops
  <2>4. fl.cur = "X" /\ ~fl.valid
    BY <1>1, <1>4, <2>3 DEF TwoLoops, Sound
  <2>5. ~Marks(fl, c) /\ HeardIn(fl) = "X" /\ BackIn(fl) = "none"
    BY <2>3, <2>4 DEF Marks, HeardIn, BackIn
  <2>6. Sound(fl, c, FALSE)
    BY <1>1 DEF TwoLoops, Sound
  <2>7. TwoLoops'
    BY <1>1, <1>2, <2>1, <2>2, <2>3, <2>5, <2>6 DEF TwoLoops
  <2>8. Heard' = Heard /\ Back' = Back
    BY <1>1, <1>2, <2>1, <2>5, HistFacts, HistFactsNext
  <2> QED
    BY <2>7, <2>8 DEF Moves
<1>5. CASE ~(r = "Y" /\ buf["Y"] = Empty)
  <2>1. \A b \in Buffers : buf'[b] = buf[b]
    BY <1>2, <1>3, <1>5, LeaveHist DEF Buffers
  <2>2. Moved(fl, fl', c) /\ fl'.rec \in {"none", fl.rec}
    BY <1>2, SelfMoved
  <2>3. c.ubuf \/ lane' = "X"
    BY <1>1, <1>2 DEF TwoLoops
  <2> QED
    BY <1>2, <1>3, <2>1, <2>2, <2>3, MovedHist
<1> QED
  BY <1>4, <1>5

LEMMA LoopBeginsHist ==
  ASSUME HistInv, StrayInv', SeqStep, LoopBegins
  PROVE  TwoLoops' /\ Moves
<1> DEFINE ends == {r \in Buffers : Pass(r) /\ due.rec # r}
<1>1. /\ StrayInv /\ TwoLoops /\ c \in Configs /\ FreeTypeOK /\ LoopInv
      /\ fl.cur \in Buffers /\ c' = c /\ fl \in States
      /\ fl.rec \in {"none"} \cup Buffers
  BY HistFacts DEF HistInv, StrayInv, PressInv, SeqStep, c
<1>2. /\ SameLoop(fl, fl') /\ SameAnchor(fl, fl')
      /\ playing /\ playing' /\ due' = NoDue
      /\ UNCHANGED <<cfg, lane, nth>>
      /\ run'["Y"] = IF due.rec = "Y" THEN due.kind
                     ELSE IF "Y" \in ends THEN "off" ELSE run["Y"]
      /\ buf'["X"] = IF due.rec = "X" THEN Fresh ELSE Leave(ends)["X"]
      /\ buf'["Y"] = IF due.rec = "Y" THEN Fresh ELSE Leave(ends)["Y"]
  <2>1. /\ SameLoop(fl, fl') /\ SameAnchor(fl, fl')
        /\ playing /\ playing' /\ due' = NoDue
        /\ UNCHANGED <<cfg, lane, nth>>
    BY <1>1, TogglesDoes DEF SeqStep, LoopBegins
  <2>2. run' = [r \in Buffers |-> CASE r = due.rec -> due.kind
                                    [] r \in ends -> "off"
                                    [] OTHER -> run[r]]
    BY DEF LoopBegins
  <2>3. buf' = [r \in Buffers |-> IF r = due.rec THEN Fresh
                                  ELSE Leave(ends)[r]]
    BY DEF LoopBegins
  <2>4. "Y" \in Buffers
    BY DEF Buffers
  <2> HIDE DEF ends
  <2>5. run'["Y"] = IF due.rec = "Y" THEN due.kind
                    ELSE IF "Y" \in ends THEN "off" ELSE run["Y"]
    <3>1. CASE due.rec = "Y"
      BY <2>2, <2>4, <3>1, Zenon DEF ends
    <3>2. CASE due.rec # "Y" /\ "Y" \in ends
      BY <2>2, <2>4, <3>2
    <3>3. CASE due.rec # "Y" /\ "Y" \notin ends
      BY <2>2, <2>4, <3>3
    <3> QED
      BY <3>1, <3>2, <3>3
  <2>6. /\ buf'["X"] = IF due.rec = "X" THEN Fresh ELSE Leave(ends)["X"]
        /\ buf'["Y"] = IF due.rec = "Y" THEN Fresh ELSE Leave(ends)["Y"]
    BY <2>3, <2>4, Stored
  <2> QED
    BY <2>1, <2>5, <2>6
<1>3. Fresh \in Contents /\ Fresh \notin {buf["X"], buf["Y"], nth, Empty}
      /\ Fresh # Nothing
  BY <1>1, FreshFacts, ContentsAssumption
<1>4. due # NoDue =>
        /\ due.rec \in Buffers
        /\ IF c.ubuf THEN fl.rec = due.rec ELSE due.rec = "X"
  BY <1>1 DEF LoopInv, Window
<1>5. ~("X" \in ends /\ buf["X"] = Empty)
  BY <1>1 DEF LoopInv, RecordedIsFull, Pass
<1>6. "Y" \in ends /\ buf["Y"] = Empty =>
        /\ c.ubuf /\ fl.rec = "none" /\ fl.anchorN = 0 /\ due = NoDue
  <2>1. SUFFICES ASSUME "Y" \in ends, buf["Y"] = Empty
                 PROVE  /\ c.ubuf /\ fl.rec = "none" /\ fl.anchorN = 0
                        /\ due = NoDue
    OBVIOUS
  <2>2. Pass("Y") /\ run["Y"] # "off"
    BY <2>1 DEF Pass
  <2>3. c.ubuf
    BY <1>1, <2>2 DEF LoopInv, Recorders, Buffers
  <2>4. fl.rec = "none" /\ fl.anchorN = 0
    BY <1>1, <2>1, <2>2 DEF TwoLoops
  <2> QED
    BY <1>4, <2>3, <2>4 DEF Buffers
<1>7. NoDue.rec \notin Buffers
  BY DEF NoDue, Buffers
<1> HIDE DEF ends
<1>8. /\ Sound(fl', c, buf["Y"] = Empty) /\ SameHistory(fl, fl')
      /\ Sound(fl', c, FALSE)
  <2>1. /\ Sound(fl', c, buf["Y"] = Empty) /\ SameHistory(fl, fl')
    BY <1>1, <1>2, SameSound DEF TwoLoops
  <2> QED
    BY <2>1 DEF Sound
<1>9. /\ HeardIn(fl) \in Buffers /\ BackIn(fl) \in {"none"} \cup Buffers
      /\ Heard = buf[HeardIn(fl)]
      /\ Back = IF BackIn(fl) = "none" THEN Nothing ELSE buf[BackIn(fl)]
      /\ Heard' = buf'[HeardIn(fl)]
      /\ Back' = IF BackIn(fl) = "none" THEN Nothing ELSE buf'[BackIn(fl)]
  BY <1>1, <1>8, HistFacts, HistFactsNext DEF SameHistory
<1>10. Marks(fl', c) => Marks(fl, c) /\ fl'.anchorAt = fl.anchorAt
                        /\ fl.anchorAt \in Buffers /\ fl.anchorN # 0
                        /\ buf[fl.anchorAt] = nth /\ nth # Empty
  BY <1>1, <1>2, HistFacts DEF Marks, SameAnchor, TwoLoops
<1>11. CASE due = NoDue
  <2>1. /\ buf'["X"] = buf["X"]
        /\ buf'["Y"] = IF "Y" \in ends /\ buf["Y"] = Empty THEN Fresh
                       ELSE buf["Y"]
    BY <1>1, <1>2, <1>5, <1>7, <1>11, HistFacts, LeaveHist DEF Buffers, HistInv
  <2>2. run'["Y"] = IF "Y" \in ends THEN "off" ELSE run["Y"]
    BY <1>2, <1>7, <1>11 DEF Buffers
  <2>3. CASE "Y" \in ends /\ buf["Y"] = Empty
    <3>1. fl.rec = "none" /\ fl.anchorN = 0 /\ fl.cur = "X" /\ ~fl.valid
      BY <1>1, <1>6, <2>3 DEF TwoLoops, Sound
    <3>2. HeardIn(fl) = "X" /\ BackIn(fl) = "none"
      BY <3>1 DEF HeardIn, BackIn
    <3>3. TwoLoops'
      BY <1>1, <1>2, <1>3, <1>8, <1>10, <2>1, <2>2, <2>3, <3>1
         DEF TwoLoops, SameLoop
    <3> QED
      BY <1>9, <2>1, <3>2, <3>3 DEF Moves
  <2>4. CASE ~("Y" \in ends /\ buf["Y"] = Empty)
    <3>1. \A b \in Buffers : buf'[b] = buf[b]
      BY <2>1, <2>4 DEF Buffers
    <3>2. Moved(fl, fl', c)
      BY <1>2, SelfMoved, SameMoved
    <3>3. c.ubuf \/ lane' = "X"
      BY <1>1, <1>2 DEF TwoLoops
    <3> QED
      BY <1>2, <1>11, <2>2, <3>1, <3>2, <3>3, MovedHist DEF SameLoop
  <2> QED
    BY <2>3, <2>4
<1>12. CASE due # NoDue
  <2>1. \A b \in Buffers : buf'[b] = IF b = due.rec THEN Fresh ELSE buf[b]
    BY <1>2, <1>5, <1>6, <1>12, LeaveHist DEF Buffers
  <2>2. fl.rec # "none" => fl.rec = due.rec
    BY <1>1, <1>4, <1>12 DEF LoopInv, Passes, Shape
  <2>3. Marks(fl, c) => fl.anchorAt # due.rec
    BY <1>1, <1>4, <1>7, <1>12 DEF TwoLoops, Sound, Marks, Buffers
  <2>4. Sound(fl', c, buf'["Y"] = Empty)
    BY <1>3, <1>8, <2>1, Stored DEF Buffers
  <2>5. fl'.rec # "none" => buf'[fl'.rec] # Empty
    BY <1>1, <1>2, <1>3, <2>1, <2>2 DEF SameLoop
  <2>6. run'["Y"] # "off" =>
          buf'["Y"] # Empty \/ (fl'.rec = "none" /\ fl'.anchorN = 0)
    <3>1. CASE due.rec = "Y"
      BY <1>3, <2>1, <3>1 DEF Buffers
    <3>2. CASE due.rec # "Y"
      BY <1>1, <1>2, <2>1, <3>2 DEF TwoLoops, SameLoop, SameAnchor, Buffers
    <3> QED
      BY <3>1, <3>2
  <2>7. buf'["Y"] # Empty => buf'["X"] # buf'["Y"]
    BY <1>1, <1>3, <1>4, <1>12, <2>1 DEF TwoLoops, Buffers
  <2>8. Marks(fl', c) => buf'[fl'.anchorAt] = nth' /\ nth' # Empty
    BY <1>2, <1>10, <2>1, <2>3
  <2>9. TwoLoops'
    BY <1>1, <1>2, <2>4, <2>5, <2>6, <2>7, <2>8 DEF TwoLoops
  <2>0. BackIn(fl) # due.rec
    <3>1. CASE ~fl.valid
      BY <1>4, <1>12, <3>1 DEF BackIn, Buffers
    <3>2. CASE fl.valid
      <4>1. c.ubuf /\ fl.rec = due.rec /\ fl.rec # "none"
        BY <1>1, <1>4, <1>12, <3>2 DEF TwoLoops, Sound, Buffers
      <4>2. fl.cur = fl.rec
        BY <1>1, <3>2, <4>1 DEF TwoLoops, Sound, Shape
      <4> QED
        BY <1>1, <3>2, <4>1, <4>2, FlipFacts DEF BackIn
    <3> QED
      BY <3>1, <3>2
  <2>10. CASE HeardIn(fl) = due.rec
    <3>1. Heard' \in Contents \ {Heard, Back} /\ Back' = Back
      BY <1>3, <1>9, <2>0, <2>1, <2>10 DEF Buffers
    <3> QED
      BY <2>9, <3>1 DEF Moves
  <2>11. CASE HeardIn(fl) # due.rec
    <3>1. Heard' = Heard /\ Back' = Back
      BY <1>9, <2>0, <2>1, <2>11
    <3> QED
      BY <2>9, <3>1 DEF Moves
  <2> QED
    BY <2>10, <2>11
<1> QED
  BY <1>11, <1>12

LEMMA SeqStepHist ==
  ASSUME HistInv, StrayInv', SeqStep
  PROVE  TwoLoops' /\ Moves
<1>1. /\ StrayInv /\ TwoLoops /\ LoopInv /\ fl \in States
      /\ run \in [Buffers -> Kinds]
      /\ Shape(fl, c) /\ TakeShape(fl) /\ fl.rec \in {"none"} \cup Buffers
  BY HistFacts
     DEF HistInv, StrayInv, PressInv, LoopInv, Passes, FreeTypeOK
<1>2. /\ playing /\ playing' /\ UNCHANGED <<cfg, lane>>
      /\ \A r \in Buffers : run[r] # "ending"
      /\ pos' = IF pos = L THEN 1 ELSE pos + 1
      /\ pos \in 0..L /\ L \in Nat /\ L > 1
  BY <1>1, LoopAssumption DEF SeqStep, LoopInv, FreeTypeOK
<1>3. CASE pos' = 1
  BY <1>3, LoopBeginsHist DEF SeqStep
<1>4. CASE pos' # 1
  <2>1. due = NoDue /\ pos # L
    BY <1>1, <1>2, <1>4 DEF StrayInv, Prepared
  <2>2. SameLoop(fl, fl) /\ SameAnchor(fl, fl)
    BY DEF SameLoop, SameAnchor
  <2>3. CASE pos' = L
    <3>1. Prepare(fl, qany) /\ UNCHANGED <<run, buf>>
      BY <1>4, <2>3 DEF SeqStep
    <3>2. fl.rec # "none" => buf[fl.rec] # Empty
      BY <1>1, <1>2, <2>1 DEF TwoLoops
    <3>3. run["Y"] # "off" => buf["Y"] # Empty
      <4>1. SUFFICES ASSUME run["Y"] # "off", fl.rec = "none"
                     PROVE  FALSE
        BY <1>1 DEF TwoLoops
      <4>2. Pass("Y")
        BY <1>1, <1>2, <4>1 DEF Pass, Kinds, Buffers, LoopInv, Recorders
      <4>3. "Y" \in Buffers /\ "Y" # "X"
        BY DEF Buffers
      <4> QED
        BY <1>1, <1>2, <2>1, <4>1, <4>2, <4>3 DEF LoopInv, Recorders
    <3>4. Marks(fl, c) => SameAnchor(fl, fl) \/ buf[fl.anchorAt] # Empty
      BY <2>2
    <3>5. Sound(fl, c, buf["Y"] = Empty)
      BY <1>1 DEF TwoLoops
    <3> QED
      BY <1>1, <1>2, <2>2, <3>1, <3>2, <3>3, <3>4, <3>5, PrepareHist
  <2>4. CASE pos' # L
    <3>1. UNCHANGED <<fl, due, run, buf, nth>>
      BY <1>4, <2>4 DEF SeqStep, history
    <3>2. c.ubuf \/ lane' = "X"
      BY <1>1, <1>2 DEF TwoLoops
    <3> QED
      BY <1>1, <1>2, <2>1, <3>1, <3>2, SelfMoved, MovedHist
  <2> QED
    BY <2>3, <2>4
<1> QED
  BY <1>3, <1>4

LEMMA UiTickHist ==
  ASSUME HistInv, StrayInv', Apart, UiTick
  PROVE  TwoLoops' /\ Moves
<1>1. /\ StrayInv /\ TwoLoops /\ LoopInv
      /\ buf["Y"] = buf["Y"] /\ (c.ubuf \/ lane = "X")
  BY DEF HistInv, StrayInv, PressInv, TwoLoops
<1>2. CASE UiHead
  <2>1. /\ UNCHANGED <<cfg, playing, due, lane>>
        /\ Trimmed(run') /\ nth' = Marked(fl') /\ fl'.rec \in {"none", fl.rec}
        /\ IF ClearsAll
           THEN Wiped(fl') /\ \A r \in Buffers : buf'[r] = Empty
           ELSE Moved(fl, fl', c) /\ \A r \in Buffers : buf'[r] = buf[r]
    BY <1>1, <1>2, UiHeadDoes
  <2>2. run'["Y"] # "off" => run["Y"] # "off"
    BY <2>1 DEF Trimmed, Buffers
  <2>3. CASE ClearsAll
    BY <1>1, <2>1, <2>3, WipedHist DEF Buffers
  <2>4. CASE ~ClearsAll
    BY <1>1, <2>1, <2>2, <2>4, MovedHist
  <2> QED
    BY <2>3, <2>4
<1>3. CASE \E long \in BOOLEAN : UiTrack(long)
  <2>1. PICK long \in BOOLEAN : UiTrack(long)
    BY <1>3
  <2>2. /\ UNCHANGED <<cfg, playing, due>>
        /\ Trimmed(run') /\ nth' = Marked(fl') /\ fl'.rec \in {"none", fl.rec}
        /\ lane' = IF c.ubuf THEN fl'.cur ELSE lane
        /\ \/ /\ Wiped(fl')
              /\ \A r \in Buffers :
                   buf'[r] = IF c.ubuf \/ r = lane THEN Empty ELSE buf[r]
           \/ Moved(fl, fl', c) /\ \A r \in Buffers : buf'[r] = buf[r]
    BY <1>1, <2>1, UiTrackDoes
  <2>3. run'["Y"] # "off" => run["Y"] # "off"
    BY <2>2 DEF Trimmed, Buffers
  <2>4. c.ubuf \/ lane' = "X"
    BY <1>1, <2>2
  <2>5. CASE /\ Wiped(fl')
             /\ \A r \in Buffers :
                  buf'[r] = IF c.ubuf \/ r = lane THEN Empty ELSE buf[r]
    <3>1. buf'["X"] = Empty /\ buf'["Y"] \in {Empty, buf["Y"]}
      BY <1>1, <2>5 DEF Buffers
    <3> QED
      BY <2>2, <2>4, <2>5, <3>1, WipedHist
  <2>6. CASE Moved(fl, fl', c) /\ \A r \in Buffers : buf'[r] = buf[r]
    BY <2>2, <2>3, <2>4, <2>6, MovedHist
  <2> QED
    BY <2>2, <2>5, <2>6
<1> QED
  BY <1>2, <1>3 DEF UiTick

LEMMA PressHist ==
  ASSUME HistInv, StrayInv', Apart,
         RecDown \/ PlayDown \/ UndoDown \/ EndDown \/ PedalUp
           \/ PatternLands \/ ClearAll \/ BankLands \/ Start \/ Stop
  PROVE  TwoLoops' /\ Moves
<1>1. StrayInv /\ (c.ubuf \/ lane = "X")
  BY DEF HistInv, TwoLoops
<1>0. PressInv
  BY <1>1 DEF StrayInv
<1>2. CASE PressOnly /\ UNCHANGED <<cfg, lane>>
  <2>1. /\ Moved(fl, fl', c) /\ fl'.rec \in {"none", fl.rec}
        /\ UNCHANGED <<buf, run, playing, due, nth>>
    BY <1>2, SelfMoved, SameMoved DEF PressOnly, SameLoop
  <2> QED
    BY <1>1, <1>2, <2>1, MovedHist
<1>3. CASE \E s : StartsFrom(s) /\ UNCHANGED <<cfg, lane>>
  BY <1>3, StartsHist
<1>4. CASE Takes /\ UNCHANGED <<cfg, lane>>
  BY <1>4, TakesHist
<1>5. CASE Undone /\ UNCHANGED <<cfg, lane>>
  <2>1. run'["Y"] # "off" => run["Y"] # "off"
    BY <1>5 DEF Undone, Trimmed, Buffers
  <2> QED
    BY <1>1, <1>5, <2>1, MovedHist DEF Undone
<1>6. CASE Stop
  <2>1. UNCHANGED <<cfg, fl, run, buf, lane, nth>> /\ ~playing'
    BY <1>6 DEF Stop, engine, history
  <2> QED
    BY <1>1, <2>1, SelfMoved, MovedHist
<1>7. CASE RecDown
  BY <1>1, <1>2, <1>3, <1>0, <1>4, <1>7, RecDownDoes DEF Frame
<1>8. CASE PlayDown
  BY <1>1, <1>2, <1>0, <1>3, <1>8, PlayDownDoes DEF Frame
<1>9. CASE UndoDown
  BY <1>1, <1>0, <1>5, <1>9, UndoDownDoes DEF Frame
<1>10. CASE EndDown \/ PedalUp \/ PatternLands \/ ClearAll \/ BankLands
  BY <1>1, <1>0, <1>2, <1>10, OtherPressDoes
<1>11. CASE Start
  BY <1>1, <1>0, <1>3, <1>11, StartDoes
<1> QED
  BY <1>6, <1>7, <1>8, <1>9, <1>10, <1>11

-----------------------------------------------------------------------------
LEMMA HistInit == Init => HistInv
<1> SUFFICES ASSUME Init PROVE HistInv
  OBVIOUS
<1>1. StrayInv
  BY StrayInit
<1>2. /\ fl = Zeroed /\ buf["X"] = Empty /\ buf["Y"] = Empty /\ lane = "X"
      /\ run["Y"] = "off"
  BY DEF Init, Buffers
<1>3. Wiped(fl)
  BY <1>2 DEF Wiped, Zeroed
<1>4. Sound(fl, c, TRUE) /\ ~Marks(fl, c)
  BY <1>1, <1>3, HistFacts, ClearedSound DEF Wiped
<1> QED
  BY <1>1, <1>2, <1>3, <1>4 DEF HistInv, TwoLoops, Wiped

(* No step outlasts the stray guard: what starts, starts in time.          *)
InTime == \A x \in Settings : ~x.slow

LEMMA TimeNext ==
  ASSUME StrayInv, Apart, InTime, [Next]_vars
  PROVE  StrayInv'
<1>1. /\ ~late /\ ~cfg.slow /\ PressInv
  BY DEF StrayInv, PressInv, LoopInv, FreeTypeOK, InTime
<1>2. PressInv' /\ (late' \/ (Authorised' /\ Prepared' /\ TakeRuns'))
  BY <1>1, PressNext, StrayNext
<1>3. ~late'
  <2>1. ASSUME NEW s, NEW q, Prepare(s, q) PROVE ~late'
    BY <1>1, <2>1 DEF Prepare
  <2>2. CASE UNCHANGED late
    BY <1>1, <2>2
  <2>3. CASE SeqStep
    <3>1. CASE LoopBegins
      BY <1>1, <3>1 DEF LoopBegins
    <3> QED
      BY <2>1, <2>2, <2>3, <3>1 DEF SeqStep, history
  <2>4. CASE Presses3
    <3>1. (\E s, q : Prepare(s, q)) \/ UNCHANGED late
      <4>1. ASSUME NEW r, NEW q, Perform(r, q)
            PROVE  (\E s, p : Prepare(s, p)) \/ UNCHANGED late
        BY <4>1 DEF Perform, Starts, history
      <4>2. CASE RecDown
        BY <4>1, <4>2 DEF RecDown
      <4>3. CASE PlayDown
        BY <4>1, <4>3 DEF PlayDown
      <4>4. CASE UndoDown
        BY <4>1, <4>4 DEF UndoDown
      <4>5. CASE EndDown
        BY <4>1, <4>5 DEF EndDown
      <4>6. CASE Start
        BY <4>6 DEF Start, Starts
      <4>7. CASE PedalUp \/ PatternLands \/ ClearAll \/ BankLands
        BY <4>7 DEF PedalUp, PatternLands, ClearAll, BankLands, history
      <4> QED
        BY <2>4, <4>2, <4>3, <4>4, <4>5, <4>6, <4>7 DEF Presses3
    <3> QED
      BY <2>1, <2>2, <3>1
  <2>5. CASE UNCHANGED vars
    BY <2>2, <2>5 DEF vars, history
  <2>6. CASE Stop
    BY <2>2, <2>6 DEF Stop, history
  <2>7. CASE UiTick
    <3>1. UNCHANGED late
      <4>1. CASE UiHead
        BY <4>1 DEF UiHead
      <4>2. ASSUME NEW long \in BOOLEAN, UiTrack(long) PROVE UNCHANGED late
        BY <4>2 DEF UiTrack
      <4> QED
        BY <2>7, <4>1, <4>2 DEF UiTick
    <3> QED
      BY <2>2, <3>1
  <2>8. CASE \E r \in Buffers : RecorderDone(r)
    <3>1. UNCHANGED late
      BY <2>8 DEF RecorderDone
    <3> QED
      BY <2>2, <3>1
  <2> QED
    BY <2>3, <2>4, <2>5, <2>6, <2>7, <2>8 DEF Next, Presses3
<1> QED
  BY <1>2, <1>3 DEF StrayInv

LEMMA HistNext ==
  ASSUME HistInv, Apart, InTime, [Next]_vars
  PROVE  HistInv' /\ Moves
<1>1. StrayInv /\ StrayInv'
  BY TimeNext DEF HistInv
<1>2. CASE UNCHANGED vars
  <2>1. /\ UNCHANGED <<cfg, fl, run, buf, lane, nth, due, playing>>
        /\ c.ubuf \/ lane = "X"
    BY <1>2 DEF vars, engine, unit, history, HistInv, TwoLoops
  <2> QED
    BY <1>1, <2>1, SelfMoved, MovedHist DEF HistInv
<1>3. CASE Next
  <2>1. TwoLoops' /\ Moves
    BY <1>1, <1>3, SeqStepHist, RecorderDoneHist, UiTickHist, PressHist
       DEF Next
  <2> QED
    BY <1>1, <2>1 DEF HistInv
<1> QED
  BY <1>2, <1>3

LEMMA HistHolds == Apart /\ InTime => (Init /\ [][Next]_vars => []HistInv)
<1>1. Apart /\ InTime => [](Apart /\ InTime)
  OBVIOUS
<1>2. HistInv /\ (Apart /\ InTime) /\ [Next]_vars => HistInv'
  BY HistNext
<1> QED
  BY <1>1, <1>2, HistInit, PTL

(* UNDO TO's loop stays as it was when it was marked, for every setting    *)
(* whose recordings start in time, loop length and set of pedals.          *)
THEOREM NthKept == Apart /\ InTime => (FreeSpec => []NthStays)
<1>1. HistInv => NthStays
  BY DEF HistInv, TwoLoops, Marks, NthStays
<1> QED
  BY <1>1, HistHolds, PTL DEF FreeSpec

(* The two buffers of a track implement LoopHistory: UNDO puts it back on  *)
(* the loop before the last pass, a pass dropped leaves no trace, as long  *)
(* as recordings start in time.                                            *)
THEOREM HistoryHolds == Apart /\ InTime => (FreeSpec => HistorySpec)
<1>1. Init => History!Init
  BY DEF Init, Zeroed, Heard, Back, History!Init, Buffers
<1>2. HistInv /\ (Apart /\ InTime) /\ [Next]_vars
        => [History!Next]_(History!history)
  <2>1. Moves => [History!Next]_(History!history)
    BY DEF Moves, History!Next, History!Record, History!Begin,
           History!Commit, History!Undo, History!Clear, History!history
  <2> QED
    BY <2>1, HistNext
<1>3. Apart /\ InTime => [](Apart /\ InTime)
  OBVIOUS
<1> QED
  BY <1>1, <1>2, <1>3, HistHolds, PTL
     DEF FreeSpec, HistorySpec, History!HistorySpec

=============================================================================
