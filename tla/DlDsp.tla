------------------------------- MODULE DlDsp --------------------------------
(***************************************************************************)
(* The demand loader's DSP half (modules/dlcopy): the copier at the head   *)
(* of core B's frame, and on every FX slot of either core the stub in      *)
(* front of a demand effect or the guard in front of a stock reverb.       *)
(*                                                                         *)
(* A block of the window holds the whole code a message carries, or a torn *)
(* copy of some effect's, or anything else.  The copier's sum is taken to  *)
(* match exactly when every staged chunk is of the message whose header is *)
(* staged.                                                                 *)
(***************************************************************************)
EXTENDS DlLayout

VARIABLES
  dsp,     \* where the frame is: "head", "copy", "sum", "slots", "done"
  bell,    \* x:$2900, the doorbell
  hdr,     \* x:$2901.., the staged header
  body,    \* x:$2906.., the message each staged chunk is of
  bound,   \* entry +0 of each effect: BOUND
  entry,   \* entry +1, +2: the home whose init and proc it names
  span,    \* entry +3, +4: the home whose words it names, Off for none
  win,     \* what each block of the window holds
  inst     \* per slot: the id it runs, its flag or state word, init done

staging == <<bell, hdr, body>>
table == <<bound, entry, span>>
dspVars == <<dsp, bell, hdr, body, bound, entry, span, win, inst>>

Torn(k) == [k |-> k, h |-> Off]
Wild == [k |-> N, h |-> Off]

(* The guard's state word; the stub's flag is 0 or 1.                      *)
Running == 1
DryNew == 2   \* dry, its init has not run
DryRan == 3   \* dry after it ran

Code(k, h) == [k |-> k, h |-> h]
WholeAt(k, h) == h # Off /\ win[Block(k, h)] = Code(k, h)

DspInit ==
  /\ dsp = "done"
  /\ bell = FALSE
  /\ hdr = [k |-> 0, h |-> Off] /\ body = [c \in 1 .. Chunks |-> Wild]
  /\ bound = [k \in Effects |-> FALSE]
  /\ entry = [k \in Effects |-> Off] /\ span = [k \in Effects |-> Off]
  /\ win = [b \in Blocks |-> Wild]
  /\ inst = [s \in Slots |-> [id |-> Other, st |-> 0, init |-> FALSE]]

-----------------------------------------------------------------------------
(* What the host port writes: chunk c of message m, the doorbell.  A       *)
(* withdrawal is a header alone and leaves the staged words as they were.  *)
StageChunk(m, c) ==
  /\ hdr' = IF c = 1 THEN m ELSE hdr
  /\ body' = IF m.h = Off THEN body ELSE [body EXCEPT ![c] = m]
  /\ UNCHANGED bell

StageBell == bell' = TRUE /\ UNCHANGED <<hdr, body>>

-----------------------------------------------------------------------------
(* The copier.                                                             *)

HeadIdle ==
  /\ dsp = "head" /\ ~bell
  /\ dsp' = "slots"
  /\ UNCHANGED <<staging, table, win, inst>>

(* Variant: the entry stays published while the code is copied.            *)
HeadLoadBound ==
  /\ dsp = "head" /\ bell /\ hdr.h # Off
  /\ dsp' = "copy"
  /\ UNCHANGED <<staging, table, win, inst>>

(* BOUND is cleared before anything else of the entry changes.             *)
HeadLoad ==
  /\ dsp = "head" /\ bell /\ hdr.h # Off
  /\ bound' = [bound EXCEPT ![hdr.k] = FALSE]
  /\ dsp' = "copy"
  /\ UNCHANGED <<staging, entry, span, win, inst>>

(* Variant: a withdrawal clears the span and leaves BOUND.                 *)
HeadWithdrawSpan ==
  /\ dsp = "head" /\ bell /\ hdr.h = Off
  /\ span' = [span EXCEPT ![hdr.k] = Off]
  /\ bell' = FALSE
  /\ dsp' = "slots"
  /\ UNCHANGED <<hdr, body, bound, entry, win, inst>>

HeadWithdraw ==
  /\ dsp = "head" /\ bell /\ hdr.h = Off
  /\ bound' = [bound EXCEPT ![hdr.k] = FALSE]
  /\ span' = [span EXCEPT ![hdr.k] = Off]
  /\ bell' = FALSE
  /\ dsp' = "slots"
  /\ UNCHANGED <<hdr, body, entry, win, inst>>

SumMatches == \A c \in 1 .. Chunks : body[c] = hdr

HeadCopy ==
  /\ dsp = "copy"
  /\ span' = [span EXCEPT ![hdr.k] = hdr.h]
  /\ win' = [win EXCEPT ![Block(hdr.k, hdr.h)] =
               IF SumMatches THEN hdr ELSE Torn(hdr.k)]
  /\ dsp' = "sum"
  /\ UNCHANGED <<staging, bound, entry, inst>>

(* Variant: published whatever the sum.                                    *)
HeadSumUnchecked ==
  /\ dsp = "sum"
  /\ entry' = [entry EXCEPT ![hdr.k] = hdr.h]
  /\ bound' = [bound EXCEPT ![hdr.k] = TRUE]
  /\ bell' = FALSE
  /\ dsp' = "slots"
  /\ UNCHANGED <<hdr, body, span, win, inst>>

(* Published only if the sum matches, BOUND last; the doorbell is cleared  *)
(* either way.                                                             *)
HeadSum ==
  /\ dsp = "sum"
  /\ IF SumMatches
     THEN /\ entry' = [entry EXCEPT ![hdr.k] = hdr.h]
          /\ bound' = [bound EXCEPT ![hdr.k] = TRUE]
     ELSE UNCHANGED <<entry, bound>>
  /\ bell' = FALSE
  /\ dsp' = "slots"
  /\ UNCHANGED <<hdr, body, span, win, inst>>

-----------------------------------------------------------------------------
(* The slots.  The dispatcher calls INIT when a slot's id changes and      *)
(* PROCESS every frame.                                                    *)

(* dw_over: reverb r on track t would write over a published effect.       *)
Over(r, t) ==
  \E k \in Effects : /\ bound[k]
                     /\ TrackOf[Block(k, span[k])] = t
                     /\ r \in Reach(k, span[k])

(* The stub: pass through until BOUND, then the real init once.            *)
StubInit(k) == [id |-> k, st |-> 0, init |-> FALSE]

StubProc(i) ==
  IF ~bound[i.id] THEN i
  ELSE [id |-> i.id, st |-> 1, init |-> (i.st = 0 \/ i.init)]

(* The guard: the reverb runs only while its range is clear; a dry one     *)
(* whose init never ran runs it first.                                     *)
GuardInit(r, t) ==
  [id |-> r, st |-> IF Over(r, t) THEN DryNew ELSE Running,
             init |-> ~Over(r, t)]
(* Variants: the range is checked at init only; a dry instance stays dry;  *)
(* a dry instance resumes without the init it never had.                   *)
GuardOnce(i, t) ==
  IF i.st \in {0, Running} \/ Over(i.id, t) THEN i
  ELSE [i EXCEPT !.st = Running, !.init = TRUE]
GuardForGood(i, t) ==
  IF i.st = Running /\ Over(i.id, t) THEN [i EXCEPT !.st = DryRan] ELSE i
GuardNoInit(i, t) ==
  IF i.st = 0 THEN i
  ELSE IF Over(i.id, t)
       THEN [i EXCEPT !.st = IF i.st = Running THEN DryRan ELSE i.st]
       ELSE [i EXCEPT !.st = Running]

GuardProc(i, t) ==
  IF i.st = 0 THEN i
  ELSE IF Over(i.id, t)
       THEN [i EXCEPT !.st = IF i.st = Running THEN DryRan ELSE i.st]
       ELSE [id |-> i.id, st |-> Running, init |-> (i.st = DryNew \/ i.init)]

Instance(s, id) ==
  LET old == inst[s]
      t == s[2]
  IN CASE id \in Effects ->
            StubProc(IF id = old.id THEN old ELSE StubInit(id))
       [] id \in Reverbs ->
            GuardProc(IF id = old.id THEN old ELSE GuardInit(id, t), t)
       [] OTHER -> [id |-> id, st |-> 0, init |-> FALSE]

(* A running reverb writes its buffer, and so any code it reaches.         *)
Writes(i, b) ==
  /\ i.id \in Reverbs /\ i.st = Running
  /\ win[b].k \in Effects
  /\ \E h \in HomesOf(win[b].k) :
       Block(win[b].k, h) = b /\ i.id \in Reach(win[b].k, h)

RunSlots(ids) ==
  /\ dsp = "slots"
  /\ inst' = [s \in Slots |-> Instance(s, ids[s])]
  /\ win' = [b \in Blocks |->
               IF Writes(inst'[<<FX2, TrackOf[b]>>], b) THEN Wild ELSE win[b]]
  /\ dsp' = "done"
  /\ UNCHANGED <<staging, table>>

Copier == HeadIdle \/ HeadLoad \/ HeadWithdraw \/ HeadCopy \/ HeadSum
=============================================================================
