---------------------------- MODULE DlPanelProofs ----------------------------
(***************************************************************************)
(* The choosers and toasts of DLPUMP for any effects, homes, blocks,       *)
(* tracks and reverbs.                                                     *)
(***************************************************************************)
EXTENDS DlPanel, DlPumpProofs

(* A frame, a choice that goes live or a load is a step of the pump; the   *)
(* veto and a page key are none.                                           *)
LEMMA PanelStepsPump == [PanelNext]_panelVars => [Next]_vars
<1>1. Veto => UNCHANGED vars
  BY DEF Veto, VetoLoaded, VetoHome, VetoUsed, VetoPick, Looks
<1> QED
  BY <1>1 DEF PanelNext, PanelFrame, PageKey, Choose, GoesLive, LoadId, Next,
              panelVars

(* The panel is the pump and more: what is proved of the pump alone is so  *)
(* of it.                                                                  *)
THEOREM PanelIsPump == PanelSpec => Spec
<1>1. PanelInit => Init
  BY DEF PanelInit
<1> QED
  BY <1>1, PanelStepsPump, PTL DEF PanelSpec, Spec

(* Only reverbs reach code.                                                *)
LEMMA ReachFacts ==
  ASSUME NEW k \in Effects, NEW h \in HomesOf(k)
  PROVE  Reach(k, h) \subseteq Reverbs
<1> DEFINE R == [block : Blocks, reach : SUBSET Reverbs]
<1>1. Homes[k] \in Seq(R)
  BY HomesAssumption
<1>2. Homes[k][h] \in R
  BY <1>1, SeqElements DEF HomesOf
<1> QED
  BY <1>2 DEF Reach

ToastTypes == ta \subseteq Effects /\ tb \subseteq Effects /\ pend \in Toasts

ChoiceTypes ==
  /\ alone \in BOOLEAN
  /\ chk # NoChoice =>
       /\ chk \in [s : Slots, i : Ids, k : 0 .. N, at : Places, h : Nat]
       /\ chk.at # "live" => chk.k \in Effects /\ chk.h \in HomesOf(chk.k)

(* The toast queued is one of the pass.                                    *)
LEMMA QueueTypes ==
  ASSUME ToastTypes, QueueToasts
  PROVE  ToastTypes'
<1>1. pend' = pend \/ \E k \in Effects : pend' \in {NeedToast(k), HoldToast(k)}
  BY DEF QueueToasts, QueueCell
<1> QED
  BY <1>1 DEF QueueToasts, ToastTypes, Toasts

LEMMA ToastTypesNext == ToastTypes /\ [PanelNext]_panelVars => ToastTypes'
<1> SUFFICES ASSUME ToastTypes, [PanelNext]_panelVars PROVE ToastTypes'
  OBVIOUS
<1>1. CASE QueueToasts
  BY <1>1, QueueTypes
<1>2. CASE PageKey
  BY <1>2 DEF PageKey, ToastTypes, Toasts
<1>3. CASE UNCHANGED panel
  BY <1>3 DEF panel, ToastTypes
<1>4. Veto => UNCHANGED panel
  BY DEF Veto, VetoLoaded, VetoHome, VetoUsed, VetoPick, Looks
<1> QED
  BY <1>1, <1>2, <1>3, <1>4
     DEF PanelNext, PanelFrame, Choose, GoesLive, LoadId, panelVars

-----------------------------------------------------------------------------
(* The veto. *)

(* Effect k refuses reverb i on slot s, judged at one stroke.              *)
HoldRefused(s, i, k) ==
  /\ k \in loaded \ Soft /\ Used(k)
  /\ s = <<FX2, TrackOf[CodeBlock(k)]>>
  /\ i \in Reach(k, home[k])
  /\ Free(k) = {}

(* Effect i chosen on slot s needs a home, or has one.                     *)
HasHome(s, i) ==
  i \in Effects \ Soft /\ ~Replaces(s, i) => i \in loaded \/ Free(i) # {}

(***************************************************************************)
(* What the veto has read still stands, as long as nothing was loaded and  *)
(* no other id changed: no effect looked at refuses the choice, the home   *)
(* of the one being looked at is the one read, and the effect chosen comes *)
(* last.                                                                   *)
(***************************************************************************)
Judged ==
  /\ Calm /\ chk # NoChoice
  /\ \A k \in Effects : k < chk.k => ~HoldRefused(chk.s, chk.i, k)
  /\ chk.at = "used" => chk.h = home[chk.k]
  /\ chk.at \in {"home", "used"} => chk.k # chk.i
  /\ chk.at # "live" => (chk.i \in Effects => chk.k <= chk.i)
  /\ chk.at = "live" => chk.k = N /\ HasHome(chk.s, chk.i)

PanelInv == Inv /\ ToastTypes /\ ChoiceTypes /\ (alone => Judged)

(* The veto's outcomes.                                                    *)
LEMMA Outcomes ==
  ASSUME NEW k, NEW at, NEW h, Goes(k, at, h), chk # NoChoice, ChoiceTypes,
         k \in 0 .. N, at \in Places, h \in Nat,
         at # "live" => k \in Effects /\ h \in HomesOf(k)
  PROVE  /\ ChoiceTypes' /\ alone' = alone /\ chk' # NoChoice
         /\ chk'.k = k /\ chk'.at = at /\ chk'.h = h
         /\ chk'.s = chk.s /\ chk'.i = chk.i
<1>1. /\ chk \in [s : Slots, i : Ids, k : 0 .. N, at : Places, h : Nat]
      /\ chk' = [chk EXCEPT !.k = k, !.at = at, !.h = h] /\ alone' = alone
  BY DEF Goes, ChoiceTypes
<1>2. /\ chk' \in [s : Slots, i : Ids, k : 0 .. N, at : Places, h : Nat]
      /\ chk'.k = k /\ chk'.at = at /\ chk'.h = h
      /\ chk'.s = chk.s /\ chk'.i = chk.i
  BY <1>1
<1>3. chk' # NoChoice
  BY <1>2 DEF NoChoice, Places
<1> QED
  BY <1>1, <1>2, <1>3 DEF ChoiceTypes

(* Only reverbs are refused for a holder.                                  *)
LEMMA EffectNotRefused ==
  ASSUME TypeOK, NEW s, NEW i \in Effects, NEW k \in Effects
  PROVE  ~HoldRefused(s, i, k)
BY ReachFacts, IdsAssumption DEF HoldRefused, TypeOK

(* The veto lets the effect chosen through.                                *)
LEMMA LetThroughJudged ==
  ASSUME PanelInv, chk # NoChoice, chk.i \in Effects, HasHome(chk.s, chk.i),
         LetThrough, UNCHANGED <<vars, panel>>
  PROVE  ChoiceTypes' /\ (alone' => Judged')
<1>1. N \in Nat \ {0} /\ TypeOK /\ ChoiceTypes /\ (alone => Judged)
  BY CountAssumption DEF PanelInv, Inv
<1>2. N \in 0 .. N /\ "live" \in Places /\ 1 \in Nat
  BY <1>1 DEF Places
<1>3. /\ ChoiceTypes' /\ alone' = alone /\ chk' # NoChoice
      /\ chk'.k = N /\ chk'.at = "live" /\ chk'.s = chk.s /\ chk'.i = chk.i
  BY <1>1, <1>2, Outcomes DEF LetThrough
<1>4. HasHome(chk.s, chk.i)'
  BY <1>3 DEF HasHome, vars, Free, Reached
<1>5. Calm => Calm'
  BY DEF Calm, Blocked, Reached, Free, vars
<1>6. \A k \in Effects : ~HoldRefused(chk.s, chk.i, k)'
  <2> SUFFICES ASSUME NEW k \in Effects PROVE ~HoldRefused(chk.s, chk.i, k)'
    OBVIOUS
  <2>1. ~HoldRefused(chk.s, chk.i, k)
    BY <1>1, EffectNotRefused
  <2> QED
    BY <1>3, <2>1 DEF HoldRefused, vars, Used, CodeBlock, Free, Reached
<1> QED
  BY <1>1, <1>3, <1>4, <1>5, <1>6 DEF Judged

(* The veto goes on from an effect that does not refuse the choice.        *)
LEMMA NextEffectJudged ==
  ASSUME PanelInv, chk # NoChoice, chk.at # "live", NextEffect,
         alone => chk.k # chk.i /\ ~HoldRefused(chk.s, chk.i, chk.k),
         UNCHANGED <<vars, panel>>
  PROVE  ChoiceTypes' /\ (alone' => Judged')
<1>1. /\ N \in Nat \ {0} /\ TypeOK /\ ChoiceTypes /\ (alone => Judged)
      /\ chk.k \in Effects /\ chk.k \in Nat /\ chk.k < N
  BY CountAssumption DEF PanelInv, Inv, ChoiceTypes, Effects
<1> DEFINE next == chk.k + 1
<1>2. /\ next \in 0 .. N /\ {"live", "loaded"} \subseteq Places /\ 1 \in Nat
      /\ next # N => next \in Effects
  BY <1>1 DEF Places, Effects
<1>3. next # N => 1 \in HomesOf(next)
  BY <1>2, HomeFacts
<1>4. /\ ChoiceTypes' /\ alone' = alone /\ chk' # NoChoice /\ chk'.k = next
      /\ chk'.at = (IF next = N THEN "live" ELSE "loaded")
      /\ chk'.s = chk.s /\ chk'.i = chk.i
  <2>1. CASE next = N
    <3>1. Goes(N, "live", 1)
      BY <2>1 DEF NextEffect, LetThrough
    <3> QED
      BY <1>1, <1>2, <2>1, <3>1, Outcomes
  <2>2. CASE next # N
    <3>1. Goes(next, "loaded", 1)
      BY <2>2 DEF NextEffect
    <3> QED
      BY <1>1, <1>2, <1>3, <2>2, <3>1, Outcomes
  <2> QED
    BY <2>1, <2>2
<1>5. Calm => Calm'
  BY DEF Calm, Blocked, Reached, Free, vars
<1>6. ASSUME alone, NEW k \in Effects, k < next
      PROVE  ~HoldRefused(chk.s, chk.i, k)'
  <2>1. k < chk.k \/ k = chk.k
    BY <1>1, <1>6 DEF Effects
  <2>2. ~HoldRefused(chk.s, chk.i, k)
    BY <1>1, <1>6, <2>1 DEF Judged
  <2> QED
    BY <1>4, <2>2 DEF HoldRefused, vars, Used, CodeBlock, Free, Reached
<1>7. alone => (chk.i \in Effects => next <= chk.i /\ next # N)
  BY <1>1 DEF Judged, Effects
<1>8. next = N => chk.i \notin Effects \/ ~alone
  BY <1>7
<1> HIDE DEF next
<1>9. alone /\ next = N => HasHome(chk.s, chk.i)'
  BY <1>4, <1>8 DEF HasHome
<1> QED
  BY <1>1, <1>4, <1>5, <1>6, <1>7, <1>9 DEF Judged

(* The veto goes on with the same effect.                                  *)
LEMMA SameEffectJudged ==
  ASSUME PanelInv, chk # NoChoice, chk.at # "live", NEW at, NEW h,
         at \in Places \ {"live"}, h \in HomesOf(chk.k), Goes(chk.k, at, h),
         at = "used" => h = home[chk.k],
         at \in {"home", "used"} /\ alone => chk.k # chk.i,
         UNCHANGED <<vars, panel>>
  PROVE  ChoiceTypes' /\ (alone' => Judged')
<1>1. /\ TypeOK /\ ChoiceTypes /\ (alone => Judged)
      /\ chk.k \in Effects /\ chk.k \in 0 .. N /\ h \in Nat
  BY HomeFacts DEF PanelInv, Inv, ChoiceTypes
<1>2. /\ ChoiceTypes' /\ alone' = alone /\ chk' # NoChoice
      /\ chk'.k = chk.k /\ chk'.at = at /\ chk'.h = h
      /\ chk'.s = chk.s /\ chk'.i = chk.i
  BY <1>1, Outcomes
<1>3. Calm => Calm'
  BY DEF Calm, Blocked, Reached, Free, vars
<1>4. ASSUME NEW k \in Effects, ~HoldRefused(chk.s, chk.i, k)
      PROVE  ~HoldRefused(chk.s, chk.i, k)'
  BY <1>2, <1>4 DEF HoldRefused, vars, Used, CodeBlock, Free, Reached
<1>5. at = "used" => chk'.h = home'[chk'.k]
  BY <1>2 DEF vars
<1> QED
  BY <1>1, <1>2, <1>3, <1>4, <1>5 DEF Judged

LEMMA VetoJudged ==
  ASSUME PanelInv, Veto
  PROVE  ChoiceTypes' /\ (alone' => Judged')
<1> DEFINE k == chk.k
<1>1. /\ chk # NoChoice /\ chk.at # "live" /\ TypeOK
      /\ chk.at \in {"loaded", "home", "used", "pick"}
      /\ UNCHANGED <<vars, panel>>
  BY DEF Veto, VetoLoaded, VetoHome, VetoUsed, VetoPick, Looks, NoChoice,
         PanelInv, Inv
<1>2. /\ k \in Effects /\ chk.h \in HomesOf(k) /\ home[k] \in HomesOf(k)
      /\ 1 \in HomesOf(k) /\ (alone => Judged)
      /\ {"home", "used", "pick"} \subseteq Places \ {"live"}
  BY <1>1, HomeFacts DEF PanelInv, ChoiceTypes, TypeOK, Places
<1> HIDE DEF k
<1>3. CASE VetoLoaded
  <2>1. CASE k = chk.i
    <3>1. CASE (k \in Soft \cup loaded \/ Replaces(chk.s, k)) /\ LetThrough
      BY <1>1, <1>2, <2>1, <3>1, LetThroughJudged DEF HasHome
    <3>2. CASE Goes(k, "pick", 1)
      BY <1>1, <1>2, <3>2, SameEffectJudged DEF k
    <3> QED
      BY <1>3, <2>1, <3>1, <3>2 DEF VetoLoaded, k
  <2>2. CASE k # chk.i
    <3>1. CASE ~(k \in loaded \ Soft /\ chk.s[1] = FX2) /\ NextEffect
      <4>1. ~HoldRefused(chk.s, chk.i, k)
        BY <3>1 DEF HoldRefused
      <4> QED
        BY <1>1, <2>2, <3>1, <4>1, NextEffectJudged DEF k
    <3>2. CASE Goes(k, "home", 1)
      BY <1>1, <1>2, <2>2, <3>2, SameEffectJudged DEF k
    <3> QED
      BY <1>3, <2>2, <3>1, <3>2 DEF VetoLoaded, k
  <2> QED
    BY <2>1, <2>2
<1>4. CASE VetoHome
  <2>1. alone => k # chk.i
    BY <1>2, <1>4 DEF VetoHome, Looks, Judged, k
  <2>2. CASE Goes(k, "used", home[k])
    BY <1>1, <1>2, <2>1, <2>2, SameEffectJudged DEF k
  <2>3. CASE chk.s[2] # TrackOf[CodeBlock(k)] /\ NextEffect
    <3>1. ~HoldRefused(chk.s, chk.i, k)
      BY <2>3 DEF HoldRefused
    <3> QED
      BY <1>1, <2>1, <2>3, <3>1, NextEffectJudged DEF k
  <2> QED
    BY <1>4, <2>2, <2>3 DEF VetoHome, k
<1>5. CASE VetoUsed
  <2>1. alone => k # chk.i /\ chk.h = home[k]
    BY <1>2, <1>5 DEF VetoUsed, Looks, Judged, k
  <2>2. CASE Goes(k, "pick", 1)
    BY <1>1, <1>2, <2>1, <2>2, SameEffectJudged DEF k
  <2>3. CASE ~(Used(k) /\ chk.i \in Reach(k, chk.h)) /\ NextEffect
    <3>1. alone => ~HoldRefused(chk.s, chk.i, k)
      BY <2>1, <2>3 DEF HoldRefused
    <3> QED
      BY <1>1, <2>1, <2>3, <3>1, NextEffectJudged DEF k
  <2> QED
    BY <1>5, <2>2, <2>3 DEF VetoUsed, k
<1>6. CASE VetoPick
  <2> DEFINE free == Block(k, chk.h) \notin busy /\ ~Reached(k, chk.h)
  <2>1. free => Free(k) # {}
    BY <1>2 DEF Free
  <2>2. CASE free /\ k = chk.i /\ LetThrough
    <3>1. chk.i \in Effects /\ HasHome(chk.s, chk.i)
      BY <1>2, <2>1, <2>2 DEF HasHome
    <3> QED
      BY <1>1, <2>2, <3>1, LetThroughJudged
  <2>3. CASE free /\ k # chk.i /\ NextEffect
    <3>1. ~HoldRefused(chk.s, chk.i, k)
      BY <2>1, <2>3 DEF HoldRefused
    <3> QED
      BY <1>1, <2>3, <3>1, NextEffectJudged DEF k
  <2>4. CASE chk.h + 1 \in HomesOf(k) /\ Goes(k, "pick", chk.h + 1)
    BY <1>1, <1>2, <2>4, SameEffectJudged DEF k
  <2>5. CASE Refuse
    BY <2>5 DEF Refuse, ChoiceTypes
  <2> QED
    BY <1>6, <2>2, <2>3, <2>4, <2>5 DEF VetoPick, k
<1> QED
  BY <1>3, <1>4, <1>5, <1>6 DEF Veto

(* A frame that loads nothing takes no home and keeps what the veto read.  *)
LEMMA NoLoadFrees ==
  ASSUME Frame, loaded' \subseteq loaded, TypeOK
  PROVE  UNCHANGED <<live, home>> /\ busy' \subseteq busy
<1>1. UNCHANGED live
  BY DEF Frame
<1>2. CASE UNCHANGED book
  BY <1>1, <1>2 DEF book
<1>3. ASSUME NEW k \in Effects, Load(k) PROVE FALSE
  BY <1>3 DEF Load, Loads, Wanted
<1>4. ASSUME NEW k \in Effects, Withdraw(k) PROVE UNCHANGED home /\ busy' \subseteq busy
  BY <1>4 DEF Withdraw
<1>5. Pump => UNCHANGED book \/ \E k \in Effects : Load(k) \/ Withdraw(k)
  BY DEF Pump, Skip, SendChunk, RingBell, WaitRepeat, Resend, Compare,
         NothingToDo
<1> QED
  BY <1>1, <1>2, <1>3, <1>4, <1>5 DEF Frame, book

LEMMA FrameJudged ==
  ASSUME PanelInv, Inv', PanelFrame
  PROVE  ChoiceTypes' /\ (alone' => Judged')
<1>1. ChoiceTypes' /\ UNCHANGED chk
  BY DEF PanelFrame, PanelInv, ChoiceTypes
<1> SUFFICES ASSUME alone' PROVE Judged'
  BY <1>1
<1>2. /\ Frame /\ loaded' \subseteq loaded /\ Judged /\ TypeOK /\ OneHolder
      /\ OneHolder' /\ ChoiceTypes
  BY DEF PanelFrame, PanelInv, Inv
<1>3. UNCHANGED <<live, home>> /\ busy' \subseteq busy
  BY <1>2, NoLoadFrees
<1>4. \A k \in Effects : Free(k) \subseteq Free(k)'
  BY <1>3 DEF Free, Reached
<1>5. Calm'
  BY <1>2, <1>3 DEF Calm, Judged, Blocked, Reached
<1>6. ASSUME NEW k \in Effects, ~HoldRefused(chk.s, chk.i, k)
      PROVE  ~HoldRefused(chk.s, chk.i, k)'
  BY <1>1, <1>2, <1>3, <1>4, <1>6 DEF HoldRefused, Used, CodeBlock
<1>7. HasHome(chk.s, chk.i) => HasHome(chk.s, chk.i)'
  <2> SUFFICES ASSUME HasHome(chk.s, chk.i), chk.i \in Effects \ Soft,
                      ~Replaces(chk.s, chk.i), chk.i \notin loaded'
               PROVE  Free(chk.i)' # {}
    BY <1>1 DEF HasHome, Replaces, IsHome
  <2> DEFINE i == chk.i
  <2>1. CASE i \notin loaded
    BY <1>1, <1>4, <2>1 DEF HasHome
  <2>2. CASE i \in loaded
    <3>1. home[i] \in HomesOf(i) /\ ~Reached(i, home[i])
      BY <1>2, <2>2 DEF TypeOK, Judged, Calm, Blocked
    <3>2. CodeBlock(i) \notin busy'
      <4>1. ASSUME NEW j \in loaded', CodeBlock(j)' = CodeBlock(i) PROVE FALSE
        <5>1. j \in loaded /\ CodeBlock(j) = CodeBlock(i)
          BY <1>2, <1>3, <4>1 DEF CodeBlock
        <5>2. j = i
          BY <1>2, <2>2, <5>1 DEF OneHolder
        <5> QED
          BY <4>1, <5>2
      <4> QED
        BY <1>2, <4>1 DEF OneHolder
    <3> QED
      BY <1>1, <1>3, <3>1, <3>2 DEF Free, Reached, CodeBlock
  <2> QED
    BY <2>1, <2>2
<1> QED
  BY <1>1, <1>2, <1>3, <1>5, <1>6, <1>7 DEF Judged

LEMMA PanelNextInv == PanelInv /\ [PanelNext]_panelVars => PanelInv'
<1> SUFFICES ASSUME PanelInv, [PanelNext]_panelVars PROVE PanelInv'
  OBVIOUS
<1>1. Inv'
  BY PanelStepsPump, NextInv DEF PanelInv
<1>2. ToastTypes'
  BY ToastTypesNext DEF PanelInv
<1>3. ChoiceTypes' /\ (alone' => Judged')
  <2>1. CASE PanelFrame
    BY <1>1, <2>1, FrameJudged
  <2>2. CASE Veto
    BY <2>2, VetoJudged
  <2>3. CASE UNCHANGED <<vars, choice>>
    <3>1. Calm' = Calm /\ UNCHANGED <<home, chk, alone>>
      BY <2>3 DEF Calm, Blocked, Reached, Free, vars, choice
    <3>2. HasHome(chk.s, chk.i)' = HasHome(chk.s, chk.i)
      BY <2>3 DEF HasHome, Replaces, IsHome, Free, Reached, vars, choice
    <3>3. \A k : HoldRefused(chk.s, chk.i, k)' = HoldRefused(chk.s, chk.i, k)
      BY <2>3 DEF HoldRefused, Used, CodeBlock, Free, Reached, vars, choice
    <3> QED
      BY <3>1, <3>2, <3>3 DEF PanelInv, ChoiceTypes, Judged
  <2>4. ASSUME NEW s \in Slots, NEW i \in Offer[s], Choose(s, i)
        PROVE  ChoiceTypes' /\ (alone' => Judged')
    <3>1. /\ chk' = [s |-> s, i |-> i, k |-> 0, at |-> "loaded", h |-> 1]
          /\ alone' = Calm /\ UNCHANGED vars
      BY <2>4 DEF Choose
    <3>2. i \in Ids /\ 0 \in Effects /\ 0 \in 0 .. N /\ 1 \in HomesOf(0)
      BY OfferAssumption, CountAssumption, HomeFacts DEF Effects
    <3>3. /\ chk' # NoChoice /\ chk'.at = "loaded" /\ chk'.k = 0 /\ chk'.h = 1
          /\ chk' \in [s : Slots, i : Ids, k : 0 .. N, at : Places, h : Nat]
      BY <3>1, <3>2 DEF NoChoice, Places
    <3>4. alone' \in BOOLEAN /\ (alone' => Calm')
      BY <3>1 DEF Calm, Blocked, Reached, Free, vars
    <3>5. (\A k \in Effects : ~(k < 0)) /\ (chk'.i \in Effects => 0 <= chk'.i)
      BY DEF Effects
    <3> QED
      BY <3>2, <3>3, <3>4, <3>5 DEF ChoiceTypes, Judged
  <2>5. ASSUME NEW s, NEW i, GoesLive(s, i)
        PROVE  ChoiceTypes' /\ (alone' => Judged')
    BY <2>5 DEF GoesLive, ChoiceTypes
  <2>6. ASSUME NEW s, NEW i, LoadId(s, i)
        PROVE  ChoiceTypes' /\ (alone' => Judged')
    BY <2>6 DEF LoadId, PanelInv, ChoiceTypes
  <2> QED
    BY <2>1, <2>2, <2>3, <2>4, <2>5, <2>6
       DEF PanelNext, PageKey, panelVars
<1> QED
  BY <1>1, <1>2, <1>3 DEF PanelInv

(* With the pump's invariant: what a veto has read so far still holds, as  *)
(* long as nothing is loaded and no other id changes (pump.s:443-505).     *)
THEOREM PanelInvHolds == PanelSpec => []PanelInv
<1>1. PanelInit => PanelInv
  BY InitInv DEF PanelInit, PanelInv, ToastTypes, Toasts, ChoiceTypes
<1> QED
  BY <1>1, PanelNextInv, PTL DEF PanelSpec

(* The toasts and the choice judged keep their range.                      *)
THEOREM PanelTypesHold == PanelSpec => []PanelTypeOK
<1>1. PanelInv => PanelTypeOK
  BY DEF PanelInv, ToastTypes, ChoiceTypes, Inv, PanelTypeOK
<1> QED
  BY <1>1, PanelInvHolds, PTL

(***************************************************************************)
(* An effect newly under a reverb is under the reverb chosen, which no     *)
(* effect is; so it was used before the choice, and the veto, which saw it *)
(* held where it is, found it a home to go to, which is still free.  That  *)
(* home is in another block, so on another track, and is as free of the    *)
(* reverb afterwards.  An effect chosen reaches no code, so the home found *)
(* for it stays free.                                                      *)
(***************************************************************************)
THEOREM ChoosersStrandNobody == PanelSpec => VetoStands
<1> DEFINE Stands(s, i) == GoesLive(s, i) /\ alone =>
             /\ \A k \in Effects : ~Stranded(k)'
             /\ i \in Effects \ Soft /\ ~Replaces(s, i)
                  => i \in loaded' \/ Free(i)' # {}
           Kept == \A s \in Slots : \A i \in Offer[s] : Stands(s, i)
<1>1. ASSUME PanelInv, NEW s \in Slots, NEW i \in Offer[s], GoesLive(s, i), alone
      PROVE  Stands(s, i)
  <2>1. /\ live' = [live EXCEPT ![s] = i] /\ UNCHANGED <<loaded, home, busy>>
        /\ TypeOK /\ OneHolder /\ Calm /\ N \in Nat
        /\ HasHome(s, i) /\ \A k \in Effects : ~HoldRefused(s, i, k)
    <3>1. /\ TypeOK /\ OneHolder /\ Calm /\ N \in Nat /\ HasHome(s, i)
          /\ chk.k = N
          /\ \A k \in Effects : k < N => ~HoldRefused(s, i, k)
      BY <1>1, CountAssumption DEF PanelInv, Inv, Judged, GoesLive
    <3>2. \A k \in Effects : k < N
      BY <3>1 DEF Effects
    <3>3. live' = [live EXCEPT ![s] = i] /\ UNCHANGED <<loaded, home, busy>>
      BY <1>1, <3>1 DEF GoesLive, SetId, book, vars, TypeOK
    <3> QED
      BY <3>1, <3>2, <3>3
  <2>2. ASSUME NEW k \in Effects, Stranded(k)' PROVE FALSE
    <3> DEFINE slot == <<FX2, TrackOf[CodeBlock(k)]>>
    <3>1. /\ k \in loaded \ Soft /\ Used(k)' /\ Reached(k, home[k])'
          /\ home[k] \in HomesOf(k) /\ CodeBlock(k)' = CodeBlock(k)
          /\ Free(k)' = {}
      BY <2>1, <2>2 DEF Stranded, Holds, Blocked, CanMove, TypeOK, CodeBlock
    <3>2. live'[slot] \in Reach(k, home[k]) /\ live[slot] \notin Reach(k, home[k])
      BY <2>1, <3>1 DEF Reached, Calm, Blocked, CodeBlock
    <3>3. slot = s /\ i \in Reach(k, home[k])
      BY <2>1, <3>2 DEF TypeOK
    <3>4. i # k
      BY <3>1, <3>3, ReachFacts, IdsAssumption
    <3>5. Used(k)
      BY <2>1, <3>1, <3>4 DEF Used, TypeOK
    <3>6. PICK h \in HomesOf(k) : Block(k, h) \notin busy /\ ~Reached(k, h)
      BY <2>1, <3>1, <3>3, <3>5 DEF HoldRefused, Free
    <3>7. TrackOf[Block(k, h)] # TrackOf[CodeBlock(k)]
      BY <2>1, <3>1, <3>6, HomeFacts, TrackAssumption DEF OneHolder, CodeBlock
    <3>8. ~Reached(k, h)'
      BY <2>1, <3>3, <3>6, <3>7 DEF Reached, TypeOK
    <3> QED
      BY <2>1, <3>1, <3>6, <3>8 DEF Free
  <2>3. ASSUME i \in Effects \ Soft, ~Replaces(s, i), i \notin loaded
        PROVE  Free(i)' # {}
    <3>1. PICK h \in HomesOf(i) : Block(i, h) \notin busy /\ ~Reached(i, h)
      BY <2>1, <2>3 DEF HasHome, Free
    <3>2. i \notin Reach(i, h)
      BY <2>3, ReachFacts, IdsAssumption
    <3>3. ~Reached(i, h)'
      BY <2>1, <3>1, <3>2 DEF Reached, TypeOK
    <3> QED
      BY <2>1, <3>1, <3>3 DEF Free
  <2> QED
    BY <2>1, <2>2, <2>3
<1>2. PanelInv /\ [PanelNext]_panelVars => [Kept]_panelVars
  BY <1>1
<1> QED
  BY <1>2, PanelInvHolds, PTL DEF PanelSpec, VetoStands

-----------------------------------------------------------------------------
(* Only a pass flags, and only it and a page key touch the cell.           *)
LEMMA OnlyPasses ==
  ASSUME [PanelNext]_panelVars
  PROVE  QueueToasts \/ (ta' = ta /\ tb' = tb /\ pend' \in {pend, None})
<1>1. Veto => UNCHANGED panel
  BY DEF Veto, VetoLoaded, VetoHome, VetoUsed, VetoPick, Looks
<1> QED
  BY <1>1 DEF PanelNext, PanelFrame, PageKey, Choose, GoesLive, LoadId, panel,
              panelVars

(* A toast newly owed is the pass's, of a collision it found unannounced,  *)
(* which it flags.                                                         *)
LEMMA NewToast ==
  ASSUME [PanelNext]_panelVars, pend' # pend, NEW k \in Effects
  PROVE  /\ pend' = NeedToast(k) => NewNeed(k) /\ QueueToasts
         /\ pend' = HoldToast(k) => NewHold(k) /\ QueueToasts
<1>1. None # NeedToast(k) /\ None # HoldToast(k)
  BY DEF None, NeedToast, HoldToast
<1>2. QueueToasts \/ pend' = None
  BY OnlyPasses DEF panel
<1>3. ASSUME QueueToasts, pend' \in {NeedToast(k), HoldToast(k)}
      PROVE  IF NewNeed(k) THEN pend' = NeedToast(k)
                           ELSE pend' = HoldToast(k) /\ NewHold(k)
  <2>1. PICK j \in Effects : /\ NewNeed(j) \/ NewHold(j)
                             /\ pend' = IF NewNeed(j) THEN NeedToast(j) ELSE HoldToast(j)
    BY <1>3 DEF QueueToasts, QueueCell
  <2>2. j = k
    BY <1>3, <2>1 DEF NeedToast, HoldToast
  <2> QED
    BY <2>1, <2>2
<1>4. NeedToast(k) # HoldToast(k)
  BY DEF NeedToast, HoldToast
<1> QED
  BY <1>1, <1>2, <1>3, <1>4

(* A collision's toast is queued only when its flag was clear, sets the    *)
(* flag, and the flag stays while the collision lasts, though the pass     *)
(* ends at an earlier effect; two collisions found by one pass share the   *)
(* one cell.                                                               *)
THEOREM ToastQueuedOnce == PanelSpec => AnnouncedOnce
<1> DEFINE new == (ta' \ ta) \cup (tb' \ tb)
           Once == /\ \A k \in ta : Needs(k) => k \in ta'
                   /\ \A k \in tb : Holds(k) => k \in tb'
                   /\ \A k \in new : \/ pend' \in {NeedToast(k), HoldToast(k)}
                                     \/ \E j \in new : j > k
                   /\ pend' # pend => \/ pend' = None
                                      \/ \E k \in ta' \ ta : pend' = NeedToast(k)
                                      \/ \E k \in tb' \ tb : pend' = HoldToast(k)
<1>1. ASSUME PanelInv, PanelNext PROVE Once
  <2>0. ta \subseteq Effects /\ tb \subseteq Effects
    BY <1>1 DEF PanelInv, ToastTypes
  <2>1. CASE ta' = ta /\ tb' = tb /\ pend' \in {pend, None}
    BY <2>1
  <2>2. CASE QueueToasts
    <3>1. ta' \ ta = {k \in Effects : NewNeed(k)}
      BY <2>0, <2>2 DEF QueueToasts, NewNeed
    <3>2. tb' \ tb = {k \in Effects : NewHold(k)}
      BY <2>0, <2>2 DEF QueueToasts, NewHold
    <3>3. new = {k \in Effects : NewNeed(k) \/ NewHold(k)}
      BY <3>1, <3>2
    <3> HIDE DEF new
    <3>4. CASE new = {}
      <4>1. pend' = pend
        BY <2>2, <3>3, <3>4 DEF QueueToasts, QueueCell
      <4> QED
        BY <2>0, <2>2, <3>4, <4>1 DEF QueueToasts
    <3>5. CASE new # {}
      <4>1. PICK k \in new :
              /\ \A j \in new : j <= k
              /\ pend' = IF NewNeed(k) THEN NeedToast(k) ELSE HoldToast(k)
        BY <2>2, <3>3, <3>5 DEF QueueToasts, QueueCell
      <4>2. \/ k \in ta' \ ta /\ pend' = NeedToast(k)
            \/ k \in tb' \ tb /\ pend' = HoldToast(k)
        BY <3>1, <3>2, <3>3, <4>1
      <4>3. \A j \in new : j = k \/ k > j
        BY <3>3, <4>1, CountAssumption DEF Effects
      <4>4. /\ \A j \in ta : Needs(j) => j \in ta'
            /\ \A j \in tb : Holds(j) => j \in tb'
        BY <2>0, <2>2 DEF QueueToasts
      <4> QED
        BY <4>1, <4>2, <4>3, <4>4
    <3> QED
      BY <3>4, <3>5
  <2> QED
    BY <1>1, <2>1, <2>2, OnlyPasses DEF panel
<1>2. PanelInv /\ [PanelNext]_panelVars => [Once]_panelVars
  BY <1>1
<1> QED
  BY <1>2, PanelInvHolds, PTL DEF PanelSpec, AnnouncedOnce

(* The toast to evict an effect that is used comes from a pass that leaves *)
(* it in its block: of an effect nobody uses any more, not yet withdrawn,  *)
(* it can be wrong (pump.s:105-107, 191-230).                              *)
THEOREM UsedHoldIsHeld == PanelSpec => UsedHoldMeansHeld
<1> DEFINE Kept == \A k \in loaded \ Soft : Used(k) /\ Free(k) = {} => k \in loaded'
           Held == \A k \in Effects \ Soft :
             Used(k) /\ pend' # pend /\ pend' = HoldToast(k) => k \in loaded'
<1>1. ASSUME [PanelNext]_panelVars, [Kept]_vars PROVE [Held]_panelVars
  <2> SUFFICES ASSUME NEW k \in Effects \ Soft, Used(k), pend' # pend,
                      pend' = HoldToast(k)
               PROVE  k \in loaded'
    OBVIOUS
  <2>1. Holds(k)
    BY <1>1, NewToast DEF NewHold
  <2>2. k \in loaded /\ Free(k) = {}
    BY <2>1 DEF Holds, CanMove
  <2> QED
    BY <1>1, <2>2 DEF vars
<1> QED
  BY <1>1, PanelIsPump, HolderKept, PTL DEF PanelSpec, HolderKeeps, UsedHoldMeansHeld
=============================================================================
