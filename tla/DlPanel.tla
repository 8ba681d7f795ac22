------------------------------ MODULE DlPanel -------------------------------
(***************************************************************************)
(* What the user sees of DLPUMP (modules/dlpump/pump.s): the FX1 and FX2   *)
(* choosers, which refuse a choice that collides with the holder of a      *)
(* block, and the toasts the comparison pass leaves for the next page key. *)
(*                                                                         *)
(* The toasts are part of the pass DlPump models, so a panel frame is a    *)
(* DlPump frame and, when it compares, the toast bookkeeping of the same   *)
(* pass.  The choosers run in the UI task: a frame may come between any    *)
(* two of the veto's reads, and between its end and the id going live.     *)
(***************************************************************************)
EXTENDS DlPump

VARIABLES
  ta,    \* dl_ta: effects whose "needs" toast is queued for this collision
  tb,    \* dl_tb: the same for "holds"
  pend,  \* dl_pend: the toast waiting for a page key
  chk,   \* the choice a chooser judges, and how far the veto is
  alone  \* history: since the choice was made nothing was loaded, no other
         \* id changed; no reverb reached a loaded effect then

panel == <<ta, tb, pend>>
choice == <<chk, alone>>
panelVars == <<vars, panel, choice>>

None == <<"none">>
NeedToast(k) == <<"need", k>>   \* EVICT Tn FX2 1ST
HoldToast(k) == <<"hold", k>>   \* EVICT <effect> 1ST
Toasts == {None} \cup {NeedToast(k) : k \in Effects}
                 \cup {HoldToast(k) : k \in Effects}

(* Used with no home free; loaded under a reverb with nowhere to move.     *)
Needs(k) == k \notin loaded /\ Used(k) /\ Blocked(k)

(* Variant: also one about to move.                                        *)
HoldsOrMoves(k) == k \in loaded /\ Blocked(k)
Holds(k) == k \in loaded /\ Blocked(k) /\ ~CanMove(k)

NewNeed(k) == Examined(k) /\ Needs(k) /\ k \notin ta
NewHold(k) == Examined(k) /\ Holds(k) /\ k \notin tb

(* There is one cell for the toast: the last effect of the pass has it.    *)
QueueCell ==
  LET new == {k \in Effects : NewNeed(k) \/ NewHold(k)}
  IN IF new = {} THEN pend' = pend
     ELSE \E k \in new :
            /\ \A j \in new : j <= k
            /\ pend' = IF NewNeed(k) THEN NeedToast(k) ELSE HoldToast(k)

(* Variant: the flags of the effects a pass does not reach are dropped.    *)
QueueDropping ==
  /\ ta' = {k \in Effects : Examined(k) /\ Needs(k)}
  /\ tb' = {k \in Effects : Examined(k) /\ Holds(k)}
  /\ QueueCell

(* A collision queues its toast once; one that is over may queue again.    *)
QueueToasts ==
  /\ ta' = {k \in Effects : IF Examined(k) THEN Needs(k) ELSE k \in ta}
  /\ tb' = {k \in Effects : IF Examined(k) THEN Holds(k) ELSE k \in tb}
  /\ QueueCell

PanelFrame ==
  /\ Frame
  /\ IF Comparing THEN QueueToasts ELSE UNCHANGED panel
  /\ alone' = (alone /\ loaded' \subseteq loaded)
  /\ UNCHANGED chk

-----------------------------------------------------------------------------
(* The choosers: dl_veto's loop over the effects, for id i chosen on slot  *)
(* s.  It looks at effect k; h is a home of k.                             *)

NoChoice == [at |-> "none"]
Places == {"loaded", "home", "used", "pick", "live"}

Calm == \A k \in loaded : ~Blocked(k)

IsHome(k, t) == \E h \in HomesOf(k) : TrackOf[Block(k, h)] = t

(* The FX2 choice replaces what is on the track of one of its homes.       *)
Replaces(s, i) == s[1] = FX2 /\ IsHome(i, s[2])

(* An id other than the slot's is chosen.                                  *)
Choose(s, i) ==
  /\ chk = NoChoice /\ i # live[s]
  /\ chk' = [s |-> s, i |-> i, k |-> 0, at |-> "loaded", h |-> 1]
  /\ alone' = Calm
  /\ UNCHANGED <<vars, panel>>

Looks(at) == chk.at = at /\ UNCHANGED <<vars, panel>>

(* The veto lets the choice through, goes on to the next effect, or refuses*)
(* with a toast.                                                           *)
Goes(k, at, h) ==
  chk' = [chk EXCEPT !.k = k, !.at = at, !.h = h] /\ UNCHANGED alone
LetThrough == Goes(N, "live", 1)
NextEffect == IF chk.k + 1 = N THEN LetThrough ELSE Goes(chk.k + 1, "loaded", 1)
Refuse == chk' = NoChoice /\ alone' = FALSE

(* dl_loaded.  The effect chosen needs a home, unless it has one or is     *)
(* soft; one that is loaded and not soft may refuse what is put on an FX2  *)
(* slot.                                                                   *)
VetoLoaded ==
  LET k == chk.k
  IN /\ Looks("loaded")
     /\ \/ /\ k = chk.i
           /\ IF k \in Soft \cup loaded \/ Replaces(chk.s, k) THEN LetThrough
              ELSE Goes(k, "pick", 1)
        \/ /\ k # chk.i
           /\ IF k \in loaded \ Soft /\ chk.s[1] = FX2 THEN Goes(k, "home", 1)
              ELSE NextEffect

(* Variant: the slot of the effect's first home, not of the one it is in.  *)
VetoFirstHome ==
  /\ Looks("home")
  /\ IF chk.s[2] = TrackOf[Block(chk.k, 1)] THEN Goes(chk.k, "used", home[chk.k])
     ELSE NextEffect

(* dl_hm: is the slot that of the block the effect is in?                  *)
VetoHome ==
  /\ Looks("home")
  /\ IF chk.s[2] = TrackOf[CodeBlock(chk.k)] THEN Goes(chk.k, "used", home[chk.k])
     ELSE NextEffect

(* The live ids: does a slot use the effect, and does the id chosen reach  *)
(* it there?                                                               *)
VetoUsed ==
  /\ Looks("used")
  /\ IF Used(chk.k) /\ chk.i \in Reach(chk.k, chk.h) THEN Goes(chk.k, "pick", 1)
     ELSE NextEffect

(* dl_pick, one home after another: dl_busy and the live id of its track.  *)
VetoPick ==
  LET k == chk.k
  IN /\ Looks("pick")
     /\ IF Block(k, chk.h) \notin busy /\ ~Reached(k, chk.h)
        THEN IF k = chk.i THEN LetThrough ELSE NextEffect
        ELSE IF chk.h + 1 \in HomesOf(k) THEN Goes(k, "pick", chk.h + 1)
        ELSE Refuse

Veto == VetoLoaded \/ VetoHome \/ VetoUsed \/ VetoPick

(* The choice let through goes live.                                       *)
GoesLive(s, i) ==
  /\ chk.at = "live" /\ chk.s = s /\ chk.i = i
  /\ IF live[s] = i THEN UNCHANGED vars ELSE SetId(s, i)
  /\ chk' = NoChoice /\ alone' = FALSE
  /\ UNCHANGED panel

(* The routes no chooser guards: a song, pattern, Part or project load.    *)
LoadId(s, i) == SetId(s, i) /\ alone' = FALSE /\ UNCHANGED <<panel, chk>>

(* A page key pressed: the toast owed is shown.                            *)
PageKey ==
  /\ pend # None /\ chk.at \in {"none", "live"}
  /\ pend' = None
  /\ UNCHANGED <<vars, ta, tb, choice>>

-----------------------------------------------------------------------------
PanelInit ==
  Init /\ ta = {} /\ tb = {} /\ pend = None /\ chk = NoChoice /\ alone = FALSE

PanelNext ==
  \/ PanelFrame
  \/ PageKey
  \/ Veto
  \/ \E s \in Slots : \E i \in Offer[s] :
       Choose(s, i) \/ GoesLive(s, i) \/ LoadId(s, i)

PanelSpec == PanelInit /\ [][PanelNext]_panelVars

-----------------------------------------------------------------------------
(* The toasts and the choice judged keep their range.                      *)
PanelTypeOK ==
  /\ TypeOK /\ ta \subseteq Effects /\ tb \subseteq Effects /\ pend \in Toasts
  /\ alone \in BOOLEAN
  /\ chk # NoChoice =>
       /\ chk \in [s : Slots, i : Ids, k : 0 .. N, at : Places, h : Nat]
       /\ chk.at # "live" => chk.k \in Effects /\ chk.h \in HomesOf(chk.k)

(* The veto reads the pump's books one after another, with frames between  *)
(* and before the choice goes live.  It still stands then, as long as      *)
(* nothing is loaded and no other id changes meanwhile, whatever is        *)
(* withdrawn or sent: a choice let through leaves no used effect that is   *)
(* not soft under a reverb with nowhere to move, and an effect chosen has a*)
(* home, unless it replaces what is on the track of one (pump.s:443-505).  *)
Stranded(k) == k \notin Soft /\ Used(k) /\ Holds(k)
VetoStands ==
  [][\A s \in Slots : \A i \in Offer[s] : GoesLive(s, i) /\ alone =>
       /\ \A k \in Effects : ~Stranded(k)'
       /\ i \in Effects \ Soft /\ ~Replaces(s, i)
            => i \in loaded' \/ Free(i)' # {}]_panelVars

(* A collision is announced once, though a pass ends at an earlier effect  *)
(* (pump.s:173-201): its flag stays while it lasts, and a flag newly set   *)
(* has its toast queued, or another of the same pass takes the one cell    *)
(* after it.  A toast owed is lost to a page key or to a newer collision.  *)
AnnouncedOnce ==
  [][LET new == (ta' \ ta) \cup (tb' \ tb)
     IN /\ \A k \in ta : Needs(k) => k \in ta'
        /\ \A k \in tb : Holds(k) => k \in tb'
        /\ \A k \in new : \/ pend' \in {NeedToast(k), HoldToast(k)}
                          \/ \E j \in new : j > k
        /\ pend' # pend => \/ pend' = None
                           \/ \E k \in ta' \ ta : pend' = NeedToast(k)
                           \/ \E k \in tb' \ tb : pend' = HoldToast(k)]_panelVars

(* A toast that asks the user to evict an effect that is used and not soft *)
(* is queued only by a pass that leaves the effect in its block            *)
(* (DEMAND_LOADER.md: "X stays loaded, the reverb runs dry; toast EVICT    *)
(* <effect> 1ST"); the code does not keep it of an effect nobody uses any  *)
(* more (pump.s:105-107, 191-230).                                         *)
UsedHoldMeansHeld ==
  [][\A k \in Effects \ Soft :
       Used(k) /\ pend' # pend /\ pend' = HoldToast(k) => k \in loaded']_panelVars
=============================================================================
