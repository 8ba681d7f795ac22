---------------------------- MODULE DemandLoader ----------------------------
(***************************************************************************)
(* The demand loader: DLPUMP on the ColdFire, and the copier, stubs and    *)
(* guards on the DSP, joined by the host port and the audio frame.         *)
(*                                                                         *)
(* A frame is one call of the pump, then the head of core B's frame, where *)
(* the copier is hooked, then the slots of both cores.  The ids a frame's  *)
(* slots run are those the pump compared.  A host write on a frame whose   *)
(* ping word is 1 may be lost.                                             *)
(***************************************************************************)
EXTENDS DlPump, DlDsp

loaderVars == <<vars, dspVars>>

Deliver ==
  CASE Delivers /\ state = "sending" -> StageChunk(msg, Size(msg) - left + 1)
    [] Delivers /\ state = "bell" -> StageBell
    [] OTHER -> UNCHANGED staging

Lost == ping = 1 /\ UNCHANGED staging

PumpFrame ==
  /\ dsp = "done" /\ dsp' = "head"
  /\ Frame
  /\ Deliver \/ Lost
  /\ UNCHANGED <<table, win, inst>>

DspStep == (Copier \/ RunSlots(live)) /\ UNCHANGED vars

(* An id changes between two frames, by whatever route.                    *)
ChangeId ==
  /\ dsp = "done"
  /\ \E s \in Slots : \E i \in Offer[s] : SetId(s, i)
  /\ UNCHANGED dspVars

LoaderInit == Init /\ DspInit
LoaderNext == PumpFrame \/ DspStep \/ ChangeId
LoaderSpec == LoaderInit /\ [][LoaderNext]_loaderVars

(* Frames keep coming and each runs to its end.                            *)
LoaderFair == LoaderSpec /\ WF_loaderVars(PumpFrame) /\ WF_loaderVars(DspStep)

-----------------------------------------------------------------------------
(* The DSP's tables keep their range.                                      *)
LoaderTypeOK ==
  /\ TypeOK
  /\ dsp \in {"head", "copy", "sum", "slots", "done"}
  /\ bell \in BOOLEAN /\ hdr \in Messages
  /\ bound \in [Effects -> BOOLEAN]
  /\ {entry, span} \subseteq [Effects -> Nat]
  /\ \A s \in Slots : inst[s].id \in Ids /\ inst[s].st \in 0 .. 3

(* Whenever an effect is BOUND, at any point of the frame, the words its   *)
(* init and proc lie in are its own code, whole, and the span the guards   *)
(* keep off is that code (dlcopy.asm:26-27).                               *)
BoundIsWhole ==
  \A k \in Effects : bound[k] => WholeAt(k, entry[k]) /\ span[k] = entry[k]

(* With nothing in flight the DSP has published exactly the effects the    *)
(* pump holds loaded, where it holds them: the pump has no answer from the *)
(* DSP and books a load or a withdrawal when it arms it                    *)
(* (pump.s:234-297, 376-385).                                              *)
AgreesAtRest ==
  state = "idle" /\ ~bell /\ dsp \in {"slots", "done"} =>
    \A k \in Effects : /\ bound[k] <=> k \in loaded
                       /\ bound[k] => entry[k] = home[k]

(* Real code never runs on an instance whose own init has not: not a       *)
(* demand effect after its slot changed hands or its code came back, nor a *)
(* reverb that was dry from its first frame (dlstub.asm:25-79,             *)
(* dlwrap.asm:28-97).                                                      *)
InitBeforeProc ==
  \A s \in Slots :
    CASE inst[s].id \in Effects -> inst[s].st = 1 => inst[s].init
      [] inst[s].id \in Reverbs ->
           inst[s].st # 0 /\ (inst[s].init <=> inst[s].st # DryNew)
      [] OTHER -> inst[s].st = 0

(* What a slot of a track should run: a loaded effect's instance its real  *)
(* code, a reverb its stock code or, over code it reaches, the dry pass    *)
(* (DEMAND_LOADER.md, Homes and collisions).                               *)
Held(t, r) == \E k \in loaded : /\ TrackOf[CodeBlock(k)] = t
                                /\ r \in Reach(k, home[k])
RunsRight(i, t) ==
  /\ i.id \in loaded => bound[i.id] /\ i.st = 1
  /\ i.id \in Reverbs => (i.st = Running <=> ~Held(t, i.id))

(* With nothing in flight every instance runs that at the end of the very  *)
(* frame: no slot waits for a later call, a reverb that was dry is not     *)
(* left dry, and no stub passes through what is loaded (dlstub.asm:25-79,  *)
(* dlwrap.asm:28-97).                                                      *)
OneFrameIsEnough ==
  state = "idle" /\ ~bell /\ dsp = "done" =>
    \A s \in Slots : RunsRight(inst[s], s[2])

(* Once the ids stand still every slot comes to what it should run and     *)
(* stays there.                                                            *)
SlotRight(s) == inst[s].id = live[s] /\ RunsRight(inst[s], s[2])
SlotsSettle == <>[][FALSE]_live => <>[](\A s \in Slots : SlotRight(s))

(* What is lost on the way never reaches a slot as code: an effect becomes *)
(* BOUND only over its own whole code (dlcopy.asm:85-118).                 *)
PublishesOnlyWhole ==
  [][\A k \in Effects : bound'[k] /\ ~bound[k] => WholeAt(k, entry[k])']_loaderVars

(* Nor is an effect left BOUND over a torn copy of its own code, though    *)
(* the torn copy replaced a good one (dlcopy.asm:48-49).                   *)
TornIsUnbound ==
  \A k \in Effects : bound[k] => win[Block(k, entry[k])] # Torn(k)
=============================================================================
