-------------------------- MODULE DemandLoaderProofs -------------------------
(***************************************************************************)
(* The demand loader for any effects, homes, blocks, tracks, reverbs and   *)
(* timings: what its runs check of the two halves together.                *)
(***************************************************************************)
EXTENDS DemandLoader, DlPumpProofs

(* What the loader does to the pump's variables, the pump does.            *)
LEMMA LoaderStepsPump == [LoaderNext]_loaderVars => [Next]_vars
BY DEF LoaderNext, PumpFrame, DspStep, ChangeId, Next, loaderVars

(* What the pump alone keeps, it keeps in the loader.                      *)
THEOREM PumpInvKept == LoaderSpec => []Inv
<1>1. LoaderInit => Inv
  BY InitInv DEF LoaderInit
<1>2. Inv /\ [LoaderNext]_loaderVars => Inv'
  BY LoaderStepsPump, NextInv
<1> QED
  BY <1>1, <1>2, PTL DEF LoaderSpec

(* The counts and tables, as the steps below use them.                     *)
LEMMA LayoutFacts ==
  /\ N \in Nat \ {0} /\ Chunks \in Nat \ {0} /\ 0 \in Effects
  /\ Effects \subseteq Nat /\ N \notin Effects
  /\ TrackOf \in [Blocks -> Tracks]
  /\ Reverbs \cap Effects = {} /\ Other \notin Effects \cup Reverbs
BY CountAssumption, TrackAssumption, IdsAssumption DEF Effects

-----------------------------------------------------------------------------
(***************************************************************************)
(* The DSP half alone, whatever is lost on the way to it.  The effect in   *)
(* the staged header is not BOUND while its code is copied, and code that  *)
(* adds up is whole.                                                       *)
(***************************************************************************)
Instances == [id : Ids, st : 0 .. 3, init : BOOLEAN]
Contents == [k : 0 .. N, h : Nat]

RealMessage(m) == m \in Messages /\ (m.h # Off => m.h \in HomesOf(m.k))

DspTypes ==
  /\ dsp \in {"head", "copy", "sum", "slots", "done"}
  /\ bell \in BOOLEAN /\ RealMessage(hdr)
  /\ body \in [1 .. Chunks -> Messages \cup {Wild}]
  /\ bound \in [Effects -> BOOLEAN]
  /\ entry \in [Effects -> Nat] /\ span \in [Effects -> Nat]
  /\ \A k \in Effects : bound[k] => entry[k] \in HomesOf(k)
  /\ win \in [Blocks -> Contents]
  /\ inst \in [Slots -> Instances]

Copying ==
  /\ dsp \in {"copy", "sum"} => hdr.h # Off /\ ~bound[hdr.k]
  /\ dsp = "sum" /\ SumMatches => win[Block(hdr.k, hdr.h)] = hdr

(* What a slot is after a frame: real code of it has been initialised, and *)
(* a stub's flag is not a count.                                           *)
Initialised(i) ==
  CASE i.id \in Effects -> i.st \in {0, 1} /\ (i.st = 1 => i.init)
    [] i.id \in Reverbs -> i.st # 0 /\ (i.init <=> i.st # DryNew)
    [] OTHER -> i.st = 0

DspInv ==
  /\ DspTypes /\ Copying /\ TornIsUnbound
  /\ \A s \in Slots : Initialised(inst[s])

(* A message staged is one the pump has armed: it names a real home.       *)
LEMMA ArmedIsReal ==
  ASSUME Inv, state # "idle"
  PROVE  RealMessage(msg)
<1>1. msg \in Messages /\ home[msg.k] \in HomesOf(msg.k)
  BY DEF Inv, TypeOK, Messages
<1> QED
  BY <1>1 DEF Inv, InFlightIsHeld, RealMessage

(* A message has an effect of the table, and is its two fields.            *)
LEMMA MessageFacts ==
  ASSUME NEW m, RealMessage(m)
  PROVE  /\ m \in Messages /\ m \in Contents
         /\ m.k \in Effects /\ m.h \in Nat /\ m = [k |-> m.k, h |-> m.h]
         /\ m.h # Off => Block(m.k, m.h) \in Blocks
BY HomeFacts, LayoutFacts DEF RealMessage, Messages, Contents, Effects

(* Nothing is bound when the DSP starts, and every slot runs stock code.   *)
LEMMA DspInitInv == DspInit => DspInv
<1> SUFFICES ASSUME DspInit PROVE DspInv
  OBVIOUS
<1> USE LayoutFacts DEF DspInit
<1>1. RealMessage(hdr) /\ Wild \in Contents
  BY DEF RealMessage, Messages, Wild, Contents, Off
<1>2. Other \in Ids /\ inst \in [Slots -> Instances]
  BY DEF Ids, Instances
<1>3. DspTypes
  BY <1>1, <1>2 DEF DspTypes, Off
<1>4. Copying /\ TornIsUnbound
  BY DEF Copying, TornIsUnbound
<1>5. \A s \in Slots : Initialised(inst[s])
  BY DEF Initialised
<1> QED
  BY <1>3, <1>4, <1>5 DEF DspInv

(* An instance is its three fields.                                        *)
LEMMA InstanceFields ==
  /\ \A i \in Instances : /\ i.id \in Ids /\ i.st \in 0 .. 3 /\ i.init \in BOOLEAN
                          /\ i = [id |-> i.id, st |-> i.st, init |-> i.init]
  /\ \A d \in Ids, w \in 0 .. 3, b \in BOOLEAN :
       [id |-> d, st |-> w, init |-> b] \in Instances
BY DEF Instances

(* The stub calls the real init before the real proc, or neither.          *)
LEMMA StubFacts ==
  ASSUME DspTypes, NEW i \in Instances, i.id \in Effects,
         i.st \in {0, 1}, i.st = 1 => i.init
  PROVE  /\ StubProc(i) \in Instances /\ StubProc(i).id = i.id
         /\ StubProc(i).st \in {0, 1}
         /\ StubProc(i).st = 1 => StubProc(i).init
         /\ bound[i.id] => StubProc(i).st = 1
<1>1. CASE ~bound[i.id]
  BY <1>1 DEF StubProc
<1>2. CASE bound[i.id]
  <2>1. i.id \in Ids /\ 1 \in 0 .. 3
    BY DEF Instances
  <2>2. CASE i.st = 0 \/ i.init
    <3>1. (i.st = 0 \/ i.init) = TRUE
      BY <2>2
    <3>2. StubProc(i) = [id |-> i.id, st |-> 1, init |-> TRUE]
      BY <1>2, <3>1 DEF StubProc
    <3> QED
      BY <2>1, <3>2 DEF Instances
  <2>3. CASE ~(i.st = 0 \/ i.init)
    <3>1. (i.st = 0 \/ i.init) = FALSE
      BY <2>3
    <3>2. StubProc(i) = [id |-> i.id, st |-> 1, init |-> FALSE]
      BY <1>2, <3>1 DEF StubProc
    <3> QED
      BY <2>3
  <2> QED
    BY <2>2, <2>3
<1> QED
  BY <1>1, <1>2

(* The guard lets a reverb run exactly while it is clear of bound code,    *)
(* and not before its init.                                                *)
LEMMA GuardFacts ==
  ASSUME NEW i \in Instances, NEW t, i.st # 0, i.init <=> i.st # DryNew
  PROVE  /\ GuardProc(i, t) \in Instances /\ GuardProc(i, t).id = i.id
         /\ GuardProc(i, t).st # 0
         /\ GuardProc(i, t).init <=> GuardProc(i, t).st # DryNew
         /\ GuardProc(i, t).st = Running <=> ~Over(i.id, t)
<1> USE DEF Running, DryNew, DryRan
<1>1. CASE Over(i.id, t)
  <2>1. CASE i.st = Running
    <3>1. GuardProc(i, t) = [id |-> i.id, st |-> DryRan, init |-> i.init]
      BY <1>1, <2>1, InstanceFields DEF GuardProc
    <3> QED
      BY <1>1, <2>1, <3>1, InstanceFields
  <2>2. CASE i.st # Running
    <3>1. GuardProc(i, t) = i
      BY <1>1, <2>2, InstanceFields DEF GuardProc
    <3> QED
      BY <1>1, <2>2, <3>1
  <2> QED
    BY <2>1, <2>2
<1>2. CASE ~Over(i.id, t)
  <2>1. (i.st = DryNew \/ i.init) = TRUE
    BY InstanceFields
  <2>2. GuardProc(i, t) = [id |-> i.id, st |-> Running, init |-> TRUE]
    BY <1>2, <2>1, InstanceFields DEF GuardProc
  <2> QED
    BY <1>2, <2>2 DEF Instances
<1> QED
  BY <1>1, <1>2

(* A reverb new on a slot is dry, and not initialised, over bound code.    *)
LEMMA GuardInitFacts ==
  ASSUME NEW r \in Ids, NEW t
  PROVE  /\ GuardInit(r, t) \in Instances /\ GuardInit(r, t).id = r
         /\ GuardInit(r, t).st # 0
         /\ GuardInit(r, t).init <=> GuardInit(r, t).st # DryNew
<1> USE DEF Running, DryNew, DryRan
<1>1. CASE Over(r, t)
  <2>1. GuardInit(r, t) = [id |-> r, st |-> DryNew, init |-> FALSE]
    BY <1>1 DEF GuardInit
  <2> QED
    BY <2>1 DEF Instances
<1>2. CASE ~Over(r, t)
  <2>1. GuardInit(r, t) = [id |-> r, st |-> Running, init |-> TRUE]
    BY <1>2 DEF GuardInit
  <2> QED
    BY <2>1 DEF Instances
<1> QED
  BY <1>1, <1>2

(* So a slot keeps that, whatever id comes to it.                          *)
LEMMA InstanceFacts ==
  ASSUME DspTypes, NEW s \in Slots, Initialised(inst[s]), NEW id \in Ids
  PROVE  /\ Instance(s, id) \in Instances
         /\ Instance(s, id).id = id
         /\ Initialised(Instance(s, id))
         /\ id \in Effects /\ bound[id] => Instance(s, id).st = 1
         /\ id \in Reverbs => (Instance(s, id).st = Running <=> ~Over(id, s[2]))
<1> USE LayoutFacts
<1> DEFINE old == inst[s]
<1>1. old \in Instances
  BY DEF DspTypes
<1>2. Initialised(old)
  OBVIOUS
<1>3. CASE id \in Effects
  <2>1. Instance(s, id) = StubProc(IF id = old.id THEN old ELSE StubInit(id))
    BY <1>3 DEF Instance
  <2>2. ASSUME id = old.id
        PROVE  old.id \in Effects /\ old.st \in {0, 1} /\ (old.st = 1 => old.init)
    BY <1>2, <1>3, <2>2 DEF Initialised
  <2>3. StubInit(id) \in Instances /\ StubInit(id).id = id /\ StubInit(id).st = 0
    BY DEF StubInit, Instances
  <2> QED
    BY <1>1, <1>3, <2>1, <2>2, <2>3, StubFacts DEF Initialised
<1>4. CASE id \in Reverbs
  <2>1. id \notin Effects
    BY <1>4
  <2>2. Instance(s, id) =
          GuardProc(IF id = old.id THEN old ELSE GuardInit(id, s[2]), s[2])
    BY <1>4, <2>1 DEF Instance
  <2>3. ASSUME id = old.id
        PROVE  old.st # 0 /\ (old.init <=> old.st # DryNew)
    BY <1>2, <1>4, <2>1, <2>3 DEF Initialised
  <2> QED
    BY <1>1, <1>4, <2>1, <2>2, <2>3, GuardInitFacts, GuardFacts DEF Initialised
<1>5. CASE id \notin Effects /\ id \notin Reverbs
  <2>1. Instance(s, id) = [id |-> id, st |-> 0, init |-> FALSE]
    BY <1>5 DEF Instance
  <2> QED
    BY <1>5, <2>1 DEF Instances, Initialised
<1> QED
  BY <1>3, <1>4, <1>5

-----------------------------------------------------------------------------
(* A frame of the pump stages a part of a real message, or nothing.        *)
LEMMA StagesReal ==
  ASSUME Inv, DspTypes, Deliver \/ Lost
  PROVE  /\ RealMessage(hdr') /\ bell' \in BOOLEAN
         /\ body' \in [1 .. Chunks -> Messages \cup {Wild}]
<1>1. CASE Delivers /\ state = "sending"
  <2>1. RealMessage(msg) /\ msg \in Messages
    BY <1>1, ArmedIsReal DEF RealMessage
  <2>2. StageChunk(msg, Size(msg) - left + 1) \/ UNCHANGED staging
    BY <1>1 DEF Deliver, Lost
  <2> QED
    BY <2>1, <2>2 DEF StageChunk, staging, DspTypes
<1>2. CASE Delivers /\ state = "bell"
  <2>1. StageBell \/ UNCHANGED staging
    BY <1>2 DEF Deliver, Lost
  <2> QED
    BY <2>1 DEF StageBell, staging, DspTypes
<1>3. CASE ~(Delivers /\ state = "sending") /\ ~(Delivers /\ state = "bell")
  <2>1. UNCHANGED staging
    BY <1>3 DEF Deliver, Lost
  <2> QED
    BY <2>1 DEF staging, DspTypes
<1> QED
  BY <1>1, <1>2, <1>3

(* The staged message is copied only at the head of the frame, after it.   *)
LEMMA PumpFrameDsp ==
  ASSUME Inv, DspInv, PumpFrame
  PROVE  DspInv'
<1> USE DEF DspInv
<1>1. /\ dsp' = "head" /\ UNCHANGED <<bound, entry, span, win, inst>>
      /\ Deliver \/ Lost
  BY DEF PumpFrame, table
<1>2. DspTypes'
  BY <1>1, StagesReal DEF DspTypes
<1> QED
  BY <1>1, <1>2 DEF Copying, TornIsUnbound

LEMMA HeadIdleDsp ==
  ASSUME DspInv, HeadIdle
  PROVE  DspInv'
BY DEF DspInv, HeadIdle, staging, table, DspTypes, Copying, TornIsUnbound

LEMMA HeadLoadDsp ==
  ASSUME DspInv, HeadLoad
  PROVE  DspInv'
<1> USE DEF DspInv, HeadLoad, staging
<1>1. hdr.k \in Effects
  BY MessageFacts DEF DspTypes
<1>2. DspTypes'
  BY <1>1 DEF DspTypes
<1>3. Copying' /\ TornIsUnbound'
  BY <1>1 DEF DspTypes, Copying, TornIsUnbound
<1> QED
  BY <1>2, <1>3

LEMMA HeadWithdrawDsp ==
  ASSUME DspInv, HeadWithdraw
  PROVE  DspInv'
<1> USE DEF DspInv, HeadWithdraw
<1>1. hdr.k \in Effects /\ Off \in Nat
  BY MessageFacts DEF DspTypes, Off
<1>2. DspTypes'
  BY <1>1 DEF DspTypes
<1>3. Copying' /\ TornIsUnbound'
  BY <1>1 DEF DspTypes, Copying, TornIsUnbound
<1> QED
  BY <1>2, <1>3

(* What is copied over another effect's code is no copy of that effect's.  *)
LEMMA HeadCopyDsp ==
  ASSUME DspInv, HeadCopy
  PROVE  DspInv'
<1> USE DEF DspInv, HeadCopy, staging
<1>1. /\ hdr.k \in Effects /\ hdr.h \in Nat /\ hdr \in Contents
      /\ hdr.h # Off /\ ~bound[hdr.k] /\ Block(hdr.k, hdr.h) \in Blocks
  BY MessageFacts DEF DspTypes, Copying
<1>2. Torn(hdr.k) \in Contents
  BY <1>1, LayoutFacts DEF Torn, Contents, Effects, Off
<1>3. DspTypes'
  BY <1>1, <1>2 DEF DspTypes
<1>4. Copying'
  BY <1>1 DEF DspTypes, Copying, SumMatches
<1>5. TornIsUnbound'
  <2> SUFFICES ASSUME NEW k \in Effects, bound[k]
               PROVE  win'[Block(k, entry[k])] # Torn(k)
    BY DEF TornIsUnbound
  <2>1. k # hdr.k /\ Block(k, entry[k]) \in Blocks
    BY <1>1, HomeFacts DEF DspTypes
  <2>2. Torn(hdr.k) # Torn(k) /\ hdr # Torn(k)
    BY <1>1, <2>1 DEF Torn
  <2>3. win[Block(k, entry[k])] # Torn(k)
    BY DEF TornIsUnbound
  <2> QED
    BY <2>1, <2>2, <2>3 DEF DspTypes
<1> QED
  BY <1>3, <1>4, <1>5

(* Published code is whole.                                                *)
LEMMA HeadSumDsp ==
  ASSUME DspInv, HeadSum
  PROVE  DspInv'
<1> USE DEF DspInv, HeadSum
<1>1. /\ hdr.k \in Effects /\ hdr.h \in Nat /\ hdr.h \in HomesOf(hdr.k)
      /\ hdr.h # Off /\ hdr = [k |-> hdr.k, h |-> hdr.h]
  BY MessageFacts DEF DspTypes, Copying, RealMessage
<1>2. DspTypes'
  BY <1>1 DEF DspTypes
<1>3. Copying'
  BY DEF Copying
<1>4. TornIsUnbound'
  <2> SUFFICES ASSUME NEW k \in Effects, bound'[k]
               PROVE  win[Block(k, entry'[k])] # Torn(k)
    BY DEF TornIsUnbound
  <2>1. CASE SumMatches /\ k = hdr.k
    <3>1. win[Block(k, entry'[k])] = hdr
      BY <1>1, <2>1 DEF Copying, DspTypes
    <3> QED
      BY <1>1, <3>1 DEF Torn
  <2>2. CASE ~(SumMatches /\ k = hdr.k)
    <3>1. bound[k] /\ entry'[k] = entry[k]
      BY <1>1, <2>2 DEF DspTypes
    <3> QED
      BY <3>1 DEF TornIsUnbound
  <2> QED
    BY <2>1, <2>2
<1> QED
  BY <1>2, <1>3, <1>4

(* A frame of the slots: every instance is what InstanceFacts says, and a  *)
(* block written by a reverb is no copy of any code.                       *)
LEMMA RunSlotsDsp ==
  ASSUME Inv, DspInv, RunSlots(live)
  PROVE  DspInv'
<1> USE DEF DspInv, RunSlots, staging, table
<1>1. \A s \in Slots : live[s] \in Ids
  BY DEF Inv, TypeOK
<1>2. \A s \in Slots : inst'[s] \in Instances /\ Initialised(inst'[s])
  BY <1>1, InstanceFacts
<1>3. Wild \in Contents /\ \A k \in Effects : Wild # Torn(k)
  BY LayoutFacts DEF Wild, Torn, Contents, Off
<1>4. win' \in [Blocks -> Contents]
  BY <1>3 DEF DspTypes
<1>5. inst' \in [Slots -> Instances]
  BY <1>2
<1>6. DspTypes'
  BY <1>4, <1>5 DEF DspTypes
<1>7. Copying'
  BY DEF Copying
<1>8. TornIsUnbound'
  <2> SUFFICES ASSUME NEW k \in Effects, bound[k]
               PROVE  win'[Block(k, entry[k])] # Torn(k)
    BY DEF TornIsUnbound
  <2>1. Block(k, entry[k]) \in Blocks
    BY HomeFacts DEF DspTypes
  <2> QED
    BY <1>3, <2>1 DEF TornIsUnbound
<1> QED
  BY <1>2, <1>6, <1>7, <1>8

LEMMA LoaderStepDsp == Inv /\ DspInv /\ [LoaderNext]_loaderVars => DspInv'
<1> SUFFICES ASSUME Inv, DspInv, [LoaderNext]_loaderVars PROVE DspInv'
  OBVIOUS
<1>1. CASE PumpFrame
  BY <1>1, PumpFrameDsp
<1>2. CASE DspStep
  BY <1>2, HeadIdleDsp, HeadLoadDsp, HeadWithdrawDsp, HeadCopyDsp, HeadSumDsp,
     RunSlotsDsp DEF DspStep, Copier
<1>3. CASE ChangeId \/ UNCHANGED loaderVars
  <2>1. UNCHANGED dspVars
    BY <1>3 DEF ChangeId, loaderVars
  <2> QED
    BY <2>1 DEF dspVars, staging, table, DspInv, DspTypes, Copying,
                SumMatches, TornIsUnbound
<1> QED
  BY <1>1, <1>2, <1>3 DEF LoaderNext

THEOREM DspInvHolds == LoaderSpec => [](Inv /\ DspInv)
<1>1. LoaderInit => DspInv
  BY DspInitInv DEF LoaderInit
<1> QED
  BY <1>1, LoaderStepDsp, PumpInvKept, PTL DEF LoaderSpec

(* Every variable of the two halves keeps its range.                       *)
THEOREM LoaderTypesHold == LoaderSpec => []LoaderTypeOK
<1>1. Inv /\ DspInv => LoaderTypeOK
  BY DEF Inv, DspInv, DspTypes, RealMessage, LoaderTypeOK, Instances
<1> QED
  BY <1>1, DspInvHolds, PTL

(* Real code never runs on an instance whose own init has not, for stub    *)
(* and guard alike (dlstub.asm:25-79, dlwrap.asm:28-97).                   *)
THEOREM InitAlwaysFirst == LoaderSpec => []InitBeforeProc
<1>1. DspInv => InitBeforeProc
  BY DEF DspInv, Initialised, InitBeforeProc
<1> QED
  BY <1>1, DspInvHolds, PTL

(* Whatever is lost on the way, an effect is never BOUND over a torn copy  *)
(* of its code (dlcopy.asm:48-49).                                         *)
THEOREM TornNeverBound == LoaderSpec => []TornIsUnbound
<1>1. DspInv => TornIsUnbound
  BY DEF DspInv
<1> QED
  BY <1>1, DspInvHolds, PTL

(* Nor does it become BOUND over anything but its whole code               *)
(* (dlcopy.asm:85-118).                                                    *)
THEOREM OnlyWholePublished == LoaderSpec => PublishesOnlyWhole
<1> DEFINE Published == \A k \in Effects :
                          bound'[k] /\ ~bound[k] => WholeAt(k, entry[k])'
<1>1. ASSUME Inv, DspInv, LoaderNext PROVE Published
  <2> SUFFICES ASSUME NEW k \in Effects, bound'[k], ~bound[k]
               PROVE  WholeAt(k, entry[k])'
    OBVIOUS
  <2>1. HeadSum /\ SumMatches /\ k = hdr.k
    BY <1>1 DEF DspInv, DspTypes, LoaderNext, PumpFrame, DspStep, ChangeId, Copier,
                HeadIdle, HeadLoad, HeadWithdraw, HeadCopy, HeadSum, RunSlots,
                table, dspVars
  <2>2. hdr.h # Off /\ hdr = [k |-> hdr.k, h |-> hdr.h] /\ win[Block(k, hdr.h)] = hdr
    BY <1>1, <2>1, MessageFacts DEF DspInv, DspTypes, Copying, HeadSum
  <2>3. entry'[k] = hdr.h /\ win' = win
    BY <1>1, <2>1 DEF DspInv, DspTypes, HeadSum
  <2> QED
    BY <2>1, <2>2, <2>3 DEF WholeAt, Code
<1>2. Inv /\ DspInv /\ [LoaderNext]_loaderVars => [Published]_loaderVars
  BY <1>1
<1> QED
  BY <1>2, DspInvHolds, PTL DEF LoaderSpec, PublishesOnlyWhole

-----------------------------------------------------------------------------
(***************************************************************************)
(* With writes on the delivering frames only, none is lost, and the pump's *)
(* books are the DSP's tables but for the one message between them: what   *)
(* is staged is what has been sent of it, and every other effect is BOUND  *)
(* exactly if it is booked, over its whole code, where it is booked.       *)
(***************************************************************************)
InFlight == state # "idle" \/ bell

Complete == hdr = msg /\ (msg.h # Off => \A c \in 1 .. Chunks : body[c] = msg)

Staged ==
  /\ left <= Size(msg)
  /\ state = "sending" =>
       /\ left < Size(msg) => hdr = msg
       /\ msg.h # Off => \A c \in 1 .. Chunks - left : body[c] = msg
  /\ state = "bell" \/ bell => Complete

Between ==
  /\ bell => state = "idle" /\ dsp \in {"head", "copy", "sum"}
  /\ dsp \in {"copy", "sum"} => bell
  /\ dsp = "sum" => span[hdr.k] = hdr.h

(* The books of the message between them.                                  *)
Booked == IF msg.h # Off THEN msg.k \in loaded /\ home[msg.k] = msg.h
                         ELSE msg.k \notin loaded /\ CodeBlock(msg.k) \notin busy

Agreed ==
  /\ \A k \in Effects : bound[k] => entry[k] = home[k]
  /\ \A k \in Effects : (InFlight => k # msg.k) => (bound[k] <=> k \in loaded)
  /\ bell => Booked

Lossless == Staged /\ Between /\ Agreed /\ BoundIsWhole

LoaderInv == Inv /\ DspInv /\ Lossless

LEMMA LosslessInit == LoaderInit => Lossless
<1> SUFFICES ASSUME LoaderInit PROVE Lossless
  OBVIOUS
<1> USE LayoutFacts DEF LoaderInit, Init, DspInit, Off
<1>1. Staged
  BY DEF Staged, Size
<1>2. Between /\ BoundIsWhole
  BY DEF Between, BoundIsWhole
<1>3. Agreed
  BY DEF Agreed
<1> QED
  BY <1>1, <1>2, <1>3 DEF Lossless

(* What the slots and tables hold is none of the pump's.                   *)
LEMMA PumpLeavesCode ==
  ASSUME BoundIsWhole, UNCHANGED <<bound, entry, span, win>>
  PROVE  BoundIsWhole'
BY DEF BoundIsWhole, WholeAt

(* A frame that delivers nothing and a frame that may lose writes are the  *)
(* same frames.                                                            *)
LEMMA FrameDelivers ==
  ASSUME ~PhaseAny, Inv, PumpFrame
  PROVE  \/ Skip /\ UNCHANGED staging
         \/ Delivers /\ Deliver /\ ~Skip
<1>1. ping \in {0, 1}
  BY DEF Inv, TypeOK
<1>2. CASE ping = 1
  <2>1. ~Delivers
    BY <1>2 DEF Delivers
  <2>2. Skip
    BY <2>1 DEF PumpFrame, Frame, Pump, SendChunk, RingBell, WaitRepeat, Resend,
                Compare, NothingToDo, Load, Withdraw, Comparing
  <2>3. UNCHANGED staging
    BY <2>1 DEF PumpFrame, Deliver, Lost
  <2> QED
    BY <2>2, <2>3
<1>3. CASE ping = 0
  <2>1. Delivers /\ ~Skip /\ ~Lost
    BY <1>3 DEF Delivers, Skip, Lost
  <2> QED
    BY <2>1 DEF PumpFrame
<1> QED
  BY <1>1, <1>2, <1>3

(* A chunk staged in its place.                                            *)
LEMMA SendKeeps ==
  ASSUME ~PhaseAny, LoaderInv, PumpFrame, SendChunk, Delivers, Deliver
  PROVE  Lossless'
<1> USE DEF LoaderInv, Lossless
<1>1. /\ state = "sending" /\ left' = left - 1 /\ msg' = msg
      /\ state' = IF left = 1 THEN "bell" ELSE "sending"
      /\ UNCHANGED <<loaded, home, busy>>
  BY DEF SendChunk, book
<1>2. StageChunk(msg, Size(msg) - left + 1)
  BY <1>1 DEF Deliver
<1>3. dsp = "done" /\ dsp' = "head" /\ UNCHANGED <<bound, entry, span, win>>
  BY DEF PumpFrame, table
<1>4. bell' = FALSE /\ bell = FALSE
  BY <1>2, <1>3 DEF StageChunk, Between, DspInv, DspTypes
<1>5. /\ left \in 1 .. Chunks /\ left <= Size(msg) /\ Chunks \in Nat \ {0}
      /\ Size(msg) = IF msg.h = Off THEN 1 ELSE Chunks
  BY <1>1, LayoutFacts DEF Inv, TypeOK, Staged, Size
<1>6. Staged'
  <2>1. hdr' = msg
    <3>1. CASE left = Size(msg)
      BY <1>2, <1>5, <3>1 DEF StageChunk
    <3>2. CASE left < Size(msg)
      BY <1>1, <1>2, <1>5, <3>2 DEF StageChunk, Staged
    <3> QED
      BY <1>5, <3>1, <3>2
  <2>2. msg.h # Off => \A c \in 1 .. Chunks - (left - 1) : body'[c] = msg
    <3> SUFFICES ASSUME msg.h # Off, NEW c \in 1 .. Chunks - (left - 1)
                 PROVE  body'[c] = msg
      OBVIOUS
    <3>1. body' = [body EXCEPT ![Chunks - left + 1] = msg]
      BY <1>2, <1>5 DEF StageChunk
    <3>2. c \in 1 .. Chunks /\ (c \in 1 .. Chunks - left \/ c = Chunks - left + 1)
      BY <1>5
    <3>3. c \in 1 .. Chunks - left => body[c] = msg
      BY <1>1 DEF Staged
    <3> QED
      BY <3>1, <3>2, <3>3 DEF DspInv, DspTypes
  <2>3. Size(msg)' = Size(msg)
    BY <1>1 DEF Size
  <2>4. CASE left = 1
    BY <1>1, <1>4, <1>5, <2>1, <2>2, <2>3, <2>4 DEF Staged, Complete
  <2>5. CASE left # 1
    BY <1>1, <1>4, <1>5, <2>1, <2>2, <2>3, <2>5 DEF Staged, Complete
  <2> QED
    BY <2>4, <2>5
<1>7. Between'
  BY <1>3, <1>4 DEF Between
<1>8. Agreed'
  BY <1>1, <1>3, <1>4 DEF Agreed, InFlight
<1>9. BoundIsWhole'
  BY <1>3, PumpLeavesCode
<1> QED
  BY <1>6, <1>7, <1>8, <1>9

(* The doorbell rung: the message is whole, and now the copier's.          *)
LEMMA BellKeeps ==
  ASSUME ~PhaseAny, LoaderInv, PumpFrame, RingBell, Delivers, Deliver
  PROVE  Lossless'
<1> USE DEF LoaderInv, Lossless
<1>1. /\ state = "bell" /\ state' = "idle"
      /\ UNCHANGED <<msg, left, loaded, home, busy>>
  BY DEF RingBell, book
<1>2. bell' = TRUE /\ hdr' = hdr /\ body' = body
  BY <1>1 DEF Deliver, StageBell
<1>3. dsp = "done" /\ dsp' = "head" /\ UNCHANGED <<bound, entry, span, win>>
  BY DEF PumpFrame, table
<1>4. Staged'
  BY <1>1, <1>2 DEF Staged, Complete, Size
<1>5. Between'
  BY <1>1, <1>3 DEF Between
<1>6. Agreed'
  <2>1. Booked /\ Booked'
    BY <1>1 DEF Inv, InFlightIsHeld, Booked, CodeBlock
  <2> QED
    BY <1>1, <1>2, <1>3, <2>1 DEF Agreed, InFlight
<1>7. BoundIsWhole'
  BY <1>3, PumpLeavesCode
<1> QED
  BY <1>4, <1>5, <1>6, <1>7

(* The calls that send nothing: a message is armed with nothing between.   *)
LEMMA IdleKeeps ==
  ASSUME ~PhaseAny, LoaderInv, PumpFrame, WaitRepeat \/ Resend \/ Compare,
         Deliver
  PROVE  Lossless'
<1> USE LayoutFacts DEF LoaderInv, Lossless
<1>1. state = "idle"
  BY DEF WaitRepeat, Resend, Compare, NothingToDo, Load, Withdraw, Comparing
<1>2. UNCHANGED <<bell, hdr, body>>
  BY <1>1 DEF Deliver, staging
<1>3. dsp = "done" /\ dsp' = "head" /\ UNCHANGED <<bound, entry, span, win>>
  BY DEF PumpFrame, table
<1>4. bell = FALSE /\ bell' = FALSE
  BY <1>2, <1>3 DEF Between, DspInv, DspTypes
<1>5. \A k \in Effects : bound[k] <=> k \in loaded
  BY <1>1, <1>4 DEF Agreed, InFlight
<1>6. Between' /\ BoundIsWhole'
  BY <1>3, <1>4, PumpLeavesCode DEF Between
<1>7. ASSUME NEW m \in Messages, Arm(m) PROVE Staged'
  <2>1. msg' = m /\ left' = Size(m) /\ state' = "sending"
    BY <1>7 DEF Arm
  <2>2. Size(m) \in Nat /\ (m.h # Off => Size(m) = Chunks)
    BY DEF Size, Off
  <2>3. \A c \in 1 .. Chunks - Size(m) : m.h = Off
    BY <2>2
  <2> QED
    BY <1>4, <2>1, <2>2, <2>3 DEF Staged, Size
<1>8. CASE WaitRepeat \/ NothingToDo
  <2>1. UNCHANGED <<state, msg, left, loaded, home, busy>>
    BY <1>8 DEF WaitRepeat, NothingToDo, book
  <2>2. Staged'
    BY <1>2, <1>4, <1>1, <2>1 DEF Staged, Complete, Size
  <2>3. Agreed'
    BY <1>3, <1>4, <1>5, <2>1 DEF Agreed, InFlight
  <2> QED
    BY <1>6, <2>2, <2>3
<1>9. CASE Resend
  <2>1. Arm(rmsg) /\ UNCHANGED <<loaded, home, busy>> /\ rmsg \in Messages
    BY <1>9 DEF Resend, book, Inv, TypeOK
  <2>2. Agreed'
    BY <1>3, <1>4, <1>5, <2>1 DEF Agreed, InFlight
  <2> QED
    BY <1>6, <1>7, <2>1, <2>2
<1>10. ASSUME NEW k \in Effects, Load(k) PROVE Lossless'
  <2>1. PICK h \in HomesOf(k) : /\ home' = [home EXCEPT ![k] = h]
                                /\ loaded' = loaded \cup {k}
                                /\ Arm([k |-> k, h |-> h])
    BY <1>10 DEF Load
  <2>2. k \notin loaded /\ [k |-> k, h |-> h] \in Messages
    BY <1>10, HomeFacts DEF Load, Loads, Wanted, Messages
  <2>3. ~bound[k] /\ msg'.k = k /\ state' = "sending"
    BY <1>5, <2>1, <2>2 DEF Arm
  <2>4. \A j \in Effects : j # k => home'[j] = home[j]
    BY <2>1 DEF Inv, TypeOK
  <2>5. Agreed'
    BY <1>3, <1>4, <1>5, <2>1, <2>3, <2>4 DEF Agreed, InFlight
  <2> QED
    BY <1>6, <1>7, <2>1, <2>2, <2>5
<1>11. ASSUME NEW k \in Effects, Withdraw(k) PROVE Lossless'
  <2>1. /\ home' = home /\ loaded' = loaded \ {k}
        /\ Arm([k |-> k, h |-> Off])
    BY <1>11 DEF Withdraw
  <2>2. [k |-> k, h |-> Off] \in Messages
    BY DEF Messages, Off
  <2>3. msg'.k = k /\ state' = "sending"
    BY <2>1 DEF Arm
  <2>4. Agreed'
    BY <1>3, <1>4, <1>5, <2>1, <2>3 DEF Agreed, InFlight
  <2> QED
    BY <1>6, <1>7, <2>1, <2>2, <2>4
<1> QED
  BY <1>8, <1>9, <1>10, <1>11 DEF Compare

LEMMA PumpFrameKeeps ==
  ASSUME ~PhaseAny, LoaderInv, PumpFrame
  PROVE  Lossless'
<1>1. CASE Skip /\ UNCHANGED staging
  <2>1. UNCHANGED <<state, msg, left, loaded, home, busy, bell, hdr, body>>
    BY <1>1 DEF Skip, book, staging
  <2>2. dsp = "done" /\ dsp' = "head" /\ UNCHANGED <<bound, entry, span, win>>
    BY DEF PumpFrame, table
  <2>3. BoundIsWhole'
    BY <2>2, PumpLeavesCode DEF LoaderInv, Lossless
  <2> QED
    BY <2>1, <2>2, <2>3 DEF LoaderInv, Lossless, Staged, Complete, Size, Between,
                            Agreed, InFlight, Booked, CodeBlock
<1>2. CASE Delivers /\ Deliver /\ ~Skip
  BY <1>2, SendKeeps, BellKeeps, IdleKeeps DEF PumpFrame, Frame, Pump
<1> QED
  BY <1>1, <1>2, FrameDelivers DEF LoaderInv

(* The copier's steps of a frame.                                          *)
LEMMA HeadKeeps ==
  ASSUME LoaderInv, HeadIdle \/ HeadLoad \/ HeadWithdraw, UNCHANGED vars
  PROVE  Lossless'
<1> USE DEF LoaderInv, Lossless, vars
<1>1. UNCHANGED <<hdr, body, win, entry>> /\ dsp = "head"
  BY DEF HeadIdle, HeadLoad, HeadWithdraw, staging, table
<1>2. CASE HeadIdle
  <2>1. dsp' = "slots" /\ UNCHANGED <<bell, bound, span>> /\ ~bell
    BY <1>2 DEF HeadIdle, staging, table
  <2> QED
    BY <1>1, <2>1, PumpLeavesCode
       DEF Staged, Complete, Size, Between, Agreed, InFlight
<1>3. CASE HeadLoad \/ HeadWithdraw
  <2>1. /\ bell /\ hdr = msg /\ state = "idle" /\ Booked /\ hdr.k \in Effects
        /\ bound' = [bound EXCEPT ![hdr.k] = FALSE]
    BY <1>3, MessageFacts DEF HeadLoad, HeadWithdraw, Staged, Complete, Between,
                              Agreed, DspInv, DspTypes
  <2>2. ~bound'[hdr.k] /\ \A k \in Effects : k # hdr.k => bound'[k] = bound[k]
    BY <2>1 DEF DspInv, DspTypes
  <2>3. span' = span \/ span' = [span EXCEPT ![hdr.k] = Off]
    BY <1>3 DEF HeadLoad, HeadWithdraw
  <2>4. \A k \in Effects : k # hdr.k => span'[k] = span[k]
    BY <2>3 DEF DspInv, DspTypes
  <2>5. BoundIsWhole'
    BY <1>1, <2>2, <2>4 DEF BoundIsWhole, WholeAt
  <2>6. CASE HeadLoad
    <3>1. bell' = bell /\ dsp' = "copy"
      BY <2>6 DEF HeadLoad, staging
    <3>2. Staged' /\ Between'
      BY <1>1, <2>1, <3>1 DEF Staged, Complete, Size, Between
    <3>3. Agreed'
      BY <1>1, <2>1, <2>2, <3>1 DEF Agreed, InFlight, Booked, CodeBlock
    <3> QED
      BY <2>5, <3>2, <3>3
  <2>7. CASE HeadWithdraw
    <3>1. bell' = FALSE /\ dsp' = "slots" /\ hdr.h = Off
      BY <2>7 DEF HeadWithdraw
    <3>2. Staged' /\ Between'
      BY <1>1, <2>1, <3>1 DEF Staged, Complete, Size, Between
    <3>3. msg.k \notin loaded
      BY <2>1, <3>1 DEF Booked
    <3>4. Agreed'
      BY <1>1, <2>1, <2>2, <3>1, <3>3 DEF Agreed, InFlight
    <3> QED
      BY <2>5, <3>2, <3>4
  <2> QED
    BY <1>3, <2>6, <2>7
<1> QED
  BY <1>2, <1>3

(* The code is copied over a block no other bound effect is in: the pump   *)
(* gave it to this one alone.                                              *)
LEMMA CopyKeeps ==
  ASSUME LoaderInv, HeadCopy, UNCHANGED vars
  PROVE  Lossless'
<1> USE DEF LoaderInv, Lossless, vars
<1>1. /\ dsp = "copy" /\ dsp' = "sum" /\ bell /\ state = "idle"
      /\ hdr = msg /\ Booked /\ hdr.h # Off /\ ~bound[hdr.k]
      /\ hdr.k \in Effects /\ hdr.h \in Nat /\ Block(hdr.k, hdr.h) \in Blocks
  BY MessageFacts DEF HeadCopy, Between, Staged, Complete, Agreed, DspInv,
                      DspTypes, Copying
<1>2. /\ UNCHANGED <<bell, hdr, body, bound, entry>>
      /\ span' = [span EXCEPT ![hdr.k] = hdr.h]
      /\ \A b \in Blocks : b # Block(hdr.k, hdr.h) => win'[b] = win[b]
  BY DEF HeadCopy, staging, DspInv, DspTypes
<1>3. Staged' /\ Between'
  BY <1>1, <1>2 DEF Staged, Complete, Size, Between, DspInv, DspTypes
<1>4. Agreed'
  BY <1>1, <1>2 DEF Agreed, InFlight, Booked, CodeBlock
<1>5. BoundIsWhole'
  <2> SUFFICES ASSUME NEW k \in Effects, bound[k]
               PROVE  WholeAt(k, entry[k])' /\ span'[k] = entry'[k]
    BY <1>2 DEF BoundIsWhole
  <2>1. k # hdr.k /\ entry[k] = home[k] /\ k \in loaded
    BY <1>1 DEF Agreed, InFlight
  <2>2. hdr.k \in loaded /\ CodeBlock(hdr.k) = Block(hdr.k, hdr.h)
    BY <1>1 DEF Booked, CodeBlock
  <2>3. Block(k, entry[k]) # Block(hdr.k, hdr.h)
    BY <2>1, <2>2 DEF Inv, OneHolder, CodeBlock
  <2>4. Block(k, entry[k]) \in Blocks
    BY HomeFacts DEF DspInv, DspTypes
  <2>5. WholeAt(k, entry[k]) /\ span[k] = entry[k]
    BY DEF BoundIsWhole
  <2> QED
    BY <1>2, <2>1, <2>3, <2>4, <2>5 DEF WholeAt, DspInv, DspTypes
<1> QED
  BY <1>3, <1>4, <1>5

(* A message that came whole adds up, and is published where it is booked. *)
LEMMA SumKeeps ==
  ASSUME LoaderInv, HeadSum, UNCHANGED vars
  PROVE  Lossless'
<1> USE DEF LoaderInv, Lossless, vars
<1>1. /\ dsp = "sum" /\ dsp' = "slots" /\ bell /\ bell' = FALSE /\ state = "idle"
      /\ hdr = msg /\ Booked /\ hdr.h # Off /\ span[hdr.k] = hdr.h
      /\ hdr.k \in Effects /\ hdr.h \in Nat /\ hdr = [k |-> hdr.k, h |-> hdr.h]
  BY MessageFacts DEF HeadSum, Between, Staged, Complete, Agreed, DspInv,
                      DspTypes, Copying
<1>2. SumMatches /\ win[Block(hdr.k, hdr.h)] = hdr
  BY <1>1 DEF Staged, Complete, SumMatches, DspInv, Copying
<1>3. /\ UNCHANGED <<hdr, body, win, span>>
      /\ entry' = [entry EXCEPT ![hdr.k] = hdr.h]
      /\ bound' = [bound EXCEPT ![hdr.k] = TRUE]
  BY <1>2 DEF HeadSum
<1>4. hdr.k \in loaded /\ home[hdr.k] = hdr.h
  BY <1>1 DEF Booked
<1>5. \A k \in Effects : IF k = hdr.k THEN bound'[k] /\ entry'[k] = hdr.h
                         ELSE bound'[k] = bound[k] /\ entry'[k] = entry[k]
  BY <1>3 DEF DspInv, DspTypes
<1>6. Staged' /\ Between'
  BY <1>1, <1>3 DEF Staged, Complete, Size, Between
<1>7. Agreed'
  BY <1>1, <1>4, <1>5 DEF Agreed, InFlight
<1>8. BoundIsWhole'
  BY <1>1, <1>2, <1>3, <1>5 DEF BoundIsWhole, WholeAt, Code
<1> QED
  BY <1>6, <1>7, <1>8

(* A reverb that runs reaches no bound code: the guard before it looked at *)
(* the very home the code is in.                                           *)
LEMMA SlotsKeep ==
  ASSUME LoaderInv, RunSlots(live), UNCHANGED vars
  PROVE  Lossless'
<1> USE DEF LoaderInv, Lossless, vars
<1>1. /\ dsp = "slots" /\ dsp' = "done"
      /\ UNCHANGED <<bell, hdr, body, bound, entry, span>>
  BY DEF RunSlots, staging, table
<1>2. Staged' /\ Between'
  BY <1>1 DEF Staged, Complete, Size, Between
<1>3. Agreed'
  BY <1>1 DEF Agreed, InFlight, Booked, CodeBlock
<1>4. BoundIsWhole'
  <2> SUFFICES ASSUME NEW k \in Effects, bound[k]
               PROVE  WholeAt(k, entry[k])' /\ span[k] = entry[k]
    BY <1>1 DEF BoundIsWhole
  <2> DEFINE b == Block(k, entry[k])
             s == <<FX2, TrackOf[b]>>
  <2>1. /\ entry[k] \in HomesOf(k) /\ b \in Blocks /\ span[k] = entry[k]
        /\ entry[k] # Off /\ win[b] = [k |-> k, h |-> entry[k]]
    BY HomeFacts DEF DspInv, DspTypes, BoundIsWhole, WholeAt, Code
  <2>2. s \in Slots /\ s[2] = TrackOf[b] /\ live[s] \in Ids
    BY <2>1, LayoutFacts DEF Slots, FX2, FX1, Inv, TypeOK
  <2>3. ~Writes(inst'[s], b)
    <3> SUFFICES ASSUME Writes(inst'[s], b) PROVE FALSE
      OBVIOUS
    <3>1. inst'[s] = Instance(s, live[s])
      BY <2>2 DEF RunSlots
    <3>2. inst'[s].id = live[s]
      BY <2>2, <3>1, InstanceFacts DEF DspInv
    <3>3. live[s] \in Reverbs /\ inst'[s].st = Running
      BY <3>2 DEF Writes
    <3>4. PICK h \in HomesOf(k) : Block(k, h) = b /\ live[s] \in Reach(k, h)
      BY <2>1, <3>2 DEF Writes
    <3>5. h = entry[k]
      BY <2>1, <3>4, HomesApartAssumption
    <3>6. Over(live[s], s[2])
      BY <2>1, <2>2, <3>4, <3>5 DEF Over
    <3> QED
      BY <2>2, <3>1, <3>3, <3>6, InstanceFacts DEF DspInv
  <2>4. win'[b] = win[b]
    BY <2>1, <2>3 DEF RunSlots
  <2> QED
    BY <1>1, <2>1, <2>4 DEF WholeAt, Code
<1> QED
  BY <1>2, <1>3, <1>4

(* An id changes between two frames.                                       *)
LEMMA ChangeKeeps ==
  ASSUME LoaderInv, ChangeId \/ UNCHANGED loaderVars
  PROVE  Lossless'
<1>1. UNCHANGED <<state, msg, left, loaded, home, busy, dspVars>>
  BY DEF ChangeId, SetId, book, loaderVars, vars
<1> QED
  BY <1>1 DEF LoaderInv, Lossless, dspVars, staging, table, Staged, Complete, Size,
              Between, Agreed, InFlight, Booked, CodeBlock, BoundIsWhole, WholeAt

LEMMA LoaderStepKeeps ==
  ~PhaseAny /\ LoaderInv /\ [LoaderNext]_loaderVars => LoaderInv'
<1> SUFFICES ASSUME ~PhaseAny, LoaderInv, [LoaderNext]_loaderVars
             PROVE  LoaderInv'
  OBVIOUS
<1>1. Inv' /\ DspInv'
  BY LoaderStepsPump, NextInv, LoaderStepDsp DEF LoaderInv
<1>2. Lossless'
  BY PumpFrameKeeps, HeadKeeps, CopyKeeps, SumKeeps, SlotsKeep, ChangeKeeps
     DEF LoaderNext, DspStep, Copier
<1> QED
  BY <1>1, <1>2 DEF LoaderInv

(* With no write lost the two halves never part.                           *)
THEOREM LoaderInvHolds == ~PhaseAny => (LoaderSpec => []LoaderInv)
<1> SUFFICES ASSUME ~PhaseAny PROVE LoaderSpec => []LoaderInv
  OBVIOUS
<1>1. LoaderInit => LoaderInv
  BY InitInv, DspInitInv, LosslessInit DEF LoaderInit, LoaderInv
<1>2. LoaderInv /\ [LoaderNext]_loaderVars => LoaderInv'
  BY LoaderStepKeeps
<1> QED
  BY <1>1, <1>2, PTL DEF LoaderSpec

(* Built to send on the delivering frames, an effect that is BOUND is its  *)
(* own code, whole, where the guards keep off (dlcopy.asm:26-27).          *)
THEOREM BoundAlwaysWhole == ~PhaseAny => (LoaderSpec => []BoundIsWhole)
<1> SUFFICES ASSUME ~PhaseAny PROVE LoaderSpec => []BoundIsWhole
  OBVIOUS
<1>1. LoaderInv => BoundIsWhole
  BY DEF LoaderInv, Lossless
<1> QED
  BY <1>1, LoaderInvHolds, PTL

(* And with nothing between them the DSP has published exactly the effects *)
(* the pump has booked, where it booked them (pump.s:234-297, 376-385).    *)
THEOREM AlwaysAgreesAtRest == ~PhaseAny => (LoaderSpec => []AgreesAtRest)
<1> SUFFICES ASSUME ~PhaseAny PROVE LoaderSpec => []AgreesAtRest
  OBVIOUS
<1>1. LoaderInv => AgreesAtRest
  BY DEF LoaderInv, Lossless, Agreed, InFlight, AgreesAtRest
<1> QED
  BY <1>1, LoaderInvHolds, PTL

-----------------------------------------------------------------------------
(***************************************************************************)
(* The slots at the end of a frame: each instance runs what the entries    *)
(* say, whatever was lost, since the slots come after the copier and       *)
(* nothing else of the frame changes an entry.                             *)
(***************************************************************************)
SlotsFit ==
  dsp = "done" =>
    \A s \in Slots :
      /\ inst[s].id \in Effects /\ bound[inst[s].id] => inst[s].st = 1
      /\ inst[s].id \in Reverbs =>
           (inst[s].st = Running <=> ~Over(inst[s].id, s[2]))

LEMMA SlotsFitInit == LoaderInit => SlotsFit
BY LayoutFacts DEF LoaderInit, DspInit, SlotsFit

LEMMA RunSlotsFit ==
  ASSUME Inv, DspInv, RunSlots(live)
  PROVE  SlotsFit'
<1> SUFFICES ASSUME NEW s \in Slots
             PROVE  /\ inst'[s].id \in Effects /\ bound[inst'[s].id] => inst'[s].st = 1
                    /\ inst'[s].id \in Reverbs =>
                         (inst'[s].st = Running <=> ~Over(inst'[s].id, s[2]))
  BY DEF RunSlots, SlotsFit, Over, table
<1>1. live[s] \in Ids /\ inst'[s] = Instance(s, live[s])
  BY DEF Inv, TypeOK, RunSlots
<1> QED
  BY <1>1, InstanceFacts DEF DspInv

(* A frame that is done stays as it is until the next begins.              *)
LEMMA StepFits ==
  ASSUME Inv, DspInv, SlotsFit, [LoaderNext]_loaderVars
  PROVE  SlotsFit'
<1>1. CASE PumpFrame
  BY <1>1 DEF PumpFrame, SlotsFit
<1>2. CASE Copier
  BY <1>2 DEF Copier, HeadIdle, HeadLoad, HeadWithdraw, HeadCopy, HeadSum, SlotsFit
<1>3. CASE RunSlots(live)
  BY <1>3, RunSlotsFit
<1>4. CASE ChangeId \/ UNCHANGED loaderVars
  <2>1. UNCHANGED dspVars
    BY <1>4 DEF ChangeId, loaderVars
  <2> QED
    BY <2>1 DEF dspVars, table, SlotsFit, Over
<1> QED
  BY <1>1, <1>2, <1>3, <1>4 DEF LoaderNext, DspStep

(* Every frame ends with every slot running what the entries say, in any   *)
(* build and with any losses: a stub real code exactly once it is BOUND, a *)
(* reverb its own code exactly while its range is clear (dlstub.asm:25-79, *)
(* dlwrap.asm:28-97).                                                      *)
THEOREM SlotsFitHolds == LoaderSpec => []SlotsFit
<1>1. LoaderInit => SlotsFit
  BY SlotsFitInit DEF LoaderInit
<1>2. Inv /\ DspInv /\ SlotsFit /\ [LoaderNext]_loaderVars => SlotsFit'
  BY StepFits
<1> QED
  BY <1>1, <1>2, DspInvHolds, PTL DEF LoaderSpec

(* With nothing between the halves the entries are the pump's books, and   *)
(* the guards keep off exactly the blocks those books hold.                *)
LEMMA RestIsHeld ==
  ASSUME LoaderInv, state = "idle", ~bell
  PROVE  /\ \A k \in Effects : bound[k] <=> k \in loaded
         /\ \A r, t : Over(r, t) <=> Held(t, r)
<1>1. \A k \in Effects : bound[k] <=> k \in loaded
  BY DEF LoaderInv, Lossless, Agreed, InFlight
<1>2. \A k \in loaded : k \in Effects /\ span[k] = home[k]
  BY <1>1 DEF LoaderInv, Lossless, Agreed, BoundIsWhole, Inv, TypeOK
<1>3. \A r, t : Over(r, t) <=> Held(t, r)
  BY <1>1, <1>2 DEF Over, Held, CodeBlock
<1> QED
  BY <1>1, <1>3

(* So a build that loses nothing needs one frame: with nothing in flight   *)
(* every loaded effect's instance runs its code, and a reverb runs exactly *)
(* if no loaded effect lies under it (pump.s:234-297, dlstub.asm:25-79,    *)
(* dlwrap.asm:28-97).                                                      *)
THEOREM OneFrameEnough == ~PhaseAny => (LoaderSpec => []OneFrameIsEnough)
<1> SUFFICES ASSUME ~PhaseAny PROVE LoaderSpec => []OneFrameIsEnough
  OBVIOUS
<1>1. ASSUME LoaderInv, SlotsFit PROVE OneFrameIsEnough
  <2> SUFFICES ASSUME state = "idle", ~bell, dsp = "done", NEW s \in Slots
               PROVE  RunsRight(inst[s], s[2])
    BY DEF OneFrameIsEnough
  <2>1. inst[s].id \in loaded => bound[inst[s].id] /\ inst[s].st = 1
    BY <1>1, RestIsHeld DEF SlotsFit, LoaderInv, Inv, TypeOK
  <2>2. inst[s].id \in Reverbs => (inst[s].st = Running <=> ~Held(s[2], inst[s].id))
    BY <1>1, RestIsHeld DEF SlotsFit
  <2> QED
    BY <2>1, <2>2 DEF RunsRight
<1> QED
  BY <1>1, LoaderInvHolds, SlotsFitHolds, PTL

(* The loader is the pump and more: what is proved of the pump alone is so *)
(* of it, and in particular that every call that delivers nears rest.      *)
THEOREM LoaderIsPump == LoaderSpec => Spec
<1>1. LoaderInit => Init
  BY DEF LoaderInit
<1> QED
  BY <1>1, LoaderStepsPump, PTL DEF LoaderSpec, Spec
=============================================================================
