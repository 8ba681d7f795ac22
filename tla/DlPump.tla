------------------------------- MODULE DlPump -------------------------------
(***************************************************************************)
(* DLPUMP's frame-interrupt half (modules/dlpump/pump.s): dl_pump compares *)
(* the ids on the live FX slots with the effects loaded, arms one message  *)
(* at a time and sends it to DSP core B in chunks, then the doorbell.      *)
(*                                                                         *)
(* One Frame step is one call of dl_pump.  dl_src, dl_dest and dl_left     *)
(* advance together, so the part sent is kept as the chunks left to send.  *)
(* The toasts of the comparison pass are added by module DlPanel.          *)
(***************************************************************************)
EXTENDS DlLayout

CONSTANTS
  PhaseAny,  \* the PHASE build setting: send on every frame, not ping 0 only
  Debounce,  \* DEBOUNCE, passes an effect is used before it is loaded
  Grace,     \* GRACE, passes an effect is unused before it is withdrawn
  Repeat,    \* REPEAT, idle calls between a load and its next send
  Offer      \* slot -> the ids the user may put there

ASSUME TimingAssumption ==
  /\ PhaseAny \in BOOLEAN
  /\ {Debounce, Grace, Repeat} \subseteq Nat \ {0}

ASSUME OfferAssumption ==
  /\ Offer \in [Slots -> SUBSET Ids]
  /\ \A t \in Tracks : Offer[<<FX1, t>>] \cap Reverbs = {}

VARIABLES
  live,    \* the ids on the live FX slots
  ping,    \* the frame's ping word
  state,   \* dl_state: "idle", "sending", "bell"
  msg,     \* dl_src: the message being sent, or sent last
  left,    \* dl_left, in chunks
  loaded,  \* dl_loaded: the effects loaded
  home,    \* dl_hm: the home an effect was last loaded into
  busy,    \* dl_busy: the blocks holding demand code
  seen,    \* dl_seen: passes a wanted effect has been used
  gone,    \* dl_gone: passes a loaded effect has been unused
  rwait,   \* dl_rwait: idle calls until the load is sent again, 0 for none
  rk,      \* dl_rk: the effect that load is for
  rn,      \* dl_rn: repeats still to send
  rmsg     \* dl_rsrc: the message of that load

book == <<loaded, home, busy>>
counts == <<seen, gone>>
repeat == <<rwait, rk, rn, rmsg>>
vars == <<live, ping, state, msg, left, loaded, home, busy, seen, gone,
          rwait, rk, rn, rmsg>>

Repeats == 2

-----------------------------------------------------------------------------
(* What a comparison pass reads.                                           *)

Used(k) == \E s \in Slots : live[s] = k

CodeBlock(k) == Block(k, home[k])

(* A stock reverb on the FX2 slot of the home's block reaches the code.    *)
Reached(k, h) == live[<<FX2, TrackOf[Block(k, h)]>>] \in Reach(k, h)

(* Variants: a home under a reverb, a block that holds code.               *)
FreeOfCode(k) == {h \in HomesOf(k) : Block(k, h) \notin busy}
FreeOfReverbs(k) == {h \in HomesOf(k) : ~Reached(k, h)}

(* The homes dl_pick may answer with, and the one it does.                 *)
Free(k) == {h \in HomesOf(k) : Block(k, h) \notin busy /\ ~Reached(k, h)}
Picks(k, h) == h \in Free(k) /\ \A g \in Free(k) : h <= g

(* d5 and d7 of the pass.                                                  *)
Blocked(k) == IF k \in loaded THEN Reached(k, home[k]) ELSE Free(k) = {}
CanMove(k) == k \in loaded /\ Blocked(k) /\ Free(k) # {}

Wanted(k) == k \notin loaded /\ Used(k) /\ Free(k) # {}
Loads(k) == Wanted(k) /\ seen[k] + 1 >= Debounce

(* Variant: any reverb that reaches the code takes the block.              *)
WithdrawsForReverb(k) ==
  k \in loaded /\ (Blocked(k) \/ (~Used(k) /\ gone[k] + 1 >= Grace))

(* An unused effect gives its block up after the grace, or at once to a    *)
(* reverb.  A used one moves if it can, and a soft one that cannot gives   *)
(* way to the reverb.                                                      *)
Withdraws(k) ==
  /\ k \in loaded
  /\ IF Used(k) THEN CanMove(k) \/ (Blocked(k) /\ k \in Soft)
                ELSE Blocked(k) \/ gone[k] + 1 >= Grace

Acts(k) == Loads(k) \/ Withdraws(k)

(* The pass goes through the effects in order and ends at the first that   *)
(* arms a message, so the counts of the effects after it are left alone.   *)
Examined(k) == \A j \in Effects : j < k => ~Acts(j)
Arms(k) == Acts(k) /\ Examined(k)

(* Variants: the grace is not started over by the withdrawal; the counts   *)
(* of the effects a pass does not reach are cleared.                       *)
CountOn ==
  /\ seen' = [k \in Effects |->
                IF k \in loaded \/ ~Examined(k) THEN seen[k]
                ELSE IF Wanted(k) /\ ~Loads(k) THEN seen[k] + 1 ELSE 0]
  /\ gone' = [k \in Effects |->
                IF k \notin loaded \/ ~Examined(k) THEN gone[k]
                ELSE IF ~Used(k) THEN gone[k] + 1 ELSE 0]
CountExamined ==
  /\ seen' = [k \in Effects |->
                IF Examined(k) /\ Wanted(k) /\ ~Loads(k) THEN seen[k] + 1 ELSE 0]
  /\ gone' = [k \in Effects |->
                IF k \notin loaded \/ ~Examined(k) THEN gone[k]
                ELSE IF ~Used(k) /\ ~Withdraws(k) THEN gone[k] + 1 ELSE 0]

Count ==
  /\ seen' = [k \in Effects |->
                IF k \in loaded \/ ~Examined(k) THEN seen[k]
                ELSE IF Wanted(k) /\ ~Loads(k) THEN seen[k] + 1 ELSE 0]
  /\ gone' = [k \in Effects |->
                IF k \notin loaded \/ ~Examined(k) THEN gone[k]
                ELSE IF ~Used(k) /\ ~Withdraws(k) THEN gone[k] + 1 ELSE 0]

-----------------------------------------------------------------------------
Init ==
  /\ live = [s \in Slots |-> Other]
  /\ ping \in {0, 1}
  /\ state = "idle" /\ msg = [k |-> 0, h |-> Off] /\ left = 0
  /\ loaded = {} /\ busy = {}
  /\ home = [k \in Effects |-> 1]
  /\ seen = [k \in Effects |-> 0] /\ gone = [k \in Effects |-> 0]
  /\ rwait = 0 /\ rk = 0 /\ rn = 0 /\ rmsg = [k |-> 0, h |-> Off]

(* The tail every call that arms a message jumps to.                       *)
Arm(m) == msg' = m /\ left' = Size(m) /\ state' = "sending"

(* A frame whose host writes are lost: the ping-0 build does nothing.      *)
Skip ==
  /\ ~PhaseAny /\ ping = 1
  /\ UNCHANGED <<state, msg, left, book, counts, repeat>>

Delivers == PhaseAny \/ ping = 0

SendChunk ==
  /\ Delivers /\ state = "sending"
  /\ left' = left - 1
  /\ state' = IF left = 1 THEN "bell" ELSE "sending"
  /\ UNCHANGED <<msg, book, counts, repeat>>

RingBell ==
  /\ Delivers /\ state = "bell"
  /\ state' = "idle"
  /\ UNCHANGED <<msg, left, book, counts, repeat>>

(* While a load has repeats to send, an idle call only counts down to the  *)
(* next one: no comparison is made.                                        *)
WaitRepeat ==
  /\ Delivers /\ state = "idle" /\ rwait > 1
  /\ rwait' = rwait - 1
  /\ UNCHANGED <<state, msg, left, book, counts, rk, rn, rmsg>>

Resend ==
  /\ Delivers /\ state = "idle" /\ rwait = 1 /\ rk \in loaded
  /\ rn' = rn - 1
  /\ rwait' = IF rn = 1 THEN 0 ELSE Repeat
  /\ Arm(rmsg)
  /\ UNCHANGED <<book, counts, rk, rmsg>>

Countdown == IF rwait = 0 THEN 0 ELSE rwait - 1

(* Variant: a pass on every idle call, repeats owed or not.                *)
ComparingAlways == Delivers /\ state = "idle"

(* A pass is made when no repeat is due, or when the one due is for an     *)
(* effect withdrawn meanwhile.                                             *)
Comparing ==
  /\ Delivers /\ state = "idle"
  /\ rwait = 0 \/ (rwait = 1 /\ rk \notin loaded)

Load(k) ==
  /\ Comparing /\ Arms(k) /\ Loads(k)
  /\ Count
  /\ \E h \in HomesOf(k) :
       /\ Picks(k, h)
       /\ home' = [home EXCEPT ![k] = h]
       /\ busy' = busy \cup {Block(k, h)}
       /\ loaded' = loaded \cup {k}
       /\ rmsg' = [k |-> k, h |-> h]
       /\ Arm([k |-> k, h |-> h])
  /\ rk' = k /\ rwait' = Repeat /\ rn' = Repeats

(* Variant: the block is not given back.                                   *)
WithdrawKeepsBlock(k) ==
  /\ Comparing /\ Arms(k) /\ Withdraws(k)
  /\ Count
  /\ loaded' = loaded \ {k}
  /\ Arm([k |-> k, h |-> Off])
  /\ rwait' = Countdown
  /\ UNCHANGED <<home, busy, rk, rn, rmsg>>

Withdraw(k) ==
  /\ Comparing /\ Arms(k) /\ Withdraws(k)
  /\ Count
  /\ busy' = busy \ {CodeBlock(k)}
  /\ loaded' = loaded \ {k}
  /\ Arm([k |-> k, h |-> Off])
  /\ rwait' = Countdown
  /\ UNCHANGED <<home, rk, rn, rmsg>>

NothingToDo ==
  /\ Comparing /\ \A k \in Effects : ~Acts(k)
  /\ Count
  /\ rwait' = Countdown
  /\ UNCHANGED <<state, msg, left, book, rk, rn, rmsg>>

Compare == NothingToDo \/ \E k \in Effects : Load(k) \/ Withdraw(k)

Pump == Skip \/ SendChunk \/ RingBell \/ WaitRepeat \/ Resend \/ Compare

(* One frame interrupt: dl_pump runs, and the ping word flips.             *)
Frame == Pump /\ ping' = 1 - ping /\ UNCHANGED live

(* The user, a Part, a pattern or a project load puts an id on a slot.     *)
SetId(s, i) ==
  /\ i \in Offer[s] /\ i # live[s]
  /\ live' = [live EXCEPT ![s] = i]
  /\ UNCHANGED <<ping, state, msg, left, book, counts, repeat>>

Next == Frame \/ \E s \in Slots : \E i \in Offer[s] : SetId(s, i)

Spec == Init /\ [][Next]_vars

(* The frame interrupt comes 2,756 times a second whatever the user does.  *)
FairSpec == Spec /\ WF_vars(Frame)

-----------------------------------------------------------------------------
(* Every variable keeps its range: indices name real homes, counters stay  *)
(* below the thresholds that reset them, and a send has chunks to send.    *)
TypeOK ==
  /\ live \in [Slots -> Ids]
  /\ ping \in {0, 1}
  /\ state \in {"idle", "sending", "bell"}
  /\ msg \in Messages /\ left \in 0 .. Chunks
  /\ state = "sending" => left > 0
  /\ loaded \subseteq Effects /\ busy \subseteq Blocks
  /\ home \in [Effects -> Nat]
  /\ \A k \in Effects : home[k] \in HomesOf(k)
  /\ seen \in [Effects -> Nat] /\ \A k \in Effects : seen[k] < Debounce
  /\ gone \in [Effects -> Nat] /\ \A k \in Effects : gone[k] < Grace
  /\ rwait \in 0 .. Repeat /\ rn \in 0 .. Repeats
  /\ rk \in Effects /\ rmsg \in Messages

(* At most one demand effect holds a block, and dl_busy, which the pass    *)
(* keeps apart from dl_loaded and dl_hm, names exactly the blocks held     *)
(* (pump.s:249-256, 287-291).                                              *)
OneHolder ==
  /\ busy = {CodeBlock(k) : k \in loaded}
  /\ \A j, k \in loaded : CodeBlock(j) = CodeBlock(k) => j = k

(* What is on the wire agrees with the books: a load in flight is for an   *)
(* effect still held in that very home, a withdrawal in flight is for an   *)
(* effect whose block nobody has been given since (pump.s:105-297).        *)
InFlightIsHeld ==
  state # "idle" =>
    IF msg.h # Off THEN msg.k \in loaded /\ home[msg.k] = msg.h
                   ELSE msg.k \notin loaded /\ CodeBlock(msg.k) \notin busy

(* A repeat that is owed is for the effect still loaded where it was sent, *)
(* and the count of repeats has not run out: the "withdrawn meanwhile"     *)
(* branch of the idle call (pump.s:114-119) is never taken.                *)
RepeatIsHeld ==
  rwait > 0 => /\ rk \in loaded /\ rn > 0
               /\ rmsg = [k |-> rk, h |-> home[rk]]

(* A used effect that is not soft and has nowhere to move is never taken   *)
(* out of its block, whatever the reverbs do (pump.s:105-107).             *)
HolderKeeps ==
  [][\A k \in loaded \ Soft : Used(k) /\ Free(k) = {} => k \in loaded']_vars

(* Once the ids stand still the pump comes to rest, with every used effect *)
(* that has a home loaded, no unused one kept, and none left under a       *)
(* reverb it could leave (pump.s:105-297): no load and withdraw for ever.  *)
Settled(k) ==
  IF k \in loaded THEN Used(k) /\ (Blocked(k) => Free(k) = {} /\ k \notin Soft)
                  ELSE ~Wanted(k)
Settles ==
  <>[][FALSE]_live => <>[](state = "idle" /\ \A k \in Effects : Settled(k))

(* Why it does, in what every call brings down.  The messages an effect    *)
(* still needs: a withdrawal and a load if its home will not do, a load if *)
(* it has none, no more once it is where it stays.                         *)
MessagesToGo == [k \in Effects |->
  IF k \notin loaded THEN 1 ELSE IF Used(k) /\ ~Blocked(k) THEN 0 ELSE 2]

(* The calls that send the rest of the message and ring the doorbell.      *)
CallsToGo == CASE state = "sending" -> left + 1
               [] state = "bell" -> 1
               [] OTHER -> 0

(* The passes until the pass acts on an effect, or leaves its count alone. *)
PassesToGo == [k \in Effects |->
  IF k \in loaded THEN IF Used(k) THEN gone[k] ELSE Grace - gone[k]
  ELSE IF Wanted(k) THEN Debounce - seen[k] ELSE seen[k]]

Falls(f, g) ==
  /\ \A k \in Effects : g[k] <= f[k]
  /\ \E k \in Effects : g[k] < f[k]

(* Closer to rest, the first quantity that changes deciding.               *)
Closer ==
  \/ Falls(MessagesToGo, MessagesToGo')
  \/ /\ UNCHANGED MessagesToGo
     /\ \/ rn' < rn
        \/ UNCHANGED rn /\ CallsToGo' < CallsToGo
        \/ UNCHANGED <<rn, CallsToGo>> /\ rwait' < rwait
        \/ UNCHANGED <<rn, CallsToGo, rwait>> /\ Falls(PassesToGo, PassesToGo')

AtRest == state = "idle" /\ rwait = 0 /\ \A k \in Effects : Settled(k)

(* Every call that delivers brings the pump closer to rest, or finds it    *)
(* there and does nothing, whatever the ids are: no load undoes a          *)
(* withdrawal, no repeat or count puts an earlier one back (pump.s:44-297).*)
NearsRest ==
  [][Frame /\ Delivers =>
       Closer \/ (AtRest /\ UNCHANGED <<state, msg, left, book, counts, repeat>>)]_vars

(* An effect that stays used, with a home it could have whenever it is not *)
(* loaded, is loaded again and again, whatever the user does to the other  *)
(* slots: a pass that ends at an earlier effect does not starve a later    *)
(* one (pump.s:130-297).                                                   *)
WantedIsLoaded ==
  \A k \in Effects :
    <>[](Used(k) /\ (k \in loaded \/ Free(k) # {})) => []<>(k \in loaded)

-----------------------------------------------------------------------------
(* The pump implements an exclusive allocation of blocks to effects.       *)
Nobody == N
OwnerOf == [b \in Blocks |-> IF \E k \in loaded : CodeBlock(k) = b
                             THEN CHOOSE k \in loaded : CodeBlock(k) = b
                             ELSE Nobody]
Owner == INSTANCE BlockOwner WITH owner <- OwnerOf

(* Every step of the pump takes one free block for one effect that has     *)
(* none, releases one, or leaves the allocation alone.                     *)
AllocatesBlocks == Owner!Spec
=============================================================================
