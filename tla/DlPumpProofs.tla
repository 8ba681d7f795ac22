---------------------------- MODULE DlPumpProofs ----------------------------
(***************************************************************************)
(* DlPump for any number of effects, homes, blocks, tracks and reverbs and *)
(* any of its timings: the invariants its runs check on small instances.   *)
(***************************************************************************)
EXTENDS DlPump, TLAPS

USE DEF Effects, FX1, FX2, Off, Repeats

Assumptions ==
  /\ N \in Nat \ {0} /\ Chunks \in Nat \ {0}
  /\ Debounce \in Nat \ {0} /\ Grace \in Nat \ {0} /\ Repeat \in Nat \ {0}
  /\ Offer \in [Slots -> SUBSET Ids]
  /\ Soft \subseteq Effects

(* What the modules assume of the constants, as the steps below use it.    *)
LEMMA Constants == Assumptions
BY CountAssumption, TimingAssumption, OfferAssumption, SoftAssumption
   DEF Assumptions

(* The elements of a sequence are of its set.                              *)
LEMMA SeqElements ==
  ASSUME NEW S, NEW q \in Seq(S)
  PROVE  Len(q) \in Nat /\ \A i \in 1 .. Len(q) : q[i] \in S
OBVIOUS

(* A home has a block of the window, and home indices start at 1.          *)
LEMMA HomeFacts ==
  ASSUME NEW k \in Effects
  PROVE  /\ 1 \in HomesOf(k)
         /\ HomesOf(k) \subseteq Nat \ {0}
         /\ \A h \in HomesOf(k) : Block(k, h) \in Blocks
<1> DEFINE R == [block : Blocks, reach : SUBSET Reverbs]
<1>1. Homes[k] \in Seq(R) /\ Len(Homes[k]) > 0
  BY HomesAssumption
<1>2. Len(Homes[k]) \in Nat /\ \A h \in 1 .. Len(Homes[k]) : Homes[k][h] \in R
  BY <1>1, SeqElements
<1>3. \A h \in HomesOf(k) : Block(k, h) \in Blocks
  BY <1>2 DEF HomesOf, Block
<1> QED
  BY <1>1, <1>2, <1>3 DEF HomesOf

(***************************************************************************)
(* What holds inductively: the types need the count of repeats not to have *)
(* run out, which needs a repeat owed to be for an effect still loaded,    *)
(* which needs no comparison to be made while one is owed.                 *)
(***************************************************************************)
Inv == TypeOK /\ OneHolder /\ InFlightIsHeld /\ RepeatIsHeld

(* Nothing is loaded, sent or owed when the pump starts.                   *)
LEMMA InitInv == Init => Inv
<1> SUFFICES ASSUME Init PROVE Inv
  OBVIOUS
<1> USE Constants DEF Assumptions
<1>1. \A k \in Effects : home[k] \in HomesOf(k)
  BY HomeFacts DEF Init
<1>2. TypeOK
  BY <1>1 DEF Init, TypeOK, Messages, Ids
<1>3. OneHolder /\ InFlightIsHeld /\ RepeatIsHeld
  BY DEF Init, OneHolder, InFlightIsHeld, RepeatIsHeld
<1> QED
  BY <1>2, <1>3 DEF Inv

(* The part of the types that a pass disturbs.                             *)
PassTypes ==
  /\ seen \in [Effects -> Nat] /\ \A k \in Effects : seen[k] < Debounce
  /\ gone \in [Effects -> Nat] /\ \A k \in Effects : gone[k] < Grace

(* The counts a pass leaves stay below their thresholds.                   *)
LEMMA CountTypes ==
  ASSUME TypeOK, Count
  PROVE  PassTypes'
<1> USE Constants DEF Assumptions
<1>1. ASSUME NEW k \in Effects PROVE seen'[k] \in Nat /\ seen'[k] < Debounce
  BY DEF TypeOK, Count, Loads
<1>2. ASSUME NEW k \in Effects PROVE gone'[k] \in Nat /\ gone'[k] < Grace
  BY DEF TypeOK, Count, Withdraws
<1> QED
  BY <1>1, <1>2 DEF Count, PassTypes

(* A pass is only made when no repeat is owed.                             *)
LEMMA PassOwesNothing ==
  ASSUME Inv, Comparing
  PROVE  rwait = 0 /\ Countdown = 0 /\ state = "idle"
BY DEF Inv, RepeatIsHeld, Comparing, Countdown, TypeOK

(* A load takes a free block for an effect that has none, and owes repeats *)
(* of that very message (pump.s:216-255).                                  *)
LEMMA LoadInv ==
  ASSUME Inv, NEW k \in Effects, Load(k), ping' \in {0, 1}, live' = live
  PROVE  Inv'
<1> USE Constants DEF Assumptions
<1>1. k \notin loaded /\ TypeOK /\ OneHolder
  BY DEF Load, Loads, Wanted, Inv
<1>2. PICK h \in HomesOf(k) :
        /\ Picks(k, h)
        /\ home' = [home EXCEPT ![k] = h]
        /\ busy' = busy \cup {Block(k, h)}
        /\ loaded' = loaded \cup {k}
        /\ rmsg' = [k |-> k, h |-> h]
        /\ Arm([k |-> k, h |-> h])
  BY DEF Load
<1>3. h \in Nat \ {0} /\ Block(k, h) \in Blocks /\ Block(k, h) \notin busy
  BY <1>2, HomeFacts DEF Picks, Free
<1>4. rk' = k /\ rwait' = Repeat /\ rn' = 2
  BY DEF Load
<1>5. home' \in [Effects -> Nat] /\ \A j \in Effects : home'[j] \in HomesOf(j)
  BY <1>1, <1>2, <1>3 DEF TypeOK
<1>6. TypeOK'
  <2>1. Count
    BY DEF Load
  <2>2. msg' \in Messages /\ left' \in 0 .. Chunks /\ left' > 0 /\ state' = "sending"
    BY <1>2, <1>3 DEF Arm, Messages, Size
  <2>3. PassTypes'
    BY <1>1, <2>1, CountTypes
  <2>4. rmsg' \in Messages /\ rk' \in Effects /\ rwait' \in 0 .. Repeat /\ rn' \in 0 .. 2
    BY <1>2, <1>3, <1>4 DEF Messages
  <2>5. loaded' \subseteq Effects /\ busy' \subseteq Blocks /\ live' \in [Slots -> Ids]
    BY <1>1, <1>2, <1>3 DEF TypeOK
  <2> QED
    BY <1>5, <2>2, <2>3, <2>4, <2>5 DEF TypeOK, PassTypes
<1>7. OneHolder'
  <2>1. \A j \in loaded : CodeBlock(j)' = CodeBlock(j) /\ CodeBlock(j) \in busy
    BY <1>1, <1>2 DEF CodeBlock, TypeOK, OneHolder
  <2>2. CodeBlock(k)' = Block(k, h)
    BY <1>1, <1>2 DEF CodeBlock, TypeOK
  <2> QED
    BY <1>1, <1>2, <1>3, <2>1, <2>2 DEF OneHolder
<1>8. InFlightIsHeld' /\ RepeatIsHeld'
  BY <1>1, <1>2, <1>3, <1>4 DEF InFlightIsHeld, RepeatIsHeld, Arm, TypeOK
<1> QED
  BY <1>6, <1>7, <1>8 DEF Inv

(* A withdrawal gives back the one block of its effect, when no repeat is  *)
(* owed (pump.s:256-297).                                                  *)
LEMMA WithdrawInv ==
  ASSUME Inv, NEW k \in Effects, Withdraw(k), ping' \in {0, 1}, live' = live
  PROVE  Inv'
<1> USE Constants DEF Assumptions
<1>1. k \in loaded /\ TypeOK /\ OneHolder
  BY DEF Withdraw, Withdraws, Inv
<1>2. rwait' = 0
  BY PassOwesNothing DEF Withdraw
<1>3. TypeOK'
  <2>1. Count
    BY DEF Withdraw
  <2>2. msg' \in Messages /\ left' \in 0 .. Chunks /\ left' > 0 /\ state' = "sending"
    BY DEF Withdraw, Arm, Messages, Size
  <2>3. PassTypes'
    BY <1>1, <2>1, CountTypes
  <2>4. /\ loaded' \subseteq Effects /\ busy' \subseteq Blocks /\ home' = home
        /\ rk' = rk /\ rn' = rn /\ rmsg' = rmsg
    BY <1>1 DEF TypeOK, Withdraw
  <2>5. live' \in [Slots -> Ids] /\ home' \in [Effects -> Nat]
    BY <1>1, <2>4 DEF TypeOK
  <2>6. \A j \in Effects : home'[j] \in HomesOf(j)
    BY <1>1, <2>4 DEF TypeOK
  <2>7. rwait' \in 0 .. Repeat /\ rn' \in 0 .. 2 /\ rk' \in Effects /\ rmsg' \in Messages
    BY <1>1, <1>2, <2>4 DEF TypeOK
  <2> QED
    BY <2>2, <2>3, <2>4, <2>5, <2>6, <2>7 DEF TypeOK, PassTypes
<1>4. \A j \in Effects : CodeBlock(j)' = CodeBlock(j)
  BY DEF Withdraw, CodeBlock
<1>5. OneHolder' /\ CodeBlock(k)' \notin busy'
  <2>1. loaded' = loaded \ {k} /\ busy' = busy \ {CodeBlock(k)}
    BY DEF Withdraw
  <2>2. loaded \subseteq Effects
    BY <1>1 DEF TypeOK
  <2>3. busy' = {CodeBlock(j) : j \in loaded'}
    BY <1>1, <2>1 DEF OneHolder
  <2>4. {CodeBlock(j) : j \in loaded'} = {CodeBlock(j)' : j \in loaded'}
    BY <1>4, <2>1, <2>2
  <2>5. \A i, j \in loaded' : CodeBlock(i)' = CodeBlock(j)' => i = j
    BY <1>1, <1>4, <2>1, <2>2 DEF OneHolder
  <2> QED
    BY <1>4, <2>1, <2>3, <2>4, <2>5 DEF OneHolder
<1>6. InFlightIsHeld' /\ RepeatIsHeld'
  BY <1>2, <1>5 DEF InFlightIsHeld, RepeatIsHeld, Withdraw, Arm
<1> QED
  BY <1>3, <1>5, <1>6 DEF Inv

(* Every call of dl_pump, and every change of an id, keeps the invariant.  *)
LEMMA NextInv == Inv /\ [Next]_vars => Inv'
<1> SUFFICES ASSUME Inv, [Next]_vars PROVE Inv'
  OBVIOUS
<1> USE Constants DEF Assumptions
<1> DEFINE Quiet == loaded' = loaded /\ home' = home /\ busy' = busy
<1>1. TypeOK /\ OneHolder /\ InFlightIsHeld /\ RepeatIsHeld
  BY DEF Inv
<1>2. ASSUME Quiet PROVE OneHolder'
  BY <1>1, <1>2 DEF OneHolder, CodeBlock
<1>3. CASE Frame
  <2>1. ping' \in {0, 1} /\ live' = live
    BY <1>1, <1>3 DEF Frame, TypeOK
  <2>2. CASE Skip
    BY <1>1, <1>2, <2>1, <2>2
       DEF Skip, Inv, TypeOK, InFlightIsHeld, RepeatIsHeld, CodeBlock, book, counts, repeat
  <2>3. CASE SendChunk
    BY <1>1, <1>2, <2>1, <2>3
       DEF SendChunk, Inv, TypeOK, InFlightIsHeld, RepeatIsHeld, CodeBlock, book, counts, repeat
  <2>4. CASE RingBell
    BY <1>1, <1>2, <2>1, <2>4
       DEF RingBell, Inv, TypeOK, InFlightIsHeld, RepeatIsHeld, CodeBlock, book, counts, repeat
  <2>5. CASE WaitRepeat
    BY <1>1, <1>2, <2>1, <2>5
       DEF WaitRepeat, Inv, TypeOK, InFlightIsHeld, RepeatIsHeld, CodeBlock, book, counts
  <2>6. CASE Resend
    <3>1. /\ rk \in loaded /\ rn > 0 /\ rmsg = [k |-> rk, h |-> home[rk]]
          /\ rk \in Effects /\ rn \in 0 .. 2
      BY <1>1, <2>6 DEF Resend, RepeatIsHeld, TypeOK
    <3>2. home[rk] \in Nat \ {0}
      BY <1>1, <3>1, HomeFacts DEF TypeOK
    <3>3. /\ Quiet /\ rn' = rn - 1 /\ rwait' = (IF rn = 1 THEN 0 ELSE Repeat)
          /\ rk' = rk /\ rmsg' = rmsg /\ seen' = seen /\ gone' = gone
          /\ msg' = rmsg /\ left' = Chunks /\ state' = "sending"
      BY <2>6, <3>1, <3>2 DEF Resend, Arm, Size, book, counts
    <3>4. TypeOK'
      BY <1>1, <2>1, <3>1, <3>3 DEF TypeOK
    <3>5. InFlightIsHeld' /\ RepeatIsHeld'
      BY <3>1, <3>2, <3>3 DEF InFlightIsHeld, RepeatIsHeld
    <3> QED
      BY <1>2, <3>3, <3>4, <3>5 DEF Inv
  <2>7. CASE NothingToDo
    <3>1. state' = "idle" /\ rwait' = 0 /\ Quiet
      BY <2>7, PassOwesNothing DEF NothingToDo, book
    <3>2. TypeOK'
      <4>1. PassTypes'
        BY <1>1, <2>7, CountTypes DEF NothingToDo
      <4>2. msg' = msg /\ left' = left /\ rk' = rk /\ rn' = rn /\ rmsg' = rmsg
        BY <2>7 DEF NothingToDo
      <4>3. /\ live' \in [Slots -> Ids] /\ home' \in [Effects -> Nat]
            /\ loaded' \subseteq Effects /\ busy' \subseteq Blocks
        BY <1>1, <2>1, <3>1 DEF TypeOK
      <4>4. \A j \in Effects : home'[j] \in HomesOf(j)
        BY <1>1, <3>1 DEF TypeOK
      <4>5. msg' \in Messages /\ left' \in 0 .. Chunks
        BY <1>1, <4>2 DEF TypeOK
      <4>6. rwait' \in 0 .. Repeat /\ rn' \in 0 .. 2 /\ rk' \in Effects /\ rmsg' \in Messages
        BY <1>1, <3>1, <4>2 DEF TypeOK
      <4> QED
        BY <2>1, <3>1, <4>1, <4>3, <4>4, <4>5, <4>6 DEF TypeOK, PassTypes
    <3>3. InFlightIsHeld' /\ RepeatIsHeld'
      BY <3>1 DEF InFlightIsHeld, RepeatIsHeld
    <3> QED
      BY <1>2, <3>1, <3>2, <3>3 DEF Inv
  <2>8. ASSUME NEW k \in Effects, Load(k) \/ Withdraw(k) PROVE Inv'
    BY <2>1, <2>8, LoadInv, WithdrawInv
  <2> QED
    BY <1>3, <2>2, <2>3, <2>4, <2>5, <2>6, <2>7, <2>8 DEF Frame, Pump, Compare
<1>4. ASSUME NEW s \in Slots, NEW i \in Offer[s], SetId(s, i) PROVE Inv'
  <2>1. live' \in [Slots -> Ids]
    BY <1>1, <1>4 DEF SetId, TypeOK
  <2> QED
    BY <1>1, <1>2, <1>4, <2>1
       DEF SetId, Inv, TypeOK, InFlightIsHeld, RepeatIsHeld, CodeBlock, book, counts, repeat
<1>5. CASE UNCHANGED vars
  BY <1>1, <1>2, <1>5 DEF vars, Inv, TypeOK, InFlightIsHeld, RepeatIsHeld, CodeBlock
<1> QED
  BY <1>3, <1>4, <1>5 DEF Next

(* The inductive invariant holds of every behaviour of the pump.           *)
THEOREM InvHolds == Spec => []Inv
<1> QED
  BY InitInv, NextInv, PTL DEF Spec

(* The pump's variables keep their ranges: home indices name real homes,   *)
(* the debounce and grace counts stay below their thresholds, a send has   *)
(* chunks to send.                                                         *)
THEOREM TypeCorrect == Spec => []TypeOK
<1>1. Inv => TypeOK
  BY DEF Inv
<1> QED
  BY <1>1, InvHolds, PTL

(* No two demand effects ever hold one block, and dl_busy names exactly    *)
(* the blocks held (pump.s:249-256, 287-291).                              *)
THEOREM HoldersExclusive == Spec => []OneHolder
<1>1. Inv => OneHolder
  BY DEF Inv
<1> QED
  BY <1>1, InvHolds, PTL

(* A message in flight agrees with the books: a load is for an effect      *)
(* still held there, a withdrawal for a block not given away since         *)
(* (pump.s:105-297).                                                       *)
THEOREM MessagesHeld == Spec => []InFlightIsHeld
<1>1. Inv => InFlightIsHeld
  BY DEF Inv
<1> QED
  BY <1>1, InvHolds, PTL

(* A repeat owed is for an effect still loaded where it was sent           *)
(* (pump.s:114-119).                                                       *)
THEOREM RepeatsHeld == Spec => []RepeatIsHeld
<1>1. Inv => RepeatIsHeld
  BY DEF Inv
<1> QED
  BY <1>1, InvHolds, PTL

(* A used effect that is not soft and cannot move is not taken out of its  *)
(* block by any step (pump.s:105-107, 273-279).                            *)
THEOREM HolderKept == Spec => HolderKeeps
<1> DEFINE Kept == \A k \in loaded \ Soft : Used(k) /\ Free(k) = {} => k \in loaded'
<1>1. [Next]_vars => [Kept]_vars
  <2> SUFFICES ASSUME Next,
                      NEW k \in loaded \ Soft, Used(k), Free(k) = {}
               PROVE  k \in loaded'
    OBVIOUS
  <2>1. ASSUME NEW j \in Effects, Load(j) PROVE k \in loaded'
    BY <2>1 DEF Load
  <2>2. ASSUME NEW j \in Effects, Withdraw(j) PROVE k \in loaded'
    <3>1. loaded' = loaded \ {j} /\ Withdraws(j)
      BY <2>2 DEF Withdraw
    <3>2. ~Withdraws(k)
      BY DEF Withdraws, CanMove
    <3> QED
      BY <3>1, <3>2
  <2>3. ASSUME UNCHANGED book PROVE k \in loaded'
    BY <2>3 DEF book
  <2> QED
    BY <2>1, <2>2, <2>3
       DEF Next, Frame, Pump, Skip, SendChunk, RingBell, WaitRepeat, Resend,
           Compare, NothingToDo, SetId
<1> QED
  BY <1>1, PTL DEF Spec, HolderKeeps

-----------------------------------------------------------------------------
(* Coming to rest: what each kind of call brings down.                     *)

(* With books and ids as they are, what an effect needs is what it needed. *)
LEMMA SameNeeds ==
  ASSUME UNCHANGED <<live, book>>
  PROVE  /\ UNCHANGED MessagesToGo
         /\ \A k \in Effects : /\ Used(k)' = Used(k) /\ Wanted(k)' = Wanted(k)
<1>1. loaded' = loaded /\ home' = home /\ busy' = busy /\ live' = live
  BY DEF book
<1>2. \A k, h : Reached(k, h)' = Reached(k, h)
  BY <1>1 DEF Reached
<1>3. \A k : Free(k)' = Free(k)
  BY <1>1, <1>2 DEF Free
<1>4. \A k : /\ Used(k)' = Used(k) /\ Wanted(k)' = Wanted(k)
             /\ Blocked(k)' = Blocked(k)
  BY <1>1, <1>2, <1>3 DEF Used, Wanted, Blocked
<1> QED
  BY <1>1, <1>4 DEF MessagesToGo

(* A load leaves its effect where it stays, and the others where they are. *)
LEMMA LoadNears ==
  ASSUME Inv, NEW k \in Effects, Load(k), live' = live
  PROVE  Falls(MessagesToGo, MessagesToGo')
<1>1. PICK h \in HomesOf(k) : /\ Picks(k, h)
                              /\ home' = [home EXCEPT ![k] = h]
                              /\ loaded' = loaded \cup {k}
  BY DEF Load
<1>2. k \notin loaded /\ Used(k) /\ TypeOK
  BY DEF Load, Loads, Wanted, Inv
<1>3. \A j, g : Reached(j, g)' = Reached(j, g)
  BY DEF Reached
<1>4. \A j : Used(j)' = Used(j)
  BY DEF Used
<1>5. MessagesToGo[k] = 1 /\ MessagesToGo'[k] = 0
  <2>1. ~Reached(k, h) /\ home'[k] = h /\ k \in loaded'
    BY <1>1, <1>2 DEF Picks, Free, TypeOK
  <2>2. ~Blocked(k)'
    BY <1>3, <2>1 DEF Blocked
  <2> QED
    BY <1>2, <1>4, <2>1, <2>2 DEF MessagesToGo
<1>6. ASSUME NEW j \in Effects, j # k
      PROVE  MessagesToGo'[j] = MessagesToGo[j] /\ MessagesToGo[j] \in {0, 1, 2}
  <2>1. home'[j] = home[j] /\ (j \in loaded' <=> j \in loaded)
    BY <1>1, <1>2, <1>6 DEF TypeOK
  <2>2. j \in loaded => Blocked(j)' = Blocked(j)
    BY <1>3, <2>1 DEF Blocked
  <2> QED
    BY <1>4, <2>1, <2>2 DEF MessagesToGo
<1> QED
  BY <1>5, <1>6 DEF Falls

(* A withdrawal is of an effect whose home will not do.                    *)
LEMMA WithdrawNears ==
  ASSUME Inv, NEW k \in Effects, Withdraw(k), live' = live
  PROVE  Falls(MessagesToGo, MessagesToGo')
<1>1. /\ k \in loaded /\ loaded' = loaded \ {k} /\ home' = home
      /\ Used(k) => Blocked(k)
  BY DEF Withdraw, Withdraws, CanMove
<1>2. \A j, g : Reached(j, g)' = Reached(j, g)
  BY DEF Reached
<1>3. \A j : Used(j)' = Used(j)
  BY DEF Used
<1>4. MessagesToGo[k] = 2 /\ MessagesToGo'[k] = 1
  BY <1>1 DEF MessagesToGo
<1>5. ASSUME NEW j \in Effects, j # k
      PROVE  MessagesToGo'[j] = MessagesToGo[j] /\ MessagesToGo[j] \in {0, 1, 2}
  <2>1. j \in loaded' <=> j \in loaded
    BY <1>1, <1>5
  <2>2. j \in loaded => Blocked(j)' = Blocked(j)
    BY <1>1, <1>2, <2>1 DEF Blocked
  <2> QED
    BY <1>3, <2>1, <2>2 DEF MessagesToGo
<1> QED
  BY <1>4, <1>5 DEF Falls

(* A pass that arms nothing brings some count on, or has nothing to do:    *)
(* every effect is where it stays and its count is let be.                 *)
LEMMA PassNears ==
  ASSUME Inv, NothingToDo, live' = live
  PROVE  /\ UNCHANGED <<MessagesToGo, rn, CallsToGo, rwait>>
         /\ \/ Falls(PassesToGo, PassesToGo')
            \/ AtRest /\ UNCHANGED <<state, msg, left, book, counts, repeat>>
<1> USE Constants DEF Assumptions
<1>1. /\ TypeOK /\ rwait = 0 /\ rwait' = 0 /\ state = "idle"
      /\ UNCHANGED <<state, msg, left, book, rk, rn, rmsg>>
  BY PassOwesNothing DEF NothingToDo, Inv
<1>2. UNCHANGED <<MessagesToGo, rn, CallsToGo, rwait>>
  BY <1>1, SameNeeds DEF CallsToGo
<1>3. \A k \in Effects : /\ Used(k)' = Used(k) /\ Wanted(k)' = Wanted(k)
                         /\ k \in loaded' <=> k \in loaded
  BY <1>1, SameNeeds DEF book
<1> DEFINE p == PassesToGo
           q == PassesToGo'
<1>4. ASSUME NEW k \in Effects
      PROVE  /\ q[k] <= p[k]
             /\ ~(q[k] < p[k]) =>
                  Settled(k) /\ seen'[k] = seen[k] /\ gone'[k] = gone[k]
  <2>1. /\ ~Loads(k) /\ ~Withdraws(k) /\ Examined(k)
        /\ seen[k] \in Nat /\ gone[k] \in Nat
    BY <1>1 DEF NothingToDo, Acts, Examined, TypeOK
  <2>2. /\ seen'[k] = IF k \in loaded THEN seen[k]
                      ELSE IF Wanted(k) THEN seen[k] + 1 ELSE 0
        /\ gone'[k] = IF k \notin loaded THEN gone[k]
                      ELSE IF Used(k) THEN 0 ELSE gone[k] + 1
    BY <2>1 DEF NothingToDo, Count
  <2>3. /\ p[k] = IF k \in loaded
                  THEN IF Used(k) THEN gone[k] ELSE Grace - gone[k]
                  ELSE IF Wanted(k) THEN Debounce - seen[k] ELSE seen[k]
        /\ q[k] = IF k \in loaded
                  THEN IF Used(k) THEN gone'[k] ELSE Grace - gone'[k]
                  ELSE IF Wanted(k) THEN Debounce - seen'[k] ELSE seen'[k]
    BY <1>3 DEF PassesToGo
  <2>4. CASE k \in loaded /\ Used(k)
    <3>1. Settled(k)
      BY <2>1, <2>4 DEF Settled, Withdraws, CanMove
    <3> QED
      BY <2>1, <2>2, <2>3, <2>4, <3>1
  <2>5. CASE k \in loaded /\ ~Used(k)
    BY <2>1, <2>2, <2>3, <2>5
  <2>6. CASE k \notin loaded /\ Wanted(k)
    BY <2>1, <2>2, <2>3, <2>6
  <2>7. CASE k \notin loaded /\ ~Wanted(k)
    BY <2>1, <2>2, <2>3, <2>7 DEF Settled
  <2> QED
    BY <2>4, <2>5, <2>6, <2>7
<1>5. ASSUME ~Falls(p, q)
      PROVE  AtRest /\ UNCHANGED <<state, msg, left, book, counts, repeat>>
  <2> HIDE DEF p, q
  <2>1. \A k \in Effects :
          Settled(k) /\ seen'[k] = seen[k] /\ gone'[k] = gone[k]
    BY <1>4, <1>5 DEF Falls
  <2>2. /\ seen \in [Effects -> Nat] /\ gone \in [Effects -> Nat]
        /\ seen' = [k \in Effects |-> seen'[k]]
        /\ gone' = [k \in Effects |-> gone'[k]]
    BY <1>1 DEF TypeOK, NothingToDo, Count
  <2>3. seen' = seen /\ gone' = gone
    BY <2>1, <2>2
  <2> QED
    BY <1>1, <2>1, <2>3 DEF AtRest, counts, repeat, book
<1> QED
  BY <1>2, <1>5

(* Every call of dl_pump that delivers brings the pump closer to rest or   *)
(* finds it there, for every layout and every timing (pump.s:44-297). With *)
(* the ids standing still this can only go on for so long: it is Settles   *)
(* but for the frame interrupts that must come.                            *)
THEOREM PumpNearsRest == Spec => NearsRest
<1> DEFINE Nearer ==
      Frame /\ Delivers =>
        Closer \/ (AtRest /\ UNCHANGED <<state, msg, left, book, counts, repeat>>)
<1>1. Inv => Nearer
  <2> SUFFICES ASSUME Inv, Frame, Delivers
               PROVE  Closer \/ (AtRest /\ UNCHANGED <<state, msg, left, book,
                                                       counts, repeat>>)
    OBVIOUS
  <2>1. TypeOK /\ live' = live /\ ~Skip
    BY DEF Inv, Frame, Delivers, Skip, TypeOK
  <2>2. left \in Nat /\ rn \in Nat /\ rwait \in Nat
    BY <2>1, Constants DEF TypeOK, Assumptions
  <2>3. CASE SendChunk
    <3>1. CallsToGo' < CallsToGo
      BY <2>1, <2>2, <2>3 DEF SendChunk, CallsToGo, TypeOK
    <3> QED
      BY <2>1, <2>3, <3>1, SameNeeds DEF SendChunk, Closer, repeat
  <2>4. CASE RingBell
    <3>1. CallsToGo' < CallsToGo
      BY <2>4 DEF RingBell, CallsToGo
    <3> QED
      BY <2>1, <2>4, <3>1, SameNeeds DEF RingBell, Closer, repeat
  <2>5. CASE WaitRepeat
    <3>1. rwait' < rwait /\ UNCHANGED <<rn, CallsToGo>>
      BY <2>2, <2>5 DEF WaitRepeat, CallsToGo
    <3> QED
      BY <2>1, <2>5, <3>1, SameNeeds DEF WaitRepeat, Closer
  <2>6. CASE Resend
    <3>1. rn' < rn
      BY <2>2, <2>6 DEF Resend
    <3> QED
      BY <2>1, <2>6, <3>1, SameNeeds DEF Resend, Closer
  <2>7. CASE NothingToDo
    BY <2>1, <2>7, PassNears DEF Closer
  <2>8. ASSUME NEW k \in Effects, Load(k) \/ Withdraw(k)
        PROVE  Closer
    BY <2>1, <2>8, LoadNears, WithdrawNears DEF Closer
  <2> QED
    BY <2>1, <2>3, <2>4, <2>5, <2>6, <2>7, <2>8 DEF Frame, Pump, Compare
<1>2. Inv => [Nearer]_vars
  BY <1>1
<1> QED
  BY <1>2, InvHolds, PTL DEF NearsRest

-----------------------------------------------------------------------------
(* Why WantedIsLoaded: an effect that is wanted keeps the passes it has    *)
(* waited, though a pass ends at an earlier effect and whatever the user   *)
(* does, and every pass that examines it counts one more or loads it       *)
(* (pump.s:215-229, 282-286).                                              *)
PlaceKept ==
  [][\A k \in Effects : Wanted(k) =>
       /\ k \in loaded' \/ seen[k] <= seen'[k]
       /\ Compare /\ Examined(k) => k \in loaded' \/ seen'[k] = seen[k] + 1]_vars

(* A pass that examines an effect it should load loads it, and no other.   *)
LEMMA LoadsExamined ==
  ASSUME Compare, NEW k \in Effects, Examined(k), Loads(k)
  PROVE  k \in loaded'
<1>1. k \notin loaded /\ Acts(k)
  BY DEF Loads, Wanted, Acts
<1>2. ASSUME NEW j \in Effects, Arms(j) PROVE j = k
  BY <1>1, <1>2 DEF Arms, Examined, Effects
<1>3. ~NothingToDo
  BY <1>1 DEF NothingToDo
<1>4. PICK j \in Effects : Load(j) \/ Withdraw(j)
  BY <1>3 DEF Compare
<1>5. j = k
  BY <1>2, <1>4 DEF Load, Withdraw
<1>6. Load(k)
  BY <1>1, <1>4, <1>5 DEF Withdraw, Withdraws
<1> QED
  BY <1>6 DEF Load

THEOREM WantedKeepsItsPlace == Spec => PlaceKept
<1> DEFINE Kept(k) ==
      /\ k \in loaded' \/ seen[k] <= seen'[k]
      /\ Compare /\ Examined(k) => k \in loaded' \/ seen'[k] = seen[k] + 1
<1>1. ASSUME Inv, Next, NEW k \in Effects, Wanted(k) PROVE Kept(k)
  <2>1. k \notin loaded /\ seen \in [Effects -> Nat]
    BY <1>1 DEF Wanted, Inv, TypeOK
  <2>2. ASSUME Compare, Examined(k)
        PROVE  k \in loaded' \/ seen'[k] = seen[k] + 1
    <3>1. Count
      BY <2>2 DEF Compare, NothingToDo, Load, Withdraw
    <3>2. CASE Loads(k)
      BY <2>2, <3>2, LoadsExamined
    <3>3. CASE ~Loads(k)
      BY <1>1, <2>1, <2>2, <3>1, <3>3 DEF Count
    <3> QED
      BY <3>2, <3>3
  <2>3. ASSUME Compare, ~Examined(k) PROVE seen'[k] = seen[k]
    <3>1. Count
      BY <2>3 DEF Compare, NothingToDo, Load, Withdraw
    <3> QED
      BY <2>3, <3>1 DEF Count
  <2>4. Compare \/ seen' = seen
    BY <1>1 DEF Next, Frame, Pump, Skip, SendChunk, RingBell, WaitRepeat, Resend,
                SetId, counts
  <2>5. seen[k] \in Nat
    BY <2>1
  <2>6. CASE Compare /\ Examined(k)
    BY <2>2, <2>5, <2>6
  <2>7. CASE ~(Compare /\ Examined(k))
    BY <2>3, <2>4, <2>5, <2>7
  <2> QED
    BY <2>6, <2>7
<1>2. Inv /\ [Next]_vars => [\A k \in Effects : Wanted(k) => Kept(k)]_vars
  BY <1>1
<1> QED
  BY <1>2, InvHolds, PTL DEF Spec, PlaceKept

-----------------------------------------------------------------------------
(* Refinement: the books of the pump are an exclusive allocation.          *)

OwnersAreHolders ==
  /\ OwnerOf = [b \in Blocks |-> OwnerOf[b]]
  /\ \A k \in loaded : CodeBlock(k) \in Blocks /\ OwnerOf[CodeBlock(k)] = k
  /\ \A b \in Blocks : b \notin busy => OwnerOf[b] = Nobody

(* OwnerOf reads the books: the holder of a busy block, nobody's else.     *)
LEMMA OwnerFacts == Inv => OwnersAreHolders
<1> SUFFICES ASSUME Inv PROVE OwnersAreHolders
  OBVIOUS
<1>1. TypeOK /\ OneHolder
  BY DEF Inv
<1>2. ASSUME NEW k \in loaded
      PROVE  CodeBlock(k) \in Blocks /\ OwnerOf[CodeBlock(k)] = k
  <2>1. k \in Effects /\ home[k] \in HomesOf(k)
    BY <1>1 DEF TypeOK
  <2>2. CodeBlock(k) \in Blocks
    BY <2>1, HomeFacts DEF CodeBlock
  <2>3. (CHOOSE j \in loaded : CodeBlock(j) = CodeBlock(k)) = k
    BY <1>1 DEF OneHolder
  <2> QED
    BY <2>1, <2>2, <2>3 DEF OwnerOf
<1>3. ASSUME NEW b \in Blocks, b \notin busy PROVE OwnerOf[b] = Nobody
  BY <1>1, <1>3 DEF OwnerOf, OneHolder
<1>4. OwnerOf = [b \in Blocks |-> OwnerOf[b]]
  BY DEF OwnerOf
<1> QED
  BY <1>2, <1>3, <1>4 DEF OwnersAreHolders

(* A load takes a block nobody owns for an effect that owns none.          *)
LEMMA LoadTakes ==
  ASSUME Inv, Inv', NEW k \in Effects, Load(k)
  PROVE  \E b \in Blocks : Owner!Take(k, b)
<1>1. PICK h \in HomesOf(k) :
        /\ Picks(k, h)
        /\ home' = [home EXCEPT ![k] = h]
        /\ busy' = busy \cup {Block(k, h)}
        /\ loaded' = loaded \cup {k}
  BY DEF Load
<1> DEFINE b == Block(k, h)
<1>2. b \in Blocks /\ b \notin busy /\ k \notin loaded
  BY <1>1, HomeFacts DEF Picks, Free, Load, Loads, Wanted
<1>3. TypeOK /\ OneHolder
  BY DEF Inv
<1>4. CodeBlock(k)' = b /\ \A j \in loaded : CodeBlock(j)' = CodeBlock(j)
  BY <1>1, <1>2, <1>3 DEF CodeBlock, TypeOK
<1>5. OwnersAreHolders /\ OwnersAreHolders'
  BY OwnerFacts, PTL
<1>6. \A c \in Blocks : OwnerOf[c] # k
  <2> SUFFICES ASSUME NEW c \in Blocks PROVE OwnerOf[c] # k
    OBVIOUS
  <2>1. CASE c \in busy
    BY <1>2, <1>3, <2>1, <1>5 DEF OneHolder, OwnersAreHolders
  <2>2. CASE c \notin busy
    BY <2>2, <1>5, Constants DEF Nobody, Assumptions, OwnersAreHolders
  <2> QED
    BY <2>1, <2>2
<1>7. OwnerOf' = [OwnerOf EXCEPT ![b] = k]
  <2>1. ASSUME NEW c \in Blocks PROVE OwnerOf'[c] = IF c = b THEN k ELSE OwnerOf[c]
    <3>1. CASE c = b
      BY <1>1, <1>4, <1>5, <3>1 DEF OwnersAreHolders
    <3>2. CASE c # b /\ c \in busy
      <4>1. PICK j \in loaded : CodeBlock(j) = c
        BY <1>3, <3>2 DEF OneHolder
      <4>2. OwnerOf[c] = j /\ OwnerOf'[c] = j
        BY <1>1, <1>4, <1>5, <4>1 DEF OwnersAreHolders
      <4> QED
        BY <3>2, <4>2
    <3>3. CASE c # b /\ c \notin busy
      BY <1>1, <1>5, <3>3 DEF OwnersAreHolders
    <3> QED
      BY <3>1, <3>2, <3>3
  <2> QED
    BY <1>5, <2>1 DEF OwnersAreHolders
<1>8. OwnerOf[b] = Nobody
  BY <1>2, <1>5 DEF OwnersAreHolders
<1> QED
  BY <1>2, <1>6, <1>7, <1>8 DEF Owner!Take

(* A withdrawal releases the block its effect owns.                        *)
LEMMA WithdrawReleases ==
  ASSUME Inv, Inv', NEW k \in Effects, Withdraw(k)
  PROVE  \E b \in Blocks : Owner!Release(b)
<1> DEFINE b == CodeBlock(k)
<1>1. TypeOK /\ OneHolder /\ k \in loaded
  BY DEF Inv, Withdraw, Withdraws
<1>2. loaded' = loaded \ {k} /\ busy' = busy \ {b}
  BY DEF Withdraw
<1>3. \A j \in Effects : CodeBlock(j)' = CodeBlock(j)
  BY DEF Withdraw, CodeBlock
<1>4. OwnersAreHolders /\ OwnersAreHolders'
  BY OwnerFacts, PTL
<1>5. b \in Blocks /\ OwnerOf[b] # Nobody
  BY <1>1, <1>4, Constants DEF OwnersAreHolders, Nobody, Assumptions
<1>6. OwnerOf' = [OwnerOf EXCEPT ![b] = Nobody]
  <2>1. ASSUME NEW c \in Blocks PROVE OwnerOf'[c] = IF c = b THEN Nobody ELSE OwnerOf[c]
    <3>1. CASE c = b
      BY <1>2, <1>4, <3>1 DEF OwnersAreHolders
    <3>2. CASE c # b /\ c \in busy
      <4>1. PICK j \in loaded : CodeBlock(j) = c
        BY <1>1, <3>2 DEF OneHolder
      <4>2. j \in loaded' /\ CodeBlock(j)' = c
        BY <1>1, <1>2, <1>3, <3>2, <4>1 DEF TypeOK
      <4>3. OwnerOf[c] = j /\ OwnerOf'[c] = j
        BY <1>4, <4>1, <4>2 DEF OwnersAreHolders
      <4> QED
        BY <3>2, <4>3
    <3>3. CASE c # b /\ c \notin busy
      BY <1>2, <1>4, <3>3 DEF OwnersAreHolders
    <3> QED
      BY <3>1, <3>2, <3>3
  <2> QED
    BY <1>4, <2>1 DEF OwnersAreHolders
<1> QED
  BY <1>5, <1>6 DEF Owner!Release

(* The pump implements the exclusive allocation of BlockOwner: a load takes*)
(* a block, a withdrawal releases one, and no other call of dl_pump, nor   *)
(* any change of an id, touches the books (pump.s:216-297).                *)
THEOREM PumpAllocates == Spec => AllocatesBlocks
<1>1. Init => Owner!Init
  BY DEF Init, OwnerOf, Owner!Init
<1>2. Inv /\ Inv' /\ [Next]_vars => [Owner!Next]_OwnerOf
  <2> SUFFICES ASSUME Inv, Inv', [Next]_vars PROVE [Owner!Next]_OwnerOf
    OBVIOUS
  <2>1. ASSUME NEW k \in Effects, Load(k) PROVE Owner!Next
    BY <2>1, LoadTakes DEF Owner!Next
  <2>2. ASSUME NEW k \in Effects, Withdraw(k) PROVE Owner!Next
    BY <2>2, WithdrawReleases DEF Owner!Next
  <2>3. ASSUME UNCHANGED book PROVE OwnerOf' = OwnerOf
    BY <2>3 DEF book, OwnerOf, CodeBlock
  <2> QED
    BY <2>1, <2>2, <2>3
       DEF Next, Frame, Pump, Skip, SendChunk, RingBell, WaitRepeat, Resend,
           Compare, NothingToDo, SetId, vars, book
<1> QED
  BY <1>1, <1>2, InvHolds, PTL DEF Spec, AllocatesBlocks, Owner!Spec
=============================================================================
