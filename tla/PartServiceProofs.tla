------------------------- MODULE PartServiceProofs --------------------------
(***************************************************************************)
(* PartService for any banks, Parts, windows and copies: what its run      *)
(* checks on two banks of two Parts.                                       *)
(***************************************************************************)
EXTENDS PartService, TLAPS

(* The working Parts follow one another from Base on, inside the bank.     *)
LEMMA PartFacts ==
  ASSUME NEW p \in Parts
  PROVE  /\ PartAt(p) \in Nat /\ PartSize \in Nat \ {0} /\ Base \in Nat
         /\ Base <= PartAt(p)
         /\ PartAt(p) + PartSize <= Base + NParts * PartSize
<1>1. p \in Nat /\ p + 1 <= NParts /\ NParts \in Nat /\ PartSize \in Nat \ {0}
  BY LayoutAssumption DEF Parts
<1>2. \A a, b, n \in Nat : a + 1 <= b => a * n + n <= b * n
  OBVIOUS
<1>3. p * PartSize \in Nat /\ NParts * PartSize \in Nat
  BY <1>1
<1>4. p * PartSize + PartSize <= NParts * PartSize
  BY <1>1, <1>2
<1> QED
  BY <1>1, <1>3, <1>4, LayoutAssumption DEF PartAt

(* A copy has a bank, and a range inside it.                               *)
LEMMA CallFacts ==
  ASSUME NEW c \in Calls
  PROVE  /\ c.bank \in Banks /\ c.off \in Nat /\ c.len \in Nat
         /\ End(c) = c.off + c.len /\ End(c) \in Nat
         /\ End(c) <= BankSize /\ BankSize \in Nat
BY CallsAssumption, LayoutAssumption DEF End

(* The mask of a copy that is not empty is the set of Parts it overlaps    *)
(* byte for byte (part-copy.s:122-138).                                    *)
LEMMA MaskExact ==
  ASSUME NEW c \in Calls, NEW p \in Parts, c.len > 0
  PROVE  p \in Mask(c) <=> Overlaps(c, p)
<1> USE PartFacts, CallFacts
<1>1. ASSUME p \in Mask(c) PROVE Overlaps(c, p)
  <2>1. PartAt(p) < End(c) /\ c.off < PartAt(p) + PartSize
    BY <1>1 DEF Mask
  <2>2. CASE c.off <= PartAt(p)
    <3>1. 0 \in 0 .. PartSize - 1 /\ In(PartAt(p) + 0, c)
      BY <2>1, <2>2 DEF In
    <3> QED
      BY <3>1 DEF Overlaps
  <2>3. CASE c.off > PartAt(p)
    <3>1. /\ c.off - PartAt(p) \in 0 .. PartSize - 1
          /\ In(PartAt(p) + (c.off - PartAt(p)), c)
      BY <2>1, <2>3 DEF In
    <3> QED
      BY <3>1 DEF Overlaps
  <2> QED
    BY <2>2, <2>3
<1>2. ASSUME Overlaps(c, p) PROVE p \in Mask(c)
  <2>1. PICK o \in 0 .. PartSize - 1 : In(PartAt(p) + o, c)
    BY <1>2 DEF Overlaps
  <2> QED
    BY <2>1 DEF In, Mask
<1> QED
  BY <1>1, <1>2

(* A copy that overlaps a Part gets a transaction (part-copy.s:101-119).   *)
LEMMA GuardComplete ==
  ASSUME NEW c \in Calls, NEW p \in Parts, Overlaps(c, p)
  PROVE  Guarded(c) /\ p \in Mask(c)
<1> USE PartFacts, CallFacts
<1>1. PICK o \in 0 .. PartSize - 1 : In(PartAt(p) + o, c)
  BY DEF Overlaps
<1>2. c.len > 0
  BY <1>1 DEF In
<1>3. End(c) > Base /\ c.off < Base + NParts * PartSize
  <2>1. NParts * PartSize \in Nat
    BY LayoutAssumption
  <2> QED
    BY <1>1, <2>1 DEF In
<1> QED
  BY <1>2, <1>3, MaskExact DEF Guarded

(* A call inside another, and what it inherits.                            *)
Inside(c, d) == c.bank = d.bank /\ d.off <= c.off /\ End(c) <= End(d)

LEMMA InsideFacts ==
  ASSUME NEW c \in Calls, NEW d \in Calls, Inside(c, d)
  PROVE  /\ \A e \in Calls : Inside(d, e) => Inside(c, e)
         /\ \A a \in Nat : In(a, c) => In(a, d)
         /\ Guarded(c) => Guarded(d)
<1> USE CallFacts
<1>1. \A e \in Calls : Inside(d, e) => Inside(c, e)
  BY DEF Inside
<1>2. \A a \in Nat : In(a, c) => In(a, d)
  BY DEF Inside, In
<1>3. ASSUME Guarded(c) PROVE Guarded(d)
  <2>1. NParts * PartSize \in Nat /\ Base \in Nat
    BY LayoutAssumption
  <2> QED
    BY <1>3, <2>1 DEF Inside, Guarded
<1> QED
  BY <1>1, <1>2, <1>3

(***************************************************************************)
(* Every call nests in the outermost one, so what a call overlaps the      *)
(* outermost overlaps too: if a transaction is needed it has begun it, and *)
(* while it takes the snapshot no byte changes.                            *)
(***************************************************************************)
Outer == stack[1].call

Nesting ==
  /\ \A i \in DOMAIN stack : Inside(stack[i].call, Outer)
  /\ \A i \in DOMAIN stack : stack[i].owns => i = 1 /\ Guarded(Outer)

Transaction ==
  /\ bank # None => stack # <<>> /\ bank = Outer.bank /\ parts = Mask(Outer)
  /\ ui = "run" /\ stack # <<>> =>
       /\ stack[1].owns <=> bank # None
       /\ bank = None => ~Guarded(Outer)

Snapshotting ==
  ui = "snapshot" =>
    /\ bank = None /\ parts = Mask(Outer)
    /\ Len(stack) = 1 /\ stack[1].owns
    /\ \A p \in Parts : p < next => snap[p] = work[<<Outer.bank, p>>]

Inv == TypeOK /\ Nesting /\ Transaction /\ Snapshotting

(* The frames of the stack are frames.                                     *)
LEMMA StackFacts ==
  ASSUME stack \in Seq(Frames)
  PROVE  /\ Len(stack) \in Nat /\ DOMAIN stack = 1 .. Len(stack)
         /\ \A i \in DOMAIN stack : /\ stack[i] \in Frames
                                    /\ stack[i].call \in Calls
                                    /\ stack[i].owns \in BOOLEAN
         /\ stack # <<>> => /\ Len(stack) > 0
                            /\ 1 \in DOMAIN stack /\ Len(stack) \in DOMAIN stack
<1>1. /\ Len(stack) \in Nat /\ DOMAIN stack = 1 .. Len(stack)
      /\ \A i \in DOMAIN stack : stack[i] \in Frames
      /\ stack # <<>> => Len(stack) > 0
  OBVIOUS
<1>2. \A f \in Frames : f.call \in Calls /\ f.owns \in BOOLEAN
  BY DEF Frames
<1> QED
  BY <1>1, <1>2

(* Nothing is called when the service is activated.                        *)
LEMMA InitInv == Init => Inv
<1> SUFFICES ASSUME Init PROVE Inv
  OBVIOUS
<1>1. TypeOK
  BY BytesAssumption, MiscAssumption, LayoutAssumption DEF Init, TypeOK
<1>2. Nesting /\ Transaction /\ Snapshotting
  BY DEF Init, Nesting, Transaction, Snapshotting
<1> QED
  BY <1>1, <1>2 DEF Inv

(* A frame pushed leaves those below it as they were.                      *)
LEMMA PushFacts ==
  ASSUME stack \in Seq(Frames), NEW f \in Frames, stack' = Append(stack, f)
  PROVE  /\ stack' \in Seq(Frames) /\ stack' # <<>>
         /\ Len(stack') = Len(stack) + 1
         /\ stack'[Len(stack) + 1] = f
         /\ \A i \in DOMAIN stack : stack'[i] = stack[i]
         /\ \A i \in DOMAIN stack' : i \in DOMAIN stack \/ i = Len(stack) + 1
         /\ stack = <<>> => stack'[1] = f
         /\ stack # <<>> => stack'[1] = stack[1]
OBVIOUS

(* A frame popped leaves those below it as they were.                      *)
LEMMA PopFacts ==
  ASSUME stack \in Seq(Frames), stack # <<>>, Pop
  PROVE  /\ stack' \in Seq(Frames)
         /\ Len(stack') = Len(stack) - 1
         /\ \A i \in DOMAIN stack' : i \in DOMAIN stack /\ stack'[i] = stack[i]
         /\ stack' # <<>> => stack'[1] = stack[1]
<1>1. Len(stack) \in Nat /\ Len(stack) > 0 /\ DOMAIN stack = 1 .. Len(stack)
  OBVIOUS
<1>2. /\ stack' \in Seq(Frames)
      /\ Len(stack') = Len(stack) - 1
      /\ \A i \in 1 .. Len(stack) - 1 : stack'[i] = stack[i]
  BY <1>1 DEF Pop
<1>3. stack' # <<>> => 1 \in DOMAIN stack'
  BY <1>2
<1> QED
  BY <1>1, <1>2, <1>3

(* A call made inside another is inside the outermost.                     *)
LEMMA NestsInside ==
  ASSUME TypeOK, Nesting, NEW c \in Calls, Nests(c), stack # <<>>
  PROVE  Inside(c, Outer)
<1>1. stack \in Seq(Frames)
  BY DEF TypeOK
<1>2. /\ Top.call \in Calls /\ Outer \in Calls
      /\ Inside(c, Top.call) /\ Inside(Top.call, Outer)
  BY <1>1, StackFacts DEF Nesting, Nests, Top, Inside, Outer
<1> QED
  BY <1>2, InsideFacts

(* A call that needs no transaction, or runs in one.                       *)
LEMMA PassThroughInv ==
  ASSUME Inv, NEW c \in Calls, PassThrough(c)
  PROVE  Inv'
<1> DEFINE f == [call |-> c, owns |-> FALSE]
<1> USE DEF Inv, PassThrough, Calling
<1>1. f \in Frames /\ stack \in Seq(Frames) /\ stack' = Append(stack, f)
  BY DEF Frames, TypeOK
<1>2. TypeOK'
  BY <1>1, PushFacts DEF TypeOK
<1>3. CASE stack = <<>>
  <2>1. stack'[1] = f /\ Len(stack') = 1 /\ DOMAIN stack' = {1}
    BY <1>3, <1>1
  <2>2. Outer' = c /\ Inside(c, c)
    BY <2>1, CallFacts DEF Outer, Inside
  <2>3. Nesting'
    BY <2>1, <2>2 DEF Nesting, Outer
  <2>4. bank = None /\ ~Guarded(c)
    BY <1>3 DEF Transaction
  <2>5. Transaction' /\ Snapshotting'
    BY <2>1, <2>2, <2>4 DEF Transaction, Snapshotting, Outer
  <2> QED
    BY <1>2, <2>3, <2>5
<1>4. CASE stack # <<>>
  <2>1. Inside(c, Outer)
    BY <1>4, NestsInside
  <2>2. Outer' = Outer /\ stack'[1] = stack[1] /\ stack' # <<>>
    BY <1>1, <1>4, PushFacts DEF Outer
  <2>3. Nesting'
    BY <1>1, <2>1, <2>2, PushFacts DEF Nesting, Outer, Inside
  <2>4. Transaction' /\ Snapshotting'
    BY <1>4, <2>2 DEF Transaction, Snapshotting
  <2> QED
    BY <1>2, <2>3, <2>4
<1> QED
  BY <1>3, <1>4

(* A transaction is begun by an outermost call only.                       *)
LEMMA BeginsOutermost ==
  ASSUME Inv, NEW c \in Calls, Begin(c)
  PROVE  stack = <<>>
<1> SUFFICES ASSUME stack # <<>> PROVE FALSE
  OBVIOUS
<1> USE DEF Inv, Begin, Calling
<1>1. Inside(c, Outer) /\ Outer \in Calls
  BY NestsInside, StackFacts DEF TypeOK, Outer
<1>2. Guarded(Outer)
  BY <1>1, InsideFacts
<1> QED
  BY <1>2 DEF Transaction

(* The mask is that of the call, which is now the outermost one.           *)
LEMMA BeginInv ==
  ASSUME Inv, NEW c \in Calls, Begin(c)
  PROVE  Inv'
<1> DEFINE f == [call |-> c, owns |-> TRUE]
<1> USE DEF Inv, Begin, Calling
<1>1. f \in Frames /\ stack \in Seq(Frames) /\ stack' = Append(stack, f)
  BY DEF Frames, TypeOK
<1>2. stack'[1] = f /\ Len(stack') = 1 /\ DOMAIN stack' = {1}
  BY <1>1, BeginsOutermost
<1>3. TypeOK'
  BY <1>1, PushFacts, LayoutAssumption DEF TypeOK, Mask
<1>4. Outer' = c /\ Inside(c, c)
  BY <1>2, CallFacts DEF Outer, Inside
<1>5. Nesting'
  BY <1>2, <1>4 DEF Nesting, Outer
<1>6. Transaction' /\ Snapshotting'
  BY <1>2, <1>4 DEF Transaction, Snapshotting, Parts
<1> QED
  BY <1>3, <1>5, <1>6

(* While the snapshot is taken the call that began it is on top.           *)
LEMMA TopIsOuter ==
  ASSUME Inv, ui = "snapshot"
  PROVE  Top.call = Outer /\ Outer \in Calls /\ stack # <<>>
<1>1. Len(stack) = 1 /\ stack \in Seq(Frames)
  BY DEF Inv, Snapshotting, TypeOK
<1>2. ASSUME stack = <<>> PROVE FALSE
  <2>1. Len(<<>>) = 0
    OBVIOUS
  <2> QED
    BY <1>1, <1>2, <2>1
<1> QED
  BY <1>1, <1>2, StackFacts DEF Top, Outer

(* The snapshot grows by the Part copied.                                  *)
LEMMA SnapshotInv ==
  ASSUME Inv, SnapshotPart
  PROVE  Inv'
<1> USE DEF Inv, SnapshotPart
<1>1. next \in Parts /\ next + 1 \in 0 .. NParts
  BY LayoutAssumption DEF TypeOK, Parts
<1>2. Top.call.bank = Outer.bank /\ Outer.bank \in Banks
  BY TopIsOuter, CallFacts
<1>3. work[<<Outer.bank, next>>] \in [Window -> Bytes]
  BY <1>1, <1>2 DEF TypeOK, Contexts
<1>4. snap' \in [Parts -> [Window -> Bytes]]
  BY <1>1, <1>2, <1>3 DEF TypeOK
<1>5. TypeOK'
  BY <1>1, <1>4 DEF TypeOK
<1>6. Nesting' /\ Transaction'
  BY DEF Nesting, Transaction, Outer
<1>7. \A p \in Parts : p < next' => snap'[p] = work[<<Outer.bank, p>>]
  <2> SUFFICES ASSUME NEW p \in Parts, p < next'
               PROVE  snap'[p] = work[<<Outer.bank, p>>]
    OBVIOUS
  <2>1. p < next \/ p = next
    BY LayoutAssumption DEF Parts, TypeOK
  <2> QED
    BY <2>1, <1>2 DEF Snapshotting, TypeOK
<1>8. Snapshotting'
  BY <1>7 DEF Snapshotting, Outer
<1> QED
  BY <1>5, <1>6, <1>8

(* Publication hands the readers the transaction's bank and mask.          *)
LEMMA PublishInv ==
  ASSUME Inv, Publish
  PROVE  Inv'
<1> USE DEF Inv, Publish
<1>1. bank' = Outer.bank /\ Outer.bank \in Banks /\ stack # <<>>
  BY TopIsOuter, CallFacts
<1>2. TypeOK' /\ Nesting'
  BY <1>1 DEF TypeOK, Nesting, Outer
<1>3. Transaction' /\ Snapshotting'
  BY <1>1, MiscAssumption DEF Transaction, Snapshotting, Outer
<1> QED
  BY <1>2, <1>3

(* A byte of a Part the stock code stores is of a Part being replaced: the *)
(* readers do not see it.                                                  *)
LEMMA NativeHidden ==
  ASSUME Inv, NEW p \in Parts, NEW o \in Window, NEW v \in Bytes,
         NativeByte(p, o, v)
  PROVE  bank \in Banks /\ Top.call.bank = bank /\ p \in parts
<1> USE DEF Inv, NativeByte, Native
<1>1. Top.call \in Calls /\ Outer \in Calls /\ Inside(Top.call, Outer)
  BY StackFacts DEF TypeOK, Nesting, Top, Outer
<1>2. PartAt(p) + o \in Nat /\ o \in 0 .. PartSize - 1
  BY PartFacts, WindowAssumption
<1>3. In(PartAt(p) + o, Outer)
  BY <1>1, <1>2, InsideFacts
<1>4. Guarded(Outer) /\ p \in Mask(Outer)
  BY <1>1, <1>2, <1>3, GuardComplete DEF Overlaps
<1> QED
  BY <1>1, <1>4, CallFacts DEF Transaction, Inside

(* What the stock code stores is no business of the service.               *)
LEMMA NativeInv ==
  ASSUME Inv, NEW p \in Parts, NEW o \in Window, NEW v \in Bytes,
         NativeByte(p, o, v)
  PROVE  Inv'
<1> USE DEF Inv, NativeByte, Native
<1>1. TypeOK'
  BY NativeHidden DEF TypeOK, Contexts
<1>2. Nesting' /\ Transaction' /\ Snapshotting'
  BY DEF Nesting, Transaction, Snapshotting, Outer
<1> QED
  BY <1>1, <1>2

(* Nor are the bytes written through it.                                   *)
LEMMA WriteInv ==
  ASSUME Inv, NEW c \in Contexts, NEW o \in Writable, NEW v \in Bytes,
         Write(c, o, v)
  PROVE  Inv'
<1> USE DEF Inv, Write
<1>1. TypeOK'
  BY WindowAssumption DEF TypeOK
<1>2. Nesting' /\ Transaction' /\ Snapshotting'
  BY DEF Nesting, Transaction, Snapshotting, Outer
<1> QED
  BY <1>1, <1>2

(* The call that owns the transaction is the outermost, and the last to    *)
(* return.                                                                 *)
LEMMA FinishIsLast ==
  ASSUME Inv, Finish
  PROVE  /\ bank \in Banks /\ bank = Outer.bank /\ parts = Mask(Outer)
         /\ Outer \in Calls /\ Guarded(Outer)
         /\ Len(stack) = 1 /\ stack' = <<>>
<1> USE DEF Inv, Finish, Native
<1>1. Len(stack) = 1 /\ stack[1].owns /\ Outer \in Calls /\ Guarded(Outer)
  BY StackFacts DEF TypeOK, Nesting, Top, Outer
<1>2. stack' = <<>>
  BY <1>1, PopFacts DEF TypeOK
<1>3. bank # None
  BY <1>1 DEF Transaction
<1> QED
  BY <1>1, <1>2, <1>3 DEF Transaction, TypeOK

(* With the last return the service is at rest.                            *)
LEMMA FinishInv ==
  ASSUME Inv, Finish
  PROVE  Inv'
<1> USE DEF Inv, Finish
<1>1. \A e \in 0 .. LastEpoch : Bump(e) \in 0 .. LastEpoch
  BY MiscAssumption DEF Bump
<1>2. TypeOK'
  <2>1. epochs' \in [Contexts -> 0 .. LastEpoch]
    BY <1>1 DEF TypeOK
  <2>2. stack' \in Seq(Frames)
    BY FinishIsLast
  <2> QED
    BY <2>1, <2>2 DEF TypeOK
<1>3. Nesting' /\ Transaction' /\ Snapshotting'
  BY FinishIsLast DEF Nesting, Transaction, Snapshotting, Native
<1> QED
  BY <1>2, <1>3

(* Any other return leaves the transaction with its owner.                 *)
LEMMA ReturnInv ==
  ASSUME Inv, Return
  PROVE  Inv'
<1> USE DEF Inv, Return, Native
<1>1. stack \in Seq(Frames)
  BY DEF TypeOK
<1>2. TypeOK'
  BY <1>1, PopFacts DEF TypeOK
<1>3. CASE stack' = <<>>
  <2>1. Len(stack) = 1
    BY <1>1, <1>3, PopFacts, StackFacts
  <2>2. ~stack[1].owns
    BY <2>1 DEF Top
  <2>3. bank = None
    BY <2>2 DEF Transaction
  <2> QED
    BY <1>2, <1>3, <2>3 DEF Nesting, Transaction, Snapshotting
<1>4. CASE stack' # <<>>
  <2>1. stack'[1] = stack[1] /\ Outer' = Outer
    BY <1>1, <1>4, PopFacts DEF Outer
  <2>2. Nesting'
    BY <1>1, <2>1, PopFacts DEF Nesting, Inside, Outer
  <2> QED
    BY <1>2, <1>4, <2>1, <2>2 DEF Transaction, Snapshotting
<1> QED
  BY <1>3, <1>4

(* Every step preserves the invariant.                                     *)
LEMMA NextInv == Inv /\ [Next]_vars => Inv'
<1> SUFFICES ASSUME Inv, [Next]_vars PROVE Inv'
  OBVIOUS
<1>1. ASSUME NEW c \in Calls, PassThrough(c) PROVE Inv'
  BY <1>1, PassThroughInv
<1>2. ASSUME NEW c \in Calls, Begin(c) PROVE Inv'
  BY <1>2, BeginInv
<1>3. CASE SnapshotPart
  BY <1>3, SnapshotInv
<1>4. CASE Publish
  BY <1>4, PublishInv
<1>5. ASSUME NEW p \in Parts, NEW o \in Window, NEW v \in Bytes,
             NativeByte(p, o, v)
      PROVE  Inv'
  BY <1>5, NativeInv
<1>6. CASE Finish
  BY <1>6, FinishInv
<1>7. CASE Return
  BY <1>7, ReturnInv
<1>8. ASSUME NEW c \in Contexts, NEW o \in Writable, NEW v \in Bytes,
             Write(c, o, v)
      PROVE  Inv'
  BY <1>8, WriteInv
<1>9. CASE UNCHANGED vars
  BY <1>9 DEF vars, Inv, TypeOK, Nesting, Transaction, Snapshotting, Outer
<1> QED
  BY <1>1, <1>2, <1>3, <1>4, <1>5, <1>6, <1>7, <1>8, <1>9 DEF Next, Stock

(* The inductive invariant of the service.                                 *)
THEOREM InvHolds == Spec => []Inv
BY InitInv, NextInv, PTL DEF Spec

(* Every variable keeps its range.                                         *)
THEOREM TypeCorrect == Spec => []TypeOK
<1>1. Inv => TypeOK
  BY DEF Inv
<1> QED
  BY <1>1, InvHolds, PTL

(* The transaction is the outermost call's, and no call outside one has a  *)
(* byte of a Part in its range.                                            *)
THEOREM OuterAlwaysOwns == Spec => []OuterOwns
<1>1. ASSUME Inv PROVE OuterOwns
  <2>1. stack # <<>> => Outer \in Calls
    BY <1>1, StackFacts DEF Inv, TypeOK, Outer
  <2>2. ASSUME stack # <<>>, ~Guarded(Outer), NEW p \in Parts
        PROVE  ~Overlaps(Outer, p)
    BY <2>1, <2>2, GuardComplete
  <2>3. \A i \in DOMAIN stack : stack[i].owns => i = 1
    BY <1>1 DEF Inv, Nesting
  <2>4. bank # None => ui = "run"
    BY <1>1 DEF Inv, Snapshotting, TypeOK
  <2>5. bank # None => stack # <<>> /\ stack[1].owns
    BY <1>1, <2>4 DEF Inv, Transaction
  <2>6. ui = "run" /\ stack # <<>> =>
          /\ stack[1].owns <=> bank # None
          /\ bank = None => ~Guarded(Outer)
    BY <1>1 DEF Inv, Transaction
  <2> QED
    BY <2>2, <2>3, <2>5, <2>6 DEF OuterOwns, Outer
<1> QED
  BY <1>1, InvHolds, PTL

(***************************************************************************)
(* What readers see.                                                       *)
(***************************************************************************)
content == [c \in Contexts |-> [o \in Window |-> Visible(c, o)]]

Readers == <<content, epochs>>

(* No two values of a counter next to each other are equal.                *)
LEMMA BumpFacts ==
  ASSUME NEW e \in 0 .. LastEpoch
  PROVE  Bump(e) \in 0 .. LastEpoch /\ Bump(e) # e
BY MiscAssumption DEF Bump

(* Readers always read bytes.                                              *)
LEMMA ContentType ==
  ASSUME TypeOK
  PROVE  content \in [Contexts -> [Window -> Bytes]]
BY DEF TypeOK, content, Visible, Masked, Contexts

(* Outside a write and the return of the owner, no step changes what a     *)
(* reader sees: not the copying of the snapshot, not its publication, not  *)
(* the stock code's bytes.                                                 *)
LEMMA StockHidden ==
  ASSUME Inv, [Stock]_vars, ~Finish
  PROVE  UNCHANGED Readers
<1> USE DEF content, Visible, Masked, Readers
<1>1. ASSUME NEW c \in Calls, PassThrough(c) PROVE UNCHANGED Readers
  BY <1>1 DEF PassThrough
<1>2. ASSUME NEW c \in Calls, Begin(c) PROVE UNCHANGED Readers
  <2>1. \A d \in Contexts : d[1] # bank
    BY <1>2, MiscAssumption DEF Begin, Contexts
  <2> QED
    BY <1>2, <2>1 DEF Begin
<1>3. CASE SnapshotPart
  <2>1. \A d \in Contexts : d[1] # bank
    BY <1>3, MiscAssumption DEF SnapshotPart, Contexts, Inv, Snapshotting
  <2> QED
    BY <1>3, <2>1 DEF SnapshotPart
<1>4. CASE Publish
  <2>1. bank' = Outer.bank /\ next = NParts /\ ui = "snapshot"
    BY <1>4, TopIsOuter DEF Publish
  <2>2. \A p \in Parts : snap[p] = work[<<Outer.bank, p>>]
    BY <2>1, LayoutAssumption DEF Inv, Snapshotting, Parts
  <2>3. \A d \in Contexts : d[1] # bank
    BY <2>1, MiscAssumption DEF Contexts, Inv, Snapshotting
  <2>4. \A d \in Contexts : d = <<d[1], d[2]>> /\ d[2] \in Parts
    BY DEF Contexts
  <2>5. \A d \in Contexts, o \in Window : Visible(d, o)' = Visible(d, o)
    BY <1>4, <2>1, <2>2, <2>3, <2>4 DEF Publish
  <2> QED
    BY <1>4, <2>5 DEF Publish
<1>5. ASSUME NEW p \in Parts, NEW o \in Window, NEW v \in Bytes,
             NativeByte(p, o, v)
      PROVE  UNCHANGED Readers
  <2>1. bank \in Banks /\ Top.call.bank = bank /\ p \in parts
    BY <1>5, NativeHidden
  <2>2. \A d \in Contexts : ~Masked(d) => work'[d] = work[d]
    BY <1>5, <2>1 DEF NativeByte, Inv, TypeOK, Contexts
  <2> QED
    BY <1>5, <2>2 DEF NativeByte
<1>6. CASE Return
  BY <1>6 DEF Return
<1>7. CASE UNCHANGED vars
  BY <1>7 DEF vars
<1> QED
  BY <1>1, <1>2, <1>3, <1>4, <1>5, <1>6, <1>7 DEF Stock

(* The return of the owner replaces the Parts of its mask, and no other.   *)
LEMMA FinishReplaces ==
  ASSUME Inv, Finish
  PROVE  Store!Replace(bank, parts)
<1>1. TypeOK' /\ TypeOK
  BY FinishInv DEF Inv
<1>2. content' \in [Contexts -> [Window -> Bytes]]
  BY <1>1 DEF TypeOK, content, Visible, Masked, Contexts
<1>3. ASSUME NEW c \in Contexts
      PROVE  IF Masked(c) THEN epochs'[c] # epochs[c]
             ELSE content'[c] = content[c] /\ epochs'[c] = epochs[c]
  <2>1. c[1] # bank'
    BY MiscAssumption DEF Finish, Contexts
  <2>2. epochs'[c] = IF Masked(c) THEN Bump(epochs[c]) ELSE epochs[c]
    BY DEF Finish
  <2>3. epochs[c] \in 0 .. LastEpoch
    BY <1>1 DEF TypeOK
  <2>4. ~Masked(c) => content'[c] = content[c]
    BY <2>1 DEF Finish, content, Visible, Masked
  <2> QED
    BY <2>2, <2>3, <2>4, BumpFacts
<1> QED
  BY <1>1, <1>2, <1>3
     DEF Store!Replace, Store!Contents, Store!Contexts, Contexts, Masked,
         TypeOK, content

(* A write the service accepts is an edit.                                 *)
LEMMA WriteEdits ==
  ASSUME Inv, NEW c \in Contexts, NEW o \in Writable, NEW v \in Bytes,
         Write(c, o, v)
  PROVE  Store!Edit(c, o, v)
<1>1. work' = [work EXCEPT ![c][o] = v] /\ UNCHANGED <<epochs, bank, parts, snap>>
  BY DEF Write
<1>2. ~Masked(c) /\ o \in Window
  BY WindowAssumption DEF Write, Accepts
<1>3. work \in [Contexts -> [Window -> Bytes]]
  BY DEF Inv, TypeOK
<1>4. \A d \in Contexts, q \in Window :
        Visible(d, q)' = IF d = c /\ q = o THEN v ELSE Visible(d, q)
  BY <1>1, <1>2, <1>3 DEF Visible, Masked
<1>5. content' = [content EXCEPT ![c][o] = v]
  BY <1>4 DEF content
<1> QED
  BY <1>1, <1>5 DEF Store!Edit, content

(* The service implements PartStore: readers see Parts replaced whole, in  *)
(* the step that moves their counters, and edited byte by byte otherwise   *)
(* (STORE.md, Native Part access).                                         *)
THEOREM ServiceImplementsStore == Spec => ReadersSeeWholeParts
<1>1. Init => Store!TypeOK
  <2> SUFFICES ASSUME Init PROVE Store!TypeOK
    OBVIOUS
  <2>1. TypeOK
    BY InitInv DEF Inv
  <2> QED
    BY <2>1, ContentType
       DEF Store!TypeOK, Store!Contents, Store!Contexts, Contexts, content, TypeOK
<1>2. Inv /\ [Next]_vars => [Store!Next]_Readers
  <2> SUFFICES ASSUME Inv, [Next]_vars PROVE Store!Next \/ UNCHANGED Readers
    OBVIOUS
  <2>1. CASE Finish
    <3>1. bank \in Banks /\ parts \in SUBSET Parts
      BY <2>1, FinishIsLast DEF Inv, TypeOK
    <3> QED
      BY <2>1, <3>1, FinishReplaces DEF Store!Next
  <2>2. ASSUME [Stock]_vars, ~Finish PROVE UNCHANGED Readers
    BY <2>2, StockHidden
  <2>3. ASSUME NEW c \in Contexts, NEW o \in Writable, NEW v \in Bytes,
               Write(c, o, v)
        PROVE  Store!Next
    BY <2>3, WriteEdits, WindowAssumption
       DEF Store!Next, Store!Contexts, Contexts
  <2> QED
    BY <2>1, <2>2, <2>3 DEF Next
<1> QED
  BY <1>1, <1>2, InvHolds, PTL
     DEF Spec, ReadersSeeWholeParts, Store!Spec, Readers, content

(* An accepted write is read back at once (part.s:158-203).                *)
THEOREM AcceptedWritesSeen == Spec => AcceptedIsSeen
<1>1. ASSUME Inv, NEW c \in Contexts, NEW o \in Writable, NEW v \in Bytes,
             Write(c, o, v)
      PROVE  Visible(c, o)' = v
  BY <1>1, WindowAssumption
     DEF Write, Accepts, Visible, Masked, Inv, TypeOK
<1>2. Inv /\ [Next]_vars =>
        [\A c \in Contexts, o \in Writable, v \in Bytes :
           Write(c, o, v) => Visible(c, o)' = v]_vars
  BY <1>1
<1> QED
  BY <1>2, InvHolds, PTL DEF Spec, AcceptedIsSeen

(* Only the return of the owner moves counters: those of the Parts its     *)
(* copy overlaps byte for byte (part-copy.s:49-72, 122-138).               *)
THEOREM CountersAreExact == Spec => CountersExact
<1> DEFINE Moved(c) == epochs'[c] # epochs[c]
           Returned(c) == /\ stack # <<>> /\ stack' = <<>>
                          /\ c[1] = Outer.bank /\ Overlaps(Outer, c[2])
<1>1. ASSUME Inv, Finish, NEW c \in Contexts PROVE Moved(c) <=> Returned(c)
  <2>1. /\ bank = Outer.bank /\ parts = Mask(Outer) /\ Outer \in Calls
        /\ stack # <<>> /\ stack' = <<>>
    BY <1>1, FinishIsLast DEF Finish, Native
  <2>2. epochs'[c] = (IF Masked(c) THEN Bump(epochs[c]) ELSE epochs[c])
    BY <1>1 DEF Finish
  <2>3. epochs[c] \in 0 .. LastEpoch
    BY <1>1 DEF Inv, TypeOK
  <2>4. Moved(c) <=> Masked(c)
    BY <2>2, <2>3, BumpFacts
  <2>5. c[2] \in Mask(Outer) <=> Overlaps(Outer, c[2])
    BY <1>1, FinishIsLast, MaskExact DEF Contexts, Guarded
  <2> QED
    BY <2>1, <2>4, <2>5 DEF Masked
<1>2. ASSUME Inv, [Next]_vars, ~Finish, NEW c \in Contexts
      PROVE  ~Moved(c) /\ ~Returned(c)
  <2>1. UNCHANGED epochs
    BY <1>2 DEF Next, Stock, PassThrough, Begin, SnapshotPart, Publish,
                NativeByte, Return, Write, vars
  <2>2. ASSUME stack # <<>>, stack' = <<>> PROVE Return
    BY <1>2, <2>2, PushFacts DEF Next, Stock, PassThrough, Begin, SnapshotPart,
       Publish, NativeByte, Write, vars, Inv, TypeOK, Frames
  <2>3. ASSUME Return, stack # <<>>, stack' = <<>> PROVE ~Guarded(Outer)
    <3>1. Len(stack) = 1
      BY <1>2, <2>3, PopFacts, StackFacts DEF Return, Inv, TypeOK
    <3> QED
      BY <1>2, <2>3, <3>1 DEF Return, Native, Top, Inv, Transaction
  <2>4. stack # <<>> => Outer \in Calls
    BY <1>2, StackFacts DEF Inv, TypeOK, Outer
  <2> QED
    BY <2>1, <2>2, <2>3, <2>4, GuardComplete DEF Contexts
<1>3. Inv /\ [Next]_vars => [\A c \in Contexts : Moved(c) <=> Returned(c)]_vars
  BY <1>1, <1>2
<1> QED
  BY <1>3, InvHolds, PTL DEF Spec, CountersExact, Outer
=============================================================================
