---------------------------- MODULE PartService -----------------------------
(***************************************************************************)
(* STORE's native Part service (modules/store/part.s, part-copy.s): the    *)
(* wrappers round the stock copy and initialise routines, which keep what  *)
(* readers see of a bank's Parts whole while their bytes are overwritten,  *)
(* and the read and write entries of the modules.                          *)
(*                                                                         *)
(* One UI task copies, initialises and writes; readers interrupt it at any *)
(* point and run to their end.  What they may read at each point is        *)
(* Visible.  The service is taken from its activation on.  A bank's memory *)
(* is kept at the registered offsets of its Parts only: nothing else of it *)
(* is read through the service.  What a write does besides the byte is     *)
(* added by module PartEdits.                                              *)
(***************************************************************************)
EXTENDS Naturals, Sequences

CONSTANTS
  Banks,     \* the banks in memory
  NParts,    \* Parts of a bank, four
  Base,      \* offset of the first working Part in a bank, 0x8ed80
  PartSize,  \* 0x18b2
  BankSize,  \* 0x9b340
  Window,    \* the offsets in the read windows registered
  Writable,  \* the offsets registered for writing
  Bytes,     \* the values of a byte
  Calls,     \* the copies the stock code makes: [bank, off, len]
  Depth,     \* calls within calls
  LastEpoch, \* the last value of a counter before it wraps
  Boot,      \* what the working Parts may hold at first
  Zero,      \* the byte the snapshot is loaded with
  None       \* no bank: store_part_snapshot_bank = 0

Parts == 0 .. NParts - 1
Contexts == Banks \X Parts
PartAt(p) == Base + p * PartSize

ASSUME LayoutAssumption ==
  /\ {NParts, PartSize} \subseteq Nat \ {0}
  /\ {Base, BankSize} \subseteq Nat
  /\ Base + NParts * PartSize <= BankSize

ASSUME WindowAssumption ==
  Window \subseteq 0 .. PartSize - 1 /\ Writable \subseteq Window

(* Copies that span banks are outside the contract (STORE.md).             *)
ASSUME CallsAssumption ==
  /\ Calls \subseteq [bank : Banks, off : Nat, len : Nat]
  /\ \A c \in Calls : c.off + c.len <= BankSize

ASSUME BytesAssumption ==
  Zero \in Bytes /\ Boot \subseteq [Contexts -> [Window -> Bytes]]

ASSUME MiscAssumption ==
  None \notin Banks /\ {Depth, LastEpoch} \subseteq Nat \ {0}

VARIABLES
  work,    \* context -> the bytes of the working Part
  epochs,  \* context -> store_part_epochs
  bank,    \* store_part_snapshot_bank
  parts,   \* store_part_snapshot_parts
  snap,    \* Part -> store_part_snapshot
  ui,      \* the UI task: "run", or in .begin, "snapshot"
  next,    \* the Part it snapshots next
  stack    \* the calls it is in: [call, owns], owns the flag of the frame

vars == <<work, epochs, bank, parts, snap, ui, next, stack>>

-----------------------------------------------------------------------------
(* Ranges of a bank.                                                       *)

End(c) == c.off + c.len
In(a, c) == c.off <= a /\ a < End(c)

(* Variant: a copy that ends at a Part's first byte touches it.            *)
MaskLoose(c) == {p \in Parts : PartAt(p) <= End(c) /\ c.off < PartAt(p) + PartSize}

(* The Parts a copy overlaps (.mask_part).                                 *)
Mask(c) == {p \in Parts : PartAt(p) < End(c) /\ c.off < PartAt(p) + PartSize}

(* The copies that need a transaction.                                     *)
Guarded(c) ==
  /\ c.len > 0
  /\ End(c) <= BankSize
  /\ End(c) > Base /\ c.off < Base + NParts * PartSize

Top == stack[Len(stack)]

(* A call made by the routine that is running stays in its range.          *)
Nests(c) ==
  stack # <<>> => /\ c.bank = Top.call.bank
                  /\ Top.call.off <= c.off /\ End(c) <= End(Top.call)

(* What store_part_read answers for offset o of context c.                 *)
Masked(c) == c[1] = bank /\ c[2] \in parts
Visible(c, o) == IF Masked(c) THEN snap[c[2]][o] ELSE work[c][o]

-----------------------------------------------------------------------------
Init ==
  /\ work \in Boot
  /\ epochs = [c \in Contexts |-> 0]
  /\ bank = None /\ parts = {}
  /\ snap = [p \in Parts |-> [o \in Window |-> Zero]]
  /\ ui = "run" /\ next = 0
  /\ stack = <<>>

Calling(c) == ui = "run" /\ Len(stack) < Depth /\ Nests(c)

(* A copy that touches no Part, or made inside a transaction: no snapshot, *)
(* and the return does nothing.                                            *)
PassThrough(c) ==
  /\ Calling(c) /\ (bank # None \/ ~Guarded(c))
  /\ stack' = Append(stack, [call |-> c, owns |-> FALSE])
  /\ UNCHANGED <<work, epochs, bank, parts, snap, ui, next>>

(* Variant: the bank is published before the snapshot is taken.            *)
BeginEarly(c) ==
  /\ Calling(c) /\ bank = None /\ Guarded(c)
  /\ parts' = Mask(c)
  /\ bank' = c.bank
  /\ ui' = "snapshot" /\ next' = 0
  /\ stack' = Append(stack, [call |-> c, owns |-> TRUE])
  /\ UNCHANGED <<work, epochs, snap>>

(* The start of a transaction, up to the snapshot.                         *)
Begin(c) ==
  /\ Calling(c) /\ bank = None /\ Guarded(c)
  /\ parts' = Mask(c)
  /\ ui' = "snapshot" /\ next' = 0
  /\ stack' = Append(stack, [call |-> c, owns |-> TRUE])
  /\ UNCHANGED <<work, epochs, bank, snap>>

SnapshotPart ==
  /\ ui = "snapshot" /\ next < NParts
  /\ snap' = [snap EXCEPT ![next] = work[<<Top.call.bank, next>>]]
  /\ next' = next + 1
  /\ UNCHANGED <<work, epochs, bank, parts, ui, stack>>

(* Readers turn to the snapshot.                                           *)
Publish ==
  /\ ui = "snapshot" /\ next = NParts
  /\ bank' = Top.call.bank
  /\ ui' = "run"
  /\ UNCHANGED <<work, epochs, parts, snap, next, stack>>

Native == ui = "run" /\ stack # <<>>

(* The stock routine stores a byte somewhere in its range, in any order    *)
(* and as often as it likes, with interrupts as they were.                 *)
NativeByte(p, o, v) ==
  /\ Native /\ In(PartAt(p) + o, Top.call)
  /\ work' = [work EXCEPT ![<<Top.call.bank, p>>][o] = v]
  /\ UNCHANGED <<epochs, bank, parts, snap, ui, next, stack>>

Pop == stack' = SubSeq(stack, 1, Len(stack) - 1)

Bump(e) == IF e = LastEpoch THEN 0 ELSE e + 1

(* Variants: every return publishes; the counters of the whole bank.       *)
FinishInner ==
  /\ Native /\ bank # None
  /\ epochs' = [c \in Contexts |-> IF Masked(c) THEN Bump(epochs[c]) ELSE epochs[c]]
  /\ bank' = None /\ parts' = {}
  /\ Pop
  /\ UNCHANGED <<work, snap, ui, next>>
FinishBank ==
  /\ Native /\ Top.owns
  /\ epochs' = [c \in Contexts |-> IF c[1] = bank THEN Bump(epochs[c]) ELSE epochs[c]]
  /\ bank' = None /\ parts' = {}
  /\ Pop
  /\ UNCHANGED <<work, snap, ui, next>>

(* The return of the call that began the transaction, masked: the counters *)
(* of the Parts replaced, and the incoming bytes.                          *)
Finish ==
  /\ Native /\ Top.owns
  /\ epochs' = [c \in Contexts |-> IF Masked(c) THEN Bump(epochs[c]) ELSE epochs[c]]
  /\ bank' = None /\ parts' = {}
  /\ Pop
  /\ UNCHANGED <<work, snap, ui, next>>

Return ==
  /\ Native /\ ~Top.owns
  /\ Pop
  /\ UNCHANGED <<work, epochs, bank, parts, snap, ui, next>>

(* Variant: no busy check.                                                 *)
AcceptsAlways(c) == c \in Contexts

(* store_part_write answers 0 for a Part being replaced.                   *)
Accepts(c) == ~Masked(c)

(* A write the service accepts, from the UI task: with nothing going on or *)
(* from a callback of the replacement.                                     *)
Write(c, o, v) ==
  /\ ui = "run" /\ Accepts(c)
  /\ work' = [work EXCEPT ![c][o] = v]
  /\ UNCHANGED <<epochs, bank, parts, snap, ui, next, stack>>

Stock ==
  \/ \E c \in Calls : PassThrough(c) \/ Begin(c)
  \/ SnapshotPart \/ Publish
  \/ \E p \in Parts, o \in Window, v \in Bytes : NativeByte(p, o, v)
  \/ Finish \/ Return

Next == Stock \/ \E c \in Contexts, o \in Writable, v \in Bytes : Write(c, o, v)

Spec == Init /\ [][Next]_vars

-----------------------------------------------------------------------------
Frames == [call : Calls, owns : BOOLEAN]

(* Every variable keeps its range.                                         *)
TypeOK ==
  /\ work \in [Contexts -> [Window -> Bytes]]
  /\ epochs \in [Contexts -> 0 .. LastEpoch]
  /\ bank \in Banks \cup {None} /\ parts \subseteq Parts
  /\ snap \in [Parts -> [Window -> Bytes]]
  /\ ui \in {"run", "snapshot"} /\ next \in 0 .. NParts
  /\ stack \in Seq(Frames)

(* Some byte of the Part lies in the range of the copy.                    *)
Overlaps(c, p) == \E o \in 0 .. PartSize - 1 : In(PartAt(p) + o, c)

(* The transaction belongs to the outermost call for as long as it runs,   *)
(* and no byte of a Part is ever in the range of a call outside one        *)
(* (part-copy.s:26-48, 99-121).                                            *)
OuterOwns ==
  /\ \A i \in DOMAIN stack : stack[i].owns => i = 1
  /\ bank # None => stack # <<>> /\ stack[1].owns
  /\ ui = "run" /\ stack # <<>> =>
       /\ stack[1].owns <=> bank # None
       /\ bank = None => \A p \in Parts : ~Overlaps(stack[1].call, p)

(* A write the service accepts can be read back at once: it is never made  *)
(* into a Part whose readers are on the snapshot (part.s:158-203).         *)
AcceptedIsSeen ==
  [][\A c \in Contexts, o \in Writable, v \in Bytes :
       Write(c, o, v) => Visible(c, o)' = v]_vars

(* The counters that move are those of the Parts of which some byte lies   *)
(* in the range of a copy from outside any other, all of them, when it     *)
(* returns (STORE.md: "exactly the affected Parts"; part-copy.s:49-72,     *)
(* 122-138).                                                               *)
CountersExact ==
  [][\A c \in Contexts :
       epochs'[c] # epochs[c] <=>
         /\ stack # <<>> /\ stack' = <<>>
         /\ c[1] = stack[1].call.bank /\ Overlaps(stack[1].call, c[2])]_vars

(* Readers see Parts replaced whole: an outgoing Part until the moment its *)
(* counter moves, the incoming one from then on, other Parts as they are.  *)
Store == INSTANCE PartStore
           WITH content <- [c \in Contexts |-> [o \in Window |-> Visible(c, o)]],
                epoch <- epochs, Epochs <- 0 .. LastEpoch
ReadersSeeWholeParts == Store!Spec
=============================================================================
