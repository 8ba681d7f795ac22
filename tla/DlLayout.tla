------------------------------ MODULE DlLayout ------------------------------
(***************************************************************************)
(* The tables the demand loader is built from (remix.inc, written by       *)
(* modules/dlpump/manifest.py): the demand effects, the blocks of the DSP  *)
(* window each may live in, and the stock reverbs that reach its code      *)
(* there.  Both halves of the loader share them.                           *)
(***************************************************************************)
EXTENDS Naturals, Sequences

CONSTANTS
  N,        \* DL_N, the number of demand effects
  Tracks,   \* the tracks of the machine
  Blocks,   \* the blocks of the shared window, each one track's FX2 buffer
  TrackOf,  \* the track whose FX2 slot is in a block (BLOCK_TRACK)
  Reverbs,  \* the buffered stock reverbs (REVERBS)
  Other,    \* any id that is neither a demand effect nor such a reverb
  Homes,    \* effect -> sequence of its homes [block, reach]
  Soft,     \* the effects whose stock counterpart runs while they are absent
  Chunks    \* chunks of a load message; a withdrawal is one chunk

(* An effect is named by its index in dl_tab, an id by the effect or the   *)
(* reverb it selects.                                                      *)
Effects == 0 .. N - 1
Ids == Effects \cup Reverbs \cup {Other}

(* The sixteen live FX slots: FX1 and FX2 of every track.                  *)
FX1 == 1
FX2 == 2
Slots == {FX1, FX2} \X Tracks

HomesOf(k) == 1 .. Len(Homes[k])
Block(k, h) == Homes[k][h].block

(* The reverbs that write at or above the first word of k's code in home h *)
Reach(k, h) == Homes[k][h].reach

(* A message [k, h] loads effect k into its home h, or withdraws it.       *)
Off == 0
Messages == [k : Effects, h : Nat]
Size(m) == IF m.h = Off THEN 1 ELSE Chunks

ASSUME CountAssumption == {N, Chunks} \subseteq Nat \ {0}

(* Each block is one track's (BLOCK_TRACK).                                *)
ASSUME TrackAssumption ==
  /\ TrackOf \in [Blocks -> Tracks]
  /\ \A a, b \in Blocks : TrackOf[a] = TrackOf[b] => a = b

ASSUME IdsAssumption ==
  /\ Reverbs \cap Effects = {}
  /\ Other \notin Effects \cup Reverbs

ASSUME HomesAssumption ==
  /\ Homes \in [Effects -> Seq([block : Blocks, reach : SUBSET Reverbs])]
  /\ \A k \in Effects : Len(Homes[k]) > 0

(* No effect has two homes in one block (tools/remix/schema.py:2228-2238). *)
ASSUME HomesApartAssumption ==
  \A k \in Effects : \A g, h \in HomesOf(k) : Block(k, g) = Block(k, h) => g = h

ASSUME SoftAssumption == Soft \subseteq Effects
=============================================================================
