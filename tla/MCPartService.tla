--------------------------- MODULE MCPartService ----------------------------
(* Two banks of two Parts.  Memory of a bank: two bytes of patterns, two   *)
(* Parts of two bytes, two bytes of saved Parts.  The copies: both Parts,  *)
(* each Part, the tail of one with the head of the other, the patterns, up *)
(* to the first Part, none.  The other bank: a byte of its second Part.    *)
EXTENDS PartService

CONSTANTS b0, b1

Copy(b, o, n) == [bank |-> b, off |-> o, len |-> n]
MCCalls == {Copy(b0, 2, 4), Copy(b0, 2, 2), Copy(b0, 3, 2), Copy(b0, 3, 1),
            Copy(b0, 0, 2), Copy(b0, 6, 1), Copy(b0, 3, 0), Copy(b1, 4, 1)}
MCBoot == {[c \in {b0, b1} \X {0, 1} |-> [o \in {0, 1} |-> 0]]}
=============================================================================
