---------------------------- MODULE MCPartEdits -----------------------------
(* Two banks of two Parts of one byte; the copies replace the second Part  *)
(* of the first bank.                                                      *)
EXTENDS PartEdits

CONSTANTS b0, b1

Copy(b, o, n) == [bank |-> b, off |-> o, len |-> n]
MCCalls == {Copy(b0, 2, 1)}
MCBoot == {[c \in {b0, b1} \X {0, 1} |-> [o \in {0} |-> 0]]}
=============================================================================
