----------------------------- MODULE BlockOwner -----------------------------
(***************************************************************************)
(* What the demand loader promises about the window: each block belongs to *)
(* at most one effect and each effect has at most one block; a block       *)
(* changes hands only by being given up first.                             *)
(***************************************************************************)
CONSTANTS Blocks, Effects, Nobody

VARIABLE owner

Init == owner = [b \in Blocks |-> Nobody]

Take(k, b) ==
  /\ owner[b] = Nobody
  /\ \A c \in Blocks : owner[c] # k
  /\ owner' = [owner EXCEPT ![b] = k]

Release(b) ==
  /\ owner[b] # Nobody
  /\ owner' = [owner EXCEPT ![b] = Nobody]

Next == \E b \in Blocks : Release(b) \/ \E k \in Effects : Take(k, b)

Spec == Init /\ [][Next]_owner
=============================================================================
