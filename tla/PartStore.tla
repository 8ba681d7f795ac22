----------------------------- MODULE PartStore ------------------------------
(***************************************************************************)
(* What STORE's native Part service promises its readers                   *)
(* (docs/specs/STORE.md, Native Part access): a Part is replaced whole, in *)
(* one step with the counters of exactly the Parts replaced, and is        *)
(* otherwise changed one writable byte at a time by an edit.               *)
(***************************************************************************)
CONSTANTS
  Banks, Parts,
  Window,   \* the offsets of a Part readers may read
  Writable, \* those an edit may change
  Bytes,
  Epochs    \* the values of a replacement counter

VARIABLES
  content,  \* context -> what a reader reads there
  epoch     \* context -> its replacement counter

(* A context is a bank and a Part of it.                                   *)
Contexts == Banks \X Parts

Contents == [Contexts -> [Window -> Bytes]]

TypeOK == content \in Contents /\ epoch \in [Contexts -> Epochs]

(* Parts S of bank b are replaced: their bytes become any others, and      *)
(* their counters, and nobody else's, any other.                           *)
Replace(b, S) ==
  /\ content' \in Contents /\ epoch' \in [Contexts -> Epochs]
  /\ \A c \in Contexts :
       IF c[1] = b /\ c[2] \in S
       THEN epoch'[c] # epoch[c]
       ELSE content'[c] = content[c] /\ epoch'[c] = epoch[c]

Edit(c, o, v) ==
  /\ content' = [content EXCEPT ![c][o] = v]
  /\ UNCHANGED epoch

Next ==
  \/ \E b \in Banks : \E S \in SUBSET Parts : Replace(b, S)
  \/ \E c \in Contexts, o \in Writable, v \in Bytes : Edit(c, o, v)

Spec == TypeOK /\ [][Next]_<<content, epoch>>
=============================================================================
