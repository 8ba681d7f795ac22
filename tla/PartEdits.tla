------------------------------ MODULE PartEdits -----------------------------
(***************************************************************************)
(* The second half of store_part_write (modules/store/part.s): the copy of *)
(* the current bank in battery-backed memory (CS1) and the marks by which  *)
(* the stock firmware knows what to save, kept by the modules' writes in   *)
(* step with the stock commands.                                           *)
(*                                                                         *)
(* The stock commands are outside the repository.  They are taken from     *)
(* docs/firmware/PARTS.md, and end their copies and marks before the UI    *)
(* task does anything else.                                                *)
(***************************************************************************)
EXTENDS PartService

VARIABLES
  cur,        \* the current bank, 0x46c82456
  cs1,        \* Part -> CS1's copy of the current bank's working Part
  unsaved,    \* the contexts whose unsaved bit is set
  csUnsaved,  \* the Parts whose bit is set in CS1
  edited,     \* the banks the next bank write writes
  csEdited,   \* CS1's edited flag
  saved,      \* context -> the bytes of the saved Part
  changed,    \* the banks with a Part changed since written to the card
  touched     \* contexts a stock command has overwritten and not yet marked

marks == <<cs1, unsaved, csUnsaved, edited, csEdited>>
rest == <<cur, saved>>
editVars == <<vars, marks, rest, changed, touched>>

(* Nothing of a stock command is under way.                                *)
Idle == stack = <<>> /\ touched = {}

-----------------------------------------------------------------------------
EditsInit ==
  /\ Init
  /\ cur \in Banks
  /\ cs1 = [p \in Parts |-> work[<<cur, p>>]]
  /\ unsaved = {} /\ csUnsaved = {} /\ edited = {} /\ csEdited = FALSE
  /\ saved = work /\ changed = {}
  /\ touched = {}

(* Variants: CS1 is written whatever the bank; the marks are left to the   *)
(* current bank.                                                           *)
MarkEverywhere(c, o, v) ==
  /\ unsaved' = unsaved \cup {c} /\ edited' = edited \cup {c[1]}
  /\ cs1' = [cs1 EXCEPT ![c[2]][o] = v]
  /\ csUnsaved' = csUnsaved \cup {c[2]} /\ csEdited' = TRUE
MarkCurrent(c, o, v) ==
  IF c[1] = cur
  THEN /\ unsaved' = unsaved \cup {c} /\ edited' = edited \cup {cur}
       /\ cs1' = [cs1 EXCEPT ![c[2]][o] = v]
       /\ csUnsaved' = csUnsaved \cup {c[2]} /\ csEdited' = TRUE
  ELSE UNCHANGED marks

(* What a write that changes the byte does beside it, in the same masked   *)
(* section.                                                                *)
Mark(c, o, v) ==
  /\ unsaved' = unsaved \cup {c} /\ edited' = edited \cup {c[1]}
  /\ IF c[1] = cur
     THEN /\ cs1' = [cs1 EXCEPT ![c[2]][o] = v]
          /\ csUnsaved' = csUnsaved \cup {c[2]} /\ csEdited' = TRUE
     ELSE UNCHANGED <<cs1, csUnsaved, csEdited>>

(* store_part_write, whole; an unchanged byte marks nothing.               *)
MarkedWrite(c, o, v) ==
  /\ Idle \/ bank # None
  /\ c \notin touched
  /\ Write(c, o, v)
  /\ IF work[c][o] = v THEN UNCHANGED <<marks, changed>>
     ELSE Mark(c, o, v) /\ changed' = changed \cup {c[1]}
  /\ UNCHANGED <<rest, touched>>

(* The stock code in its copies.                                           *)
StockStep ==
  /\ Stock
  /\ LET news == {c \in Contexts : work'[c] # work[c]}
     IN /\ touched' = touched \cup news
        /\ changed' = changed \cup {c[1] : c \in news}
  /\ UNCHANGED <<marks, rest>>

(* The end of a stock command: the Part copied is copied to CS1, and its   *)
(* unsaved bit set, or cleared by a command that made it equal to the      *)
(* saved one.                                                              *)
Settle(c) ==
  /\ stack = <<>> /\ c \in touched
  /\ touched' = touched \ {c}
  /\ edited' = edited \cup {c[1]}
  /\ \/ unsaved' = unsaved \cup {c}
     \/ work[c] = saved[c] /\ unsaved' = unsaved \ {c}
  /\ IF c[1] = cur
     THEN /\ cs1' = [cs1 EXCEPT ![c[2]] = work[c]]
          /\ csUnsaved' = {p \in Parts : IF p = c[2] THEN c \in unsaved'
                                                     ELSE p \in csUnsaved}
          /\ csEdited' = TRUE
     ELSE UNCHANGED <<cs1, csUnsaved, csEdited>>
  /\ UNCHANGED <<vars, rest, changed>>

(* Part Save: the working Part of the current bank to the saved one.       *)
SavePart(p) ==
  /\ Idle
  /\ saved' = [saved EXCEPT ![<<cur, p>>] = work[<<cur, p>>]]
  /\ unsaved' = unsaved \ {<<cur, p>>} /\ csUnsaved' = csUnsaved \ {p}
  /\ UNCHANGED <<vars, cs1, edited, csEdited, cur, changed, touched>>

(* The bank writer: a bank edited, to its file.                            *)
WriteBank(b) ==
  /\ Idle /\ b \in edited
  /\ changed' = changed \ {b}
  /\ edited' = edited \ {b}
  /\ csEdited' = (csEdited /\ b # cur)
  /\ UNCHANGED <<vars, cs1, unsaved, csUnsaved, cur, saved, touched>>

(* Another bank becomes the current one and is copied to CS1.              *)
SelectBank(b) ==
  /\ Idle /\ b # cur
  /\ cur' = b
  /\ cs1' = [p \in Parts |-> work[<<b, p>>]]
  /\ csUnsaved' = {p \in Parts : <<b, p>> \in unsaved}
  /\ csEdited' = (b \in edited)
  /\ UNCHANGED <<vars, unsaved, edited, saved, changed, touched>>

EditsNext ==
  \/ StockStep
  \/ \E c \in Contexts, o \in Writable, v \in Bytes : MarkedWrite(c, o, v)
  \/ \E c \in Contexts : Settle(c)
  \/ \E p \in Parts : SavePart(p)
  \/ \E b \in Banks : WriteBank(b) \/ SelectBank(b)

EditsSpec == EditsInit /\ [][EditsNext]_editVars

-----------------------------------------------------------------------------
(* Every variable keeps its range.                                         *)
EditsTypeOK ==
  /\ TypeOK
  /\ cur \in Banks
  /\ cs1 \in [Parts -> [Window -> Bytes]]
  /\ unsaved \subseteq Contexts /\ csUnsaved \subseteq Parts
  /\ edited \subseteq Banks /\ csEdited \in BOOLEAN
  /\ saved \in [Contexts -> [Window -> Bytes]] /\ changed \subseteq Banks
  /\ touched \subseteq Contexts

(* CS1, from which the current bank comes back at power-up, agrees with    *)
(* the bank in memory, marks and all, whichever bank's Parts the modules   *)
(* write and whichever bank is selected (part.s:181-196).                  *)
MirrorAgrees ==
  /\ \A p \in Parts :
       <<cur, p>> \notin touched =>
         /\ cs1[p] = work[<<cur, p>>]
         /\ p \in csUnsaved <=> <<cur, p>> \in unsaved
  /\ csEdited <=> cur \in edited

(* No change made through the service is ever without its mark: a Part     *)
(* that differs from its saved one has its unsaved bit, a bank changed     *)
(* since it was written is written by the next bank write                  *)
(* (part.s:181-190).                                                       *)
ChangesAreMarked ==
  /\ \A c \in Contexts \ touched : c \notin unsaved => work[c] = saved[c]
  /\ touched = {} => changed \subseteq edited
=============================================================================
