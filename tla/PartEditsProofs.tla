--------------------------- MODULE PartEditsProofs ---------------------------
(***************************************************************************)
(* PartEdits for any banks, Parts, windows and copies: CS1 agrees with the *)
(* current bank, and every change has its mark.                            *)
(***************************************************************************)
EXTENDS PartEdits, PartServiceProofs

(***************************************************************************)
(* ChangesAreMarked says of the banks only what holds with no stock        *)
(* command under way; while one is, a bank it has changed without marking  *)
(* it yet is one of a Part it has touched.                                 *)
(***************************************************************************)
ChangesAreOwed == \A b \in changed : b \in edited \/ \E c \in touched : c[1] = b

MarksInv == MirrorAgrees /\ ChangesAreMarked /\ ChangesAreOwed

EditsInv == Inv /\ EditsTypeOK /\ MarksInv

(* A Part named by its bank and number is a context, and the other way.    *)
LEMMA ContextFacts ==
  /\ \A b \in Banks, p \in Parts : /\ <<b, p>> \in Contexts
                                   /\ <<b, p>>[1] = b /\ <<b, p>>[2] = p
  /\ \A c \in Contexts : c[1] \in Banks /\ c[2] \in Parts /\ c = <<c[1], c[2]>>
BY DEF Contexts

(* At first CS1 is the current bank and nothing is owed.                   *)
LEMMA EditsInitInv == EditsInit => EditsInv
<1> SUFFICES ASSUME EditsInit PROVE EditsInv
  OBVIOUS
<1>1. Inv /\ TypeOK
  BY InitInv DEF EditsInit, Inv
<1>2. EditsTypeOK
  BY <1>1, ContextFacts DEF EditsInit, EditsTypeOK, TypeOK
<1>3. MarksInv
  BY DEF EditsInit, MarksInv, MirrorAgrees, ChangesAreMarked, ChangesAreOwed
<1> QED
  BY <1>1, <1>2, <1>3 DEF EditsInv

(* What Mark does keeps the ranges.                                        *)
LEMMA MarkTypes ==
  ASSUME EditsTypeOK, NEW c \in Contexts, NEW o \in Window, NEW v \in Bytes,
         Mark(c, o, v)
  PROVE  /\ cs1' \in [Parts -> [Window -> Bytes]]
         /\ unsaved' \subseteq Contexts /\ csUnsaved' \subseteq Parts
         /\ edited' \subseteq Banks /\ csEdited' \in BOOLEAN
<1> USE DEF EditsTypeOK, Mark
<1>1. c[1] \in Banks /\ c[2] \in Parts
  BY ContextFacts
<1>2. cs1' \in [Parts -> [Window -> Bytes]]
  <2>1. [cs1 EXCEPT ![c[2]][o] = v] \in [Parts -> [Window -> Bytes]]
    BY <1>1
  <2> QED
    BY <2>1
<1> QED
  BY <1>1, <1>2

(* A write that changes its byte, and marks it.                            *)
LEMMA MarkInv ==
  ASSUME EditsInv, NEW c \in Contexts, NEW o \in Writable, NEW v \in Bytes,
         c \notin touched, Write(c, o, v), Mark(c, o, v),
         changed' = changed \cup {c[1]}, UNCHANGED <<rest, touched>>
  PROVE  MarksInv'
<1> USE DEF EditsInv, EditsTypeOK, rest
<1>1. /\ \A d \in Contexts : d # c => work'[d] = work[d]
      /\ work'[c] = [work[c] EXCEPT ![o] = v]
  BY DEF Write, TypeOK
<1>2. c[1] \in Banks /\ c[2] \in Parts /\ c = <<c[1], c[2]>>
  BY ContextFacts
<1>3. MirrorAgrees'
  <2>1. ASSUME NEW p \in Parts, <<cur, p>> \notin touched
        PROVE  /\ cs1'[p] = work'[<<cur, p>>]
               /\ p \in csUnsaved' <=> <<cur, p>> \in unsaved'
    <3>1. /\ cs1[p] = work[<<cur, p>>]
          /\ p \in csUnsaved <=> <<cur, p>> \in unsaved
      BY <2>1 DEF MarksInv, MirrorAgrees
    <3>2. CASE <<cur, p>> = c
      <4>1. c[1] = cur /\ c[2] = p
        BY <3>2
      <4>2. cs1'[p] = [cs1[p] EXCEPT ![o] = v]
        BY <4>1 DEF Mark
      <4>3. work'[<<cur, p>>] = [work[<<cur, p>>] EXCEPT ![o] = v]
        BY <3>2, <1>1
      <4>4. p \in csUnsaved' /\ <<cur, p>> \in unsaved'
        BY <4>1, <3>2 DEF Mark
      <4> QED
        BY <4>2, <4>3, <4>4, <3>1
    <3>3. CASE <<cur, p>> # c
      <4>1. c[1] # cur \/ c[2] # p
        BY <3>3, <1>2
      <4>2. work'[<<cur, p>>] = work[<<cur, p>>]
        BY <3>3, <1>1, ContextFacts
      <4> QED
        BY <4>1, <4>2, <3>1, <3>3 DEF Mark
    <3> QED
      BY <3>2, <3>3
  <2>2. csEdited' <=> cur \in edited'
    BY DEF Mark, MarksInv, MirrorAgrees
  <2> QED
    BY <2>1, <2>2 DEF MirrorAgrees
<1>4. ChangesAreMarked' /\ ChangesAreOwed'
  BY <1>1 DEF MarksInv, ChangesAreMarked, ChangesAreOwed, Mark
<1> QED
  BY <1>3, <1>4 DEF MarksInv

(* A write through the service, whether it changes the byte or not.        *)
LEMMA MarkedWriteInv ==
  ASSUME EditsInv, NEW c \in Contexts, NEW o \in Writable, NEW v \in Bytes,
         MarkedWrite(c, o, v)
  PROVE  EditsInv'
<1>1. Inv' /\ TypeOK'
  BY WriteInv DEF EditsInv, MarkedWrite, Inv
<1>2. CASE work[c][o] = v
  <2>1. work' = work
    BY <1>2, WindowAssumption DEF MarkedWrite, Write, EditsInv, EditsTypeOK, TypeOK
  <2>2. UNCHANGED <<work, marks, rest, changed, touched>>
    BY <1>2, <2>1 DEF MarkedWrite
  <2> QED
    BY <1>1, <2>2
       DEF EditsInv, EditsTypeOK, MarksInv, MirrorAgrees, ChangesAreMarked,
           ChangesAreOwed, marks, rest
<1>3. CASE work[c][o] # v
  <2>1. /\ c \notin touched /\ Write(c, o, v) /\ Mark(c, o, v)
        /\ changed' = changed \cup {c[1]} /\ UNCHANGED <<rest, touched>>
    BY <1>3 DEF MarkedWrite
  <2>2. o \in Window
    BY WindowAssumption
  <2>3. EditsTypeOK'
    BY <1>1, <2>1, <2>2, MarkTypes, ContextFacts DEF EditsInv, EditsTypeOK, rest
  <2> QED
    BY <1>1, <2>1, <2>3, MarkInv DEF EditsInv
<1> QED
  BY <1>2, <1>3

(* What the stock code copies is owed until the command ends.              *)
LEMMA StockStepInv ==
  ASSUME EditsInv, StockStep
  PROVE  EditsInv'
<1> USE DEF EditsInv, EditsTypeOK, marks, rest
<1>1. Inv' /\ TypeOK'
  BY NextInv DEF StockStep, Next, Inv
<1> DEFINE news == {c \in Contexts : work'[c] # work[c]}
<1>2. /\ touched' = touched \cup news
      /\ changed' = changed \cup {c[1] : c \in news}
      /\ UNCHANGED <<marks, rest>>
  BY DEF StockStep
<1>3. EditsTypeOK'
  BY <1>1, <1>2, ContextFacts
<1>4. \A c \in Contexts : c \notin touched' =>
        c \notin touched /\ work'[c] = work[c]
  BY <1>2
<1>5. MirrorAgrees'
  BY <1>2, <1>4, ContextFacts DEF MarksInv, MirrorAgrees
<1>6. ChangesAreOwed'
  BY <1>2 DEF MarksInv, ChangesAreOwed
<1>7. ChangesAreMarked'
  BY <1>2, <1>4, <1>6 DEF MarksInv, ChangesAreMarked, ChangesAreOwed
<1> QED
  BY <1>1, <1>3, <1>5, <1>6, <1>7 DEF MarksInv

(* The invariant of the service is of its own variables.                   *)
LEMMA ServiceUnchanged ==
  ASSUME Inv, UNCHANGED vars
  PROVE  Inv'
BY NextInv

(* A command that ends pays what it owes of one Part.                      *)
LEMMA SettleInv ==
  ASSUME EditsInv, NEW c \in Contexts, Settle(c)
  PROVE  EditsInv'
<1> USE DEF EditsInv, EditsTypeOK, Settle, rest
<1>1. Inv' /\ work' = work /\ cur' = cur /\ saved' = saved /\ changed' = changed
  BY ServiceUnchanged DEF vars
<1>2. c[1] \in Banks /\ c[2] \in Parts /\ c = <<c[1], c[2]>>
  BY ContextFacts
<1>3. /\ unsaved' \subseteq Contexts
      /\ \A d \in Contexts : d # c => (d \in unsaved' <=> d \in unsaved)
      /\ c \notin unsaved' => work[c] = saved[c]
  OBVIOUS
<1>4. EditsTypeOK'
  <2>1. TypeOK'
    BY <1>1 DEF Inv
  <2>2. work[c] \in [Window -> Bytes]
    BY DEF TypeOK
  <2>3. cs1' \in [Parts -> [Window -> Bytes]]
    BY <1>2, <2>2
  <2> QED
    BY <1>1, <1>2, <1>3, <2>1, <2>3
<1>5. MirrorAgrees'
  <2>1. ASSUME NEW p \in Parts, <<cur, p>> \notin touched'
        PROVE  /\ cs1'[p] = work[<<cur, p>>]
               /\ p \in csUnsaved' <=> <<cur, p>> \in unsaved'
    <3>1. CASE <<cur, p>> = c
      <4>1. c[1] = cur /\ c[2] = p
        BY <3>1
      <4> QED
        BY <4>1, <3>1
    <3>2. CASE <<cur, p>> # c
      <4>1. /\ c[1] # cur \/ c[2] # p
            /\ <<cur, p>> \in Contexts /\ <<cur, p>> \notin touched
        BY <3>2, <1>2, <2>1, ContextFacts
      <4>2. /\ cs1[p] = work[<<cur, p>>]
            /\ p \in csUnsaved <=> <<cur, p>> \in unsaved
        BY <4>1 DEF MarksInv, MirrorAgrees
      <4>3. <<cur, p>> \in unsaved' <=> <<cur, p>> \in unsaved
        BY <3>2, <4>1, <1>3
      <4>4. cs1'[p] = cs1[p]
        BY <4>1
      <4>5. p \in csUnsaved' <=> p \in csUnsaved
        BY <4>1, <4>2, <4>3
      <4> QED
        BY <4>2, <4>3, <4>4, <4>5
    <3> QED
      BY <3>1, <3>2
  <2>2. csEdited' <=> cur \in edited'
    BY DEF MarksInv, MirrorAgrees
  <2> QED
    BY <1>1, <2>1, <2>2 DEF MirrorAgrees
<1>6. ChangesAreOwed'
  BY <1>1 DEF MarksInv, ChangesAreOwed
<1>7. ChangesAreMarked'
  BY <1>1, <1>3, <1>6 DEF MarksInv, ChangesAreMarked, ChangesAreOwed
<1> QED
  BY <1>1, <1>4, <1>5, <1>6, <1>7 DEF MarksInv

(* Part Save takes two marks away together.                                *)
LEMMA SavePartInv ==
  ASSUME EditsInv, NEW p \in Parts, SavePart(p)
  PROVE  EditsInv'
<1> USE DEF EditsInv, EditsTypeOK, SavePart, Idle
<1> DEFINE c == <<cur, p>>
<1>1. Inv' /\ work' = work /\ c \in Contexts
  BY ServiceUnchanged, ContextFacts DEF vars
<1>2. /\ saved' \in [Contexts -> [Window -> Bytes]] /\ saved'[c] = work[c]
      /\ \A d \in Contexts : d # c => saved'[d] = saved[d]
  BY <1>1 DEF TypeOK
<1>3. EditsTypeOK'
  BY <1>1, <1>2 DEF Inv
<1>4. MirrorAgrees'
  BY <1>1 DEF MarksInv, MirrorAgrees
<1>5. ChangesAreMarked' /\ ChangesAreOwed'
  BY <1>1, <1>2 DEF MarksInv, ChangesAreMarked, ChangesAreOwed
<1> QED
  BY <1>1, <1>3, <1>4, <1>5 DEF MarksInv

(* A bank on the card is a bank with nothing to write.                     *)
LEMMA WriteBankInv ==
  ASSUME EditsInv, NEW b \in Banks, WriteBank(b)
  PROVE  EditsInv'
<1> USE DEF EditsInv, EditsTypeOK, WriteBank, Idle
<1>1. Inv' /\ work' = work
  BY ServiceUnchanged DEF vars
<1>2. EditsTypeOK'
  BY <1>1 DEF Inv
<1>3. MarksInv'
  BY <1>1 DEF MarksInv, MirrorAgrees, ChangesAreMarked, ChangesAreOwed
<1> QED
  BY <1>1, <1>2, <1>3

(* CS1 starts again from the bank selected, its marks with it.             *)
LEMMA SelectBankInv ==
  ASSUME EditsInv, NEW b \in Banks, SelectBank(b)
  PROVE  EditsInv'
<1> USE DEF EditsInv, EditsTypeOK, SelectBank, Idle
<1>1. Inv' /\ work' = work
  BY ServiceUnchanged DEF vars
<1>2. \A p \in Parts : work[<<b, p>>] \in [Window -> Bytes]
  BY ContextFacts DEF TypeOK
<1>3. EditsTypeOK'
  <2>1. TypeOK' /\ cs1' \in [Parts -> [Window -> Bytes]]
    BY <1>1, <1>2 DEF Inv
  <2>2. csUnsaved' \subseteq Parts /\ csEdited' \in BOOLEAN
    OBVIOUS
  <2> QED
    BY <2>1, <2>2
<1>4. MarksInv'
  BY <1>1 DEF MarksInv, MirrorAgrees, ChangesAreMarked, ChangesAreOwed
<1> QED
  BY <1>1, <1>3, <1>4

(* Every step preserves the invariant.                                     *)
LEMMA EditsNextInv == EditsInv /\ [EditsNext]_editVars => EditsInv'
<1> SUFFICES ASSUME EditsInv, [EditsNext]_editVars PROVE EditsInv'
  OBVIOUS
<1>1. CASE StockStep
  BY <1>1, StockStepInv
<1>2. ASSUME NEW c \in Contexts, NEW o \in Writable, NEW v \in Bytes,
             MarkedWrite(c, o, v)
      PROVE  EditsInv'
  BY <1>2, MarkedWriteInv
<1>3. ASSUME NEW c \in Contexts, Settle(c) PROVE EditsInv'
  BY <1>3, SettleInv
<1>4. ASSUME NEW p \in Parts, SavePart(p) PROVE EditsInv'
  BY <1>4, SavePartInv
<1>5. ASSUME NEW b \in Banks, WriteBank(b) PROVE EditsInv'
  BY <1>5, WriteBankInv
<1>6. ASSUME NEW b \in Banks, SelectBank(b) PROVE EditsInv'
  BY <1>6, SelectBankInv
<1>7. CASE UNCHANGED editVars
  <2>1. Inv'
    BY <1>7, ServiceUnchanged DEF EditsInv, editVars
  <2> QED
    BY <1>7, <2>1
       DEF editVars, vars, marks, rest, EditsInv, EditsTypeOK, MarksInv,
           MirrorAgrees, ChangesAreMarked, ChangesAreOwed, Inv
<1> QED
  BY <1>1, <1>2, <1>3, <1>4, <1>5, <1>6, <1>7 DEF EditsNext

(* With the marks the service is still the service: what is proved of it   *)
(* holds of the writes that mark and of the stock commands.                *)
THEOREM EditsImplementService == EditsSpec => Spec
<1>1. EditsInit => Init
  BY DEF EditsInit
<1>2. [EditsNext]_editVars => [Next]_vars
  BY DEF EditsNext, StockStep, MarkedWrite, Settle, SavePart, WriteBank,
         SelectBank, Next, editVars
<1> QED
  BY <1>1, <1>2, PTL DEF EditsSpec, Spec

(* The inductive invariant of the marks.                                   *)
THEOREM EditsInvHolds == EditsSpec => []EditsInv
BY EditsInitInv, EditsNextInv, PTL DEF EditsSpec

(* Every variable keeps its range.                                         *)
THEOREM EditsTypesHold == EditsSpec => []EditsTypeOK
<1>1. EditsInv => EditsTypeOK
  BY DEF EditsInv
<1> QED
  BY <1>1, EditsInvHolds, PTL

(* CS1 agrees with the current bank, whichever bank's Parts the modules    *)
(* write and whichever is selected (part.s:181-196).                       *)
THEOREM MirrorAlwaysAgrees == EditsSpec => []MirrorAgrees
<1>1. EditsInv => MirrorAgrees
  BY DEF EditsInv, MarksInv
<1> QED
  BY <1>1, EditsInvHolds, PTL

(* A change is never without its mark (part.s:181-190).                    *)
THEOREM ChangesAlwaysMarked == EditsSpec => []ChangesAreMarked
<1>1. EditsInv => ChangesAreMarked
  BY DEF EditsInv, MarksInv
<1> QED
  BY <1>1, EditsInvHolds, PTL
=============================================================================
