----------------------------- MODULE MCFreeLoop -----------------------------
(* A loop of two steps and the settings of one track, each with the pedals *)
(* and patterns that bear on it.                                           *)
EXTENDS FreeLoop

Set(role, ubuf, undoto, endmute, pedals) ==
  [c |-> [role |-> role, ubuf |-> ubuf, undoto |-> undoto,
          endmute |-> endmute, chan |-> TRUE],
   pedals |-> pedals, slow |-> FALSE, under |-> FALSE]

(* A track whose steps may outlast the stray guard.                        *)
Slow(x) == [x EXCEPT !.slow = TRUE]

(* A track cleared under its recorders.                                    *)
Under(x) == [x EXCEPT !.under = TRUE]

(* A track whose channel is off.                                           *)
NoChannel(x) == [x EXCEPT !.c.chan = FALSE]

(* UNDO and REDO; UNDO TO 1 after a free take or a first pass; a free take *)
(* and END without an UNDO buffer; a REPLACE pass and UNDO; the patterns'  *)
(* ENTRY and a held PLAY, also without a MIDI channel; a clear of          *)
(* everything; changes of bank.                                            *)
MCUndo == Set("GRID", TRUE, 0, FALSE, {"REC", "UNDO"})
MCReplace == Set("GRID", FALSE, 0, FALSE, {"PLAY", "ARM", "OFF", "REPLACE"})
MCBank == Slow(Set("GRID", TRUE, 0, FALSE, {"BANK", "ARM", "OFF"}))
MCSettings == {
  MCUndo, MCReplace, MCBank,
  Set("FREE", TRUE, 1, FALSE, {"REC", "UNDO"}),
  Set("FREE", FALSE, 0, TRUE, {"REC", "PLAY", "END"}),
  Set("GRID", TRUE, 0, FALSE, {"UNDO", "REPLACE"}),
  Slow(Under(Set("FREE", FALSE, 0, FALSE, {"REC", "CLEAR ALL", "REPLACE"}))),
  Under(Set("GRID", FALSE, 0, FALSE, {"BANK", "ARM", "OFF"})),
  NoChannel(Set("GRID", FALSE, 0, FALSE, {"END", "REPLACE"}))}

(* The runs that follow one hazard.                                        *)
MCUndoOnly == {MCUndo}
MCReplaceOnly == {MCReplace}
MCBankOnly == {Under(MCBank)}
=============================================================================
