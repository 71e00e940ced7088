--------------------------- MODULE MCBoardJournal ---------------------------
(***************************************************************************)
(* The bond journal under any legal sequence of callers' operations,       *)
(* EEPROM failures and power cuts, checked against DurableRecord.          *)
(***************************************************************************)
EXTENDS JournalRefinement
=============================================================================
