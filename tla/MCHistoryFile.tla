--------------------------- MODULE MCHistoryFile ----------------------------
(* Two saves race, and further ones follow or precede the race.            *)
EXTENDS HistoryFile
=============================================================================
