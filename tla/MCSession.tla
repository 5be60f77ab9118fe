------------------------------ MODULE MCSession -----------------------------
(* Texts of no, one and too many statements.                          *)
EXTENDS Session

MCRawCounts == {0, 1, 7}
=============================================================================
