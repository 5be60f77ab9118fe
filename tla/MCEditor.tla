------------------------------ MODULE MCEditor ------------------------------
(* Editor with one query in the history, and short lines in the register.  *)
EXTENDS Editor

(* Bound on the line that is deleted or yanked.                            *)
MaxRegister == 1
ShortRegister == Len(register) <= MaxRegister
=============================================================================
