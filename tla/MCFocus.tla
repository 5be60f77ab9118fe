------------------------------ MODULE MCFocus -------------------------------
(* Two schemas tell the one set from the one shown; one message of each    *)
(* sort under way already lets modals open and close over one another.     *)
EXTENDS Focus
=============================================================================
