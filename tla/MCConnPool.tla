----------------------------- MODULE MCConnPool -----------------------------
(* More goroutines and connections than the idle ones the pool keeps.      *)
EXTENDS ConnPool
=============================================================================
