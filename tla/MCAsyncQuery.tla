---------------------------- MODULE MCAsyncQuery ----------------------------
(* One statement of each branch, and a semaphore smaller than the batch.   *)
EXTENDS AsyncQuery

MCKind == <<"read", "exec", "plan">>
=============================================================================
