------------------------------ MODULE Catalog -------------------------------
(***************************************************************************)
(* The catalog tree of the sidebar (pkg/bubbletui/sidebar.go): a batch     *)
(* that ran a DDL statement makes the sidebar read the catalog again in a  *)
(* command of its own, whose answer replaces the tree whenever it arrives. *)
(*                                                                         *)
(* Catalogs are compared by their version: how many changes the database   *)
(* had made when they were read.  Reads are taken to be atomic.            *)
(***************************************************************************)
EXTENDS Naturals

CONSTANT Batches    \* the batches that may ask for a reload

VARIABLES
    db,         \* version of the catalog in the database
    tree,       \* version shown by the sidebar
    reload,     \* reload[b]: progress of the reload batch b asked for
    snapshot    \* snapshot[b]: the version that reload read

vars == <<db, tree, reload, snapshot>>

Progress == {"none", "asked", "read", "failed", "shown", "refused"}

Init ==
    /\ db = 0
    /\ tree = 0
    /\ reload = [b \in Batches |-> "none"]
    /\ snapshot = [b \in Batches |-> 0]

(* A statement changes the catalog in the database.                        *)
Alter ==
    /\ db' = db + 1
    /\ UNCHANGED <<tree, reload, snapshot>>

(* Mutant of QuerySuccess: the sidebar ignores reloadCatalog.              *)
NeverReloads(b, reloadCatalog) == UNCHANGED vars

(* querySuccessMsg: updateGraph() is returned as a command.                *)
QuerySuccess(b, reloadCatalog) ==
    /\ reload' = [reload EXCEPT ![b] = IF reloadCatalog THEN "asked" ELSE @]
    /\ UNCHANGED <<db, tree, snapshot>>

(* The command reads the catalog, or fails to.                             *)
ReadCatalog(b) ==
    /\ reload[b] = "asked"
    /\ reload' = [reload EXCEPT ![b] = "read"]
    /\ snapshot' = [snapshot EXCEPT ![b] = db]
    /\ UNCHANGED <<db, tree>>

CatalogError(b) ==
    /\ reload[b] = "asked"
    /\ reload' = [reload EXCEPT ![b] = "failed"]
    /\ UNCHANGED <<db, tree, snapshot>>

(* updateGraphMsg: the tree is whatever the message carries.               *)
UpdateGraph(b) ==
    /\ reload[b] = "read"
    /\ tree' = snapshot[b]
    /\ reload' = [reload EXCEPT ![b] = "shown"]
    /\ UNCHANGED <<db, snapshot>>

(* updateGraphErrMsg leaves the tree alone.                                *)
UpdateGraphErr(b) ==
    /\ reload[b] = "failed"
    /\ reload' = [reload EXCEPT ![b] = "refused"]
    /\ UNCHANGED <<db, tree, snapshot>>

Reloading == \E b \in Batches : reload[b] \in {"asked", "read", "failed"}
=============================================================================
