------------------------------ MODULE MCBrowse ------------------------------
(* Browse with two schemas, a name that must be quoted in PostgreSQL and   *)
(* Oracle, and two databases: homonyms in both schemas, and a quoted name  *)
(* without its folded homonym next to a schema with a view only.           *)
EXTENDS Browse, TLC

CONSTANTS main, aux, plain, quoted

MCFold == [n \in Names |-> plain]

Holding(tables, views) ==
    [p \in Places |-> IF p \in tables THEN "table" ELSE IF p \in views THEN "view" ELSE "none"]

Mine == At(main, plain)
Quoted == At(main, quoted)
Other == At(aux, plain)

MCDatabases == {Holding({Mine, Other}, {}), Holding({Quoted}, {Other})}

(* Bound: changes, requests for tabs and reloads, Budget of them together. *)
Budget == 3
Small == changes + Cardinality({x \in Metas : meta[x].at # "idle"})
                 + Cardinality({r \in Reads : r # Boot /\ read[r].at # "idle"}) <= Budget

Symmetry == Permutations(Metas)
=============================================================================
