----------------------------- MODULE PlanGuard ------------------------------
(***************************************************************************)
(* The policy for EXPLAIN ANALYZE (pkg/plan Guard).  A statement is its    *)
(* leading verb and what it calls, as the regular expressions see them;    *)
(* three verbs stand for all that write.                                   *)
(***************************************************************************)

WriteVerbs == {"INSERT", "UPDATE", "DELETE"}

AnalyzeSupported(dialect) == dialect \in {"postgresql", "mysql"}

(* Mutant of Irreversible: nextval and setval are let through.             *)
IrreversibleRemote(dialect) ==
    IF dialect = "postgresql" THEN {"dblink"} ELSE {}

(* Calls the code looks for because a rollback does not undo them.  Those  *)
(* it lists for Oracle never matter: AnalyzeSupported is false there.      *)
Irreversible(dialect) ==
    IF dialect = "postgresql" THEN {"sequence", "dblink"} ELSE {}

Guard(dialect, text, analyze) ==
    IF ~analyze THEN "ALLOW"
    ELSE IF /\ AnalyzeSupported(dialect)
            /\ text.verb \notin WriteVerbs
            /\ text.calls \intersect Irreversible(dialect) = {}
         THEN "ISOLATE_IN_TX"
         ELSE "BLOCK"
=============================================================================
