------------------------------ MODULE PlanDiff ------------------------------
(***************************************************************************)
(* The comparison of two plans of a query (pkg/plan Diff).  A pair <<o, n>>*)
(* is a node of the old tree and the node of the new one it is compared    *)
(* with; 0 stands for none.                                                *)
(***************************************************************************)
EXTENDS PlanTree

Signature(node) == <<node.op, node.object>>

(* A new child that has no partner yet takes the first old child that is   *)
(* free and fits; matched is what the children have so far, 0 for none,    *)
(* and fits the pairs of both that do.                                     *)
Match(matched, fits, k) ==
    LET free == {f[1] : f \in {f \in fits : f[2] = k}}
                    \ {matched[j] : j \in DOMAIN matched}
    IN  IF k \in DOMAIN matched /\ matched[k] = 0 /\ free # {}
        THEN [matched EXCEPT ![k] =
                 CHOOSE o \in free : \A p \in free : o <= p]
        ELSE matched

(* One pass over the new children, in order.                               *)
Pass(matched, fits) ==
    LET last == GreatestOf(DOMAIN matched)
        after[k \in 0..last] ==
            IF k = 0 THEN matched ELSE Match(after[k - 1], fits, k)
    IN  after[last]

NoPartner(kids) == [k \in kids |-> 0]

SameSignature(old, new, o, n) ==
    {f \in Kids(old, o) \X Kids(new, n) :
        Signature(old.node[f[1]]) = Signature(new.node[f[2]])}

SameOp(old, new, o, n) ==
    {f \in Kids(old, o) \X Kids(new, n) :
        old.node[f[1]].op = new.node[f[2]].op}

(* Mutants of PairChildren: the old children that are left over are        *)
(* forgotten; and children are compared in the order they come.            *)
PairChildrenWithoutRest(old, new, o, n) ==
    LET m == Pass(NoPartner(Kids(new, n)), SameOp(old, new, o, n))
    IN  {<<m[k], k>> : k \in DOMAIN m}

PairChildrenInOrder(old, new, o, n) ==
    LET m == Pass(NoPartner(Kids(new, n)), Kids(old, o) \X Kids(new, n))
    IN  {<<m[k], k>> : k \in DOMAIN m}
            \union ((Kids(old, o) \ {m[k] : k \in DOMAIN m}) \X {0})

(* By operator and object, then by operator, then the rest in order; what  *)
(* is left of the old children is removed.                                 *)
PairChildren(old, new, o, n) ==
    LET alike == Pass(NoPartner(Kids(new, n)), SameSignature(old, new, o, n))
        m == Pass(Pass(alike, SameOp(old, new, o, n)),
                  Kids(old, o) \X Kids(new, n))
    IN  {<<m[k], k>> : k \in DOMAIN m}
            \union ((Kids(old, o) \ {m[k] : k \in DOMAIN m}) \X {0})

(* The pairs below a pair: a node that was added or removed takes its      *)
(* whole subtree with it.                                                  *)
Below(old, new, p) ==
    CASE p[1] = 0 -> {0} \X Kids(new, p[2])
      [] p[2] = 0 -> Kids(old, p[1]) \X {0}
      [] OTHER    -> PairChildren(old, new, p[1], p[2])

(* All the pairs, level by level; the order in which they are listed is    *)
(* left out.                                                               *)
Alignment(old, new) ==
    LET size == Len(old.node) + Len(new.node)
        level[k \in 0..size] ==
            IF k = 0 THEN {<<old.root, new.root>>}
            ELSE UNION {Below(old, new, p) : p \in level[k - 1]}
    IN  UNION {level[k] : k \in 0..size}

(* compareNodes.  It compares neither the objects nor, between two plans   *)
(* that were only explained, actual rows; the estimated rows go with the   *)
(* cost.                                                                   *)
Compare(o, n) ==
    {tag \in {"OP_CHANGED", "INDEX_CHANGED", "COST_CHANGED"} :
        \/ tag = "OP_CHANGED" /\ o.op # n.op
        \/ tag = "INDEX_CHANGED" /\ o.index # n.index
        \/ tag = "COST_CHANGED" /\ o.cost # n.cost}

Tags(old, new, p) ==
    CASE p[1] = 0 -> {"NODE_ADDED"}
      [] p[2] = 0 -> {"NODE_REMOVED"}
      [] OTHER    -> Compare(old.node[p[1]], new.node[p[2]])

Diff(old, new) ==
    {[pair |-> p, tags |-> Tags(old, new, p)] :
        p \in {q \in Alignment(old, new) : Tags(old, new, q) # {}}}
=============================================================================
