----------------------------- MODULE EdgeSelector -----------------------------
(***************************************************************************)
(* Deterministic routing: domain/edge_selector.py picks the one edge a     *)
(* traversal follows out of a node.                                        *)
(*                                                                         *)
(* An edge is a record [src, dst, label, weight, guarded, cond].  A guard  *)
(* condition is represented by its meaning, the set of contexts in which   *)
(* it evaluates to True, so any guard expression is covered.               *)
(* The lexical order of node ids is the constant Rank.                     *)
(***************************************************************************)
EXTENDS Integers

CONSTANTS Nodes,     \* the node ids of the pipeline
          Rank,      \* the position of each node id in lexical order
          NoLabel    \* the label of an edge that has none; also "no routing hint"

ASSUME RankAssumption ==
    /\ Rank \in [Nodes -> Int]
    /\ \A m, n \in Nodes : Rank[m] = Rank[n] => m = n

-----------------------------------------------------------------------------
\* The edge's guard lets it through: no condition, or one that holds in ctx.
Passes(e, ctx) == e.guarded => ctx \in e.cond

Candidates(edges, ctx) == {e \in edges : Passes(e, ctx)}

Bit(b) == IF b THEN 1 ELSE 0

\* The sort key: a condition that holds, then the routing hint's label, then
\* a suggested target, then weight, all descending; then target id ascending.
\* Every component is oriented so that the larger value is preferred.
Score(e, hint, suggested) ==
    << Bit(e.guarded),
       Bit(hint # NoLabel /\ e.label = hint),
       Bit(e.dst \in suggested),
       e.weight,
       -Rank[e.dst] >>

\* Lexicographic comparison of two sort keys.
Exceeds(s, t) ==
    \E i \in 1..5 : s[i] > t[i] /\ \A j \in 1..(i - 1) : s[j] = t[j]

\* e is an edge that select() returns.  Two such edges have the same target.
IsSelected(e, edges, ctx, hint, suggested) ==
    /\ e \in Candidates(edges, ctx)
    /\ \A f \in Candidates(edges, ctx) :
         ~Exceeds(Score(f, hint, suggested), Score(e, hint, suggested))
=============================================================================
