---------------------------------- MODULE Dag ----------------------------------
(***************************************************************************)
(* The dependency graph of a cascade, internal/dag/dag.go.  An edge        *)
(* <<n, d>> says that n depends on d: d must be merged before n            *)
(* (AddDependency).  The operators say what TopologicalSort promises; the  *)
(* module TopologicalSort models the loop that computes it.                *)
(***************************************************************************)
EXTENDS Naturals

\* The nodes n depends on: the map Graph.dependencies.
DependsOn(n, edges) == {e[2] : e \in {x \in edges : x[1] = n}}

\* The graph of a set of children and the edges read for them.  AddDependency
\* adds an end of an edge that is not a node yet.
GraphNodes(children, edges) ==
    children \cup {e[1] : e \in edges} \cup {e[2] : e \in edges}

\* No set of nodes waits for itself: the graphs TopologicalSort accepts.
Acyclic(nodes, edges) ==
    \A S \in SUBSET nodes :
        S # {} => \E n \in S : DependsOn(n, edges) \cap S = {}

\* Mutant: the batch forgets the dependencies.
EveryNode(todo, edges) == todo

\* The next batch when `todo` is what the earlier batches have left.
ReadyBatch(todo, edges) == {n \in todo : DependsOn(n, edges) \cap todo = {}}

================================================================================
