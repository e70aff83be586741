---------------------------- MODULE TopologicalSort ----------------------------
(***************************************************************************)
(* The loop of Graph.TopologicalSort, internal/dag/dag.go, over every      *)
(* graph on the nodes of Node, self-dependencies included.  The engine     *)
(* builds it from the table child_pr_dependencies, whose primary key is    *)
(* the pair of ids: no edge is there twice.                                *)
(***************************************************************************)
EXTENDS Dag, Integers, Sequences, FiniteSets

CONSTANT Node     \* the ids of the graph

ASSUME NodeAssumption == IsFiniteSet(Node)

VARIABLES edges,      \* Graph.dependencies and, read backwards, dependents
          inDegree,
          batches,    \* the batches returned, each as a set
          current,    \* nodes of currentBatch still to be marked
          pc

vars == <<edges, inDegree, batches, current, pc>>

TypeOK ==
    /\ edges \subseteq Node \X Node
    /\ inDegree \in [Node -> Nat \cup {-1}]
    /\ batches \in Seq(SUBSET Node)
    /\ current \subseteq Node
    /\ pc \in {"collect", "mark", "sorted", "cycle"}

\* A graph without nodes is sorted at once: no batch, no error.
Init ==
    /\ edges \in SUBSET (Node \X Node)
    /\ inDegree = [n \in Node |-> Cardinality(DependsOn(n, edges))]
    /\ batches = << >>
    /\ current = {}
    /\ pc = "collect"

\* Mutant: off by one in the in-degree of a ready node.
CollectAlmostReady ==
    /\ pc = "collect"
    /\ current' = {n \in Node : inDegree[n] \in {0, 1}}
    /\ current' # {}
    /\ batches' = Append(batches, current')
    /\ pc' = "mark"
    /\ UNCHANGED <<edges, inDegree>>

\* The nodes whose in-degree is 0 now are the next batch.
CollectBatch ==
    /\ pc = "collect"
    /\ current' = {n \in Node : inDegree[n] = 0}
    /\ current' # {}
    /\ batches' = Append(batches, current')
    /\ pc' = "mark"
    /\ UNCHANGED <<edges, inDegree>>

\* Marks one node of the batch and takes it off the in-degree of its dependents,
\* never below 0.  The order within a batch is immaterial.
MarkProcessed(x) ==
    /\ pc = "mark"
    /\ x \in current
    /\ inDegree' = [n \in Node |->
           IF n = x THEN -1
           ELSE IF <<n, x>> \in edges /\ inDegree[n] > 0
                THEN inDegree[n] - 1 ELSE inDegree[n]]
    /\ current' = current \ {x}
    /\ pc' = IF current' = {} THEN "collect" ELSE "mark"
    /\ UNCHANGED <<edges, batches>>

\* processedCount counts the nodes set to -1.
Processed == {n \in Node : inDegree[n] = -1}

\* Mutants: a cycle of one node is missed; the count is not compared; the loop
\* ends only when every node is processed.
FinishOffByOne ==
    /\ pc = "collect"
    /\ \A n \in Node : inDegree[n] # 0
    /\ pc' = IF Cardinality(Processed) + 1 < Cardinality(Node)
             THEN "cycle" ELSE "sorted"
    /\ UNCHANGED <<edges, inDegree, batches, current>>

FinishUnchecked ==
    /\ pc = "collect"
    /\ \A n \in Node : inDegree[n] # 0
    /\ pc' = "sorted"
    /\ UNCHANGED <<edges, inDegree, batches, current>>

FinishWhenProcessed ==
    /\ pc = "collect"
    /\ Processed = Node
    /\ pc' = "sorted"
    /\ UNCHANGED <<edges, inDegree, batches, current>>

Finish ==
    /\ pc = "collect"
    /\ \A n \in Node : inDegree[n] # 0
    /\ pc' = IF Cardinality(Processed) < Cardinality(Node)
             THEN "cycle" ELSE "sorted"
    /\ UNCHANGED <<edges, inDegree, batches, current>>

Next == CollectBatch \/ (\E x \in Node : MarkProcessed(x)) \/ Finish

Spec == Init /\ [][Next]_vars

\* The caller waits for the function to return.
FairSpec == Spec /\ WF_vars(Next)

--------------------------------------------------------------------------------
(* Properties.                                                             *)

\* dag.go:49: every batch is exactly what can be merged once the earlier ones
\* are; this is ReadyBatch, the batch CascadeMerge starts.
BatchIsReady ==
    [][batches' # batches =>
          batches' = Append(batches, ReadyBatch(Node \ Processed, edges))]_vars

\* An order is returned if and only if the graph has no cycle, with
\* self-dependencies and unconnected nodes.
SortedIffAcyclic ==
    /\ pc = "sorted" => Acyclic(Node, edges)
    /\ pc = "cycle" => ~ Acyclic(Node, edges)

\* A returned order names every node, once.
BatchesPartition ==
    pc = "sorted" =>
        \A n \in Node :
            Cardinality({i \in DOMAIN batches : n \in batches[i]}) = 1

\* The loop ends.
Terminates == <>(pc \in {"sorted", "cycle"})

================================================================================
