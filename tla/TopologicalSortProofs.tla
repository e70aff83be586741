------------------------- MODULE TopologicalSortProofs -------------------------
(***************************************************************************)
(* Theorems about the loop of Graph.TopologicalSort, for every finite set  *)
(* of nodes and every graph on it.                                         *)
(***************************************************************************)
EXTENDS TopologicalSort, FiniteSetTheorems, TLAPS

--------------------------------------------------------------------------------
(* The inductive invariant.                                                *)

\* The dependencies of n that are still to be processed.
Waiting(n) == DependsOn(n, edges) \ Processed

\* The in-degree of a node that is not processed counts those.
Degrees == \A n \in Node \ Processed : inDegree[n] = Cardinality(Waiting(n))

\* The nodes of the batch under way were ready, and stay it until marked.
BatchReady == /\ \A n \in current : inDegree[n] = 0
              /\ pc # "mark" => current = {}

\* What is processed depends on nothing else, and has no cycle.
Done ==
    /\ \A n \in Processed : DependsOn(n, edges) \subseteq Processed
    /\ Acyclic(Processed, edges)

\* The batches hold what is processed or about to be, each node in one of them.
Batched ==
    \A n \in Node :
        /\ n \in Processed \cup current <=> \E i \in DOMAIN batches : n \in batches[i]
        /\ \A i, j \in DOMAIN batches :
               n \in batches[i] /\ n \in batches[j] => i = j

\* The verdict compares the count of processed nodes with the graph's.
Verdict ==
    /\ pc = "sorted" => Processed = Node
    /\ pc = "cycle" => Processed # Node /\ \A n \in Node : inDegree[n] # 0

IInv == TypeOK /\ Degrees /\ BatchReady /\ Done /\ Batched /\ Verdict

--------------------------------------------------------------------------------
(* Lemmas.                                                                 *)

\* A node depends on finitely many nodes of the graph.
LEMMA Dependencies ==
    ASSUME TypeOK, NEW n \in Node
    PROVE  /\ DependsOn(n, edges) \subseteq Node
           /\ \A d : d \in DependsOn(n, edges) <=> <<n, d>> \in edges
           /\ IsFiniteSet(DependsOn(n, edges))
           /\ IsFiniteSet(Waiting(n))
           /\ Cardinality(Waiting(n)) \in Nat
<1>1. \A e \in edges : e = <<e[1], e[2]>> /\ e[1] \in Node /\ e[2] \in Node
  BY DEF TypeOK
<1>2. DependsOn(n, edges) \subseteq Node
  BY <1>1 DEF DependsOn
<1>3. ASSUME NEW d
      PROVE  d \in DependsOn(n, edges) <=> <<n, d>> \in edges
  <2>1. ASSUME d \in DependsOn(n, edges)
        PROVE  <<n, d>> \in edges
    <3>1. PICK e \in edges : e[1] = n /\ e[2] = d
      BY <2>1 DEF DependsOn
    <3> QED
      BY <3>1, <1>1
  <2>2. ASSUME <<n, d>> \in edges
        PROVE  d \in DependsOn(n, edges)
    <3>1. <<n, d>>[1] = n /\ <<n, d>>[2] = d
      OBVIOUS
    <3> QED
      BY <2>2, <3>1 DEF DependsOn
  <2> QED
    BY <2>1, <2>2
<1>4. IsFiniteSet(DependsOn(n, edges)) /\ IsFiniteSet(Waiting(n))
  BY <1>2, NodeAssumption, FS_Subset DEF Waiting
<1> QED
  BY <1>2, <1>3, <1>4, FS_CardinalityType

\* A node whose in-degree is 0 waits for nothing, and the other way round.
LEMMA ZeroDegree ==
    ASSUME TypeOK, Degrees, NEW n \in Node
    PROVE  inDegree[n] = 0 <=> n \notin Processed /\ DependsOn(n, edges) \subseteq Processed
<1>1. inDegree[n] = 0 => n \notin Processed
  BY DEF Processed
<1>2. ASSUME n \notin Processed
      PROVE  inDegree[n] = 0 <=> Waiting(n) = {}
  BY <1>2, Dependencies, FS_EmptySet DEF Degrees
<1> QED
  BY <1>1, <1>2 DEF Waiting

--------------------------------------------------------------------------------
(* The steps.                                                              *)

\* At the start nothing is processed and no batch is begun.
LEMMA InitInv == Init => IInv
<1> SUFFICES ASSUME Init PROVE IInv
  OBVIOUS
<1> USE DEF Init
<1>1. edges \subseteq Node \X Node
  OBVIOUS
<1>2. \A n \in Node : IsFiniteSet(DependsOn(n, edges))
  <2> TAKE n \in Node
  <2>1. DependsOn(n, edges) \subseteq Node
    BY <1>1 DEF DependsOn
  <2> QED
    BY <2>1, NodeAssumption, FS_Subset
<1>3. \A n \in Node : inDegree[n] = Cardinality(DependsOn(n, edges)) /\ inDegree[n] \in Nat
  <2> TAKE n \in Node
  <2>1. inDegree[n] = Cardinality(DependsOn(n, edges))
    OBVIOUS
  <2>2. Cardinality(DependsOn(n, edges)) \in Nat
    BY <1>2, FS_CardinalityType
  <2> QED
    BY <2>1, <2>2
<1>4. TypeOK
  <2>1. inDegree \in [Node -> Nat \cup {-1}]
    BY <1>3
  <2>2. batches \in Seq(SUBSET Node)
    OBVIOUS
  <2> QED
    BY <1>1, <2>1, <2>2 DEF TypeOK
<1>5. Processed = {}
  <2>1. \A n \in Node : inDegree[n] \in Nat
    BY <1>3
  <2> HIDE DEF Init
  <2>2. \A n \in Node : inDegree[n] # -1
    BY <2>1
  <2> QED
    BY <2>2 DEF Processed
<1>6. Degrees
  <2>1. \A n \in Node : Waiting(n) = DependsOn(n, edges)
    BY <1>5 DEF Waiting
  <2> QED
    BY <2>1, <1>3 DEF Degrees
<1>7. BatchReady /\ Batched /\ Verdict
  BY <1>5 DEF BatchReady, Batched, Verdict
<1>8. Done
  BY <1>5 DEF Done, Acyclic
<1> QED
  BY <1>4, <1>6, <1>7, <1>8 DEF IInv

\* What is read of a state in which only the batches, the batch under way and
\* the verdict have changed.
LEMMA GraphUnchanged ==
    ASSUME IInv, UNCHANGED <<edges, inDegree>>
    PROVE  /\ Processed' = Processed
           /\ Degrees'
           /\ Done'
<1>1. Processed' = Processed
  BY DEF Processed
<1>2. \A n \in Node : Waiting(n)' = Waiting(n)
  BY <1>1 DEF Waiting
<1>3. Degrees'
  BY <1>1, <1>2 DEF IInv, Degrees
<1>4. Done'
  BY <1>1 DEF IInv, Done
<1> QED
  BY <1>1, <1>3, <1>4

\* The batch begun holds the ready nodes, which are in no earlier batch.
LEMMA CollectInv == ASSUME IInv, CollectBatch PROVE IInv'
<1> USE DEF IInv
<1>1. /\ current' = {n \in Node : inDegree[n] = 0}
      /\ batches' = Append(batches, current')
      /\ pc = "collect" /\ pc' = "mark"
      /\ UNCHANGED <<edges, inDegree>>
  BY DEF CollectBatch
<1>2. Processed' = Processed /\ Degrees' /\ Done'
  BY <1>1, GraphUnchanged
<1>3. TypeOK'
  BY <1>1 DEF TypeOK
<1>4. BatchReady'
  BY <1>1 DEF BatchReady
<1>5. Batched'
  <2>1. /\ batches \in Seq(SUBSET Node)
        /\ current' \in SUBSET Node
    BY <1>1 DEF TypeOK
  <2>2. /\ DOMAIN batches' = 1 .. Len(batches) + 1
        /\ DOMAIN batches = 1 .. Len(batches)
        /\ Len(batches) \in Nat
        /\ \A i \in 1 .. Len(batches) : batches'[i] = batches[i]
        /\ batches'[Len(batches) + 1] = current'
    BY <2>1, <1>1
  <2>3. current = {}
    BY <1>1 DEF BatchReady
  <2> SUFFICES ASSUME NEW n \in Node
               PROVE  /\ n \in Processed' \cup current'
                             <=> \E i \in DOMAIN batches' : n \in batches'[i]
                      /\ \A i, j \in DOMAIN batches' :
                             n \in batches'[i] /\ n \in batches'[j] => i = j
    BY DEF Batched
  <2>4. n \in Processed <=> \E i \in DOMAIN batches : n \in batches[i]
    BY <2>3 DEF Batched
  <2>5. \A i, j \in DOMAIN batches : n \in batches[i] /\ n \in batches[j] => i = j
    BY DEF Batched
  <2>6. n \in current' => n \notin Processed
    BY <1>1 DEF Processed
  <2>7. n \in Processed' \cup current' <=> \E i \in DOMAIN batches' : n \in batches'[i]
    BY <2>2, <2>4, <1>2
  <2>8. ASSUME NEW i \in DOMAIN batches', NEW j \in DOMAIN batches',
               n \in batches'[i], n \in batches'[j]
        PROVE  i = j
    <3>1. CASE n \in current'
      <4>1. \A k \in DOMAIN batches : n \notin batches[k]
        BY <3>1, <2>6, <2>4
      <4> QED
        BY <4>1, <2>2, <2>8
    <3>2. CASE n \notin current'
      <4>1. i \in DOMAIN batches /\ j \in DOMAIN batches
        BY <3>2, <2>2, <2>8
      <4> QED
        BY <4>1, <2>2, <2>5, <2>8
    <3> QED
      BY <3>1, <3>2
  <2> QED
    BY <2>7, <2>8
<1>6. Verdict'
  BY <1>1 DEF Verdict
<1> QED
  BY <1>2, <1>3, <1>4, <1>5, <1>6

\* Marking a ready node takes it off what its dependents wait for.
LEMMA MarkInv ==
    ASSUME IInv, NEW x \in Node, MarkProcessed(x)
    PROVE  IInv'
<1> USE DEF IInv
<1>1. /\ pc = "mark" /\ x \in current /\ current' = current \ {x}
      /\ inDegree' = [n \in Node |->
             IF n = x THEN -1
             ELSE IF <<n, x>> \in edges /\ inDegree[n] > 0
                  THEN inDegree[n] - 1 ELSE inDegree[n]]
      /\ pc' = IF current' = {} THEN "collect" ELSE "mark"
      /\ UNCHANGED <<edges, batches>>
  BY DEF MarkProcessed
<1>2. inDegree[x] = 0 /\ x \notin Processed /\ DependsOn(x, edges) \subseteq Processed
  BY <1>1, ZeroDegree DEF BatchReady
<1>3. \A n \in Node : inDegree[n] \in Nat \cup {-1}
  BY DEF TypeOK
<1>4. \A n \in Node : inDegree'[n] \in Nat \cup {-1}
  BY <1>1, <1>3
<1>5. TypeOK'
  <2>1. inDegree' \in [Node -> Nat \cup {-1}]
    BY <1>1, <1>4
  <2> QED
    BY <1>1, <2>1 DEF TypeOK
<1>6. Processed' = Processed \cup {x}
  BY <1>1, <1>3 DEF Processed
<1>7. Degrees'
  <2> SUFFICES ASSUME NEW n \in Node \ Processed'
               PROVE  inDegree'[n] = Cardinality(Waiting(n)')
    BY DEF Degrees
  <2>1. n # x /\ n \in Node /\ n \notin Processed
    BY <1>6
  <2>2. Waiting(n)' = Waiting(n) \ {x}
    BY <1>1, <1>6 DEF Waiting
  <2>3. inDegree[n] = Cardinality(Waiting(n)) /\ IsFiniteSet(Waiting(n))
    BY <2>1, Dependencies DEF Degrees
  <2>4. Cardinality(Waiting(n)') =
            IF x \in Waiting(n) THEN inDegree[n] - 1 ELSE inDegree[n]
    BY <2>2, <2>3, FS_RemoveElement
  <2>5. x \in Waiting(n) <=> <<n, x>> \in edges
    BY <2>1, <1>2, Dependencies DEF Waiting
  <2>6. x \in Waiting(n) => inDegree[n] > 0
    <3>1. inDegree[n] = 0 => Waiting(n) = {}
      BY <2>1, ZeroDegree DEF Waiting
    <3>2. inDegree[n] \in Nat
      BY <2>1, <2>3, Dependencies
    <3> QED
      BY <3>1, <3>2
  <2> QED
    BY <1>1, <2>1, <2>4, <2>5, <2>6
<1>8. BatchReady'
  <2>1. ASSUME NEW n \in current'
        PROVE  inDegree'[n] = 0
    <3>1. n \in Node /\ n # x /\ inDegree[n] = 0
      BY <1>1, <2>1 DEF BatchReady, TypeOK
    <3> QED
      BY <3>1, <1>1
  <2> QED
    BY <2>1, <1>1 DEF BatchReady
<1>9. Done'
  <2>1. \A n \in Processed' : DependsOn(n, edges) \subseteq Processed'
    BY <1>2, <1>6 DEF Done
  <2>2. ASSUME NEW S \in SUBSET Processed', S # {}
        PROVE  \E n \in S : DependsOn(n, edges) \cap S = {}
    <3>1. CASE S = {x}
      BY <3>1, <1>2
    <3>2. CASE S # {x}
      <4>1. S \ {x} \in SUBSET Processed /\ S \ {x} # {}
        BY <3>2, <2>2, <1>6
      <4>2. PICK n \in S \ {x} : DependsOn(n, edges) \cap (S \ {x}) = {}
        BY <4>1 DEF Done, Acyclic
      <4>3. x \notin DependsOn(n, edges)
        BY <4>1, <4>2, <1>2 DEF Done
      <4> QED
        BY <4>2, <4>3
    <3> QED
      BY <3>1, <3>2
  <2> QED
    BY <1>1, <2>1, <2>2 DEF Done, Acyclic
<1>10. Batched'
  <2>1. Processed' \cup current' = Processed \cup current
    BY <1>1, <1>6
  <2> QED
    BY <1>1, <2>1 DEF Batched
<1>11. Verdict'
  BY <1>1 DEF Verdict
<1> QED
  BY <1>5, <1>7, <1>8, <1>9, <1>10, <1>11

\* When no node is ready, comparing the counts tells whether some are left.
LEMMA FinishInv == ASSUME IInv, Finish PROVE IInv'
<1> USE DEF IInv
<1>1. /\ pc = "collect"
      /\ \A n \in Node : inDegree[n] # 0
      /\ pc' = IF Cardinality(Processed) < Cardinality(Node) THEN "cycle" ELSE "sorted"
      /\ UNCHANGED <<edges, inDegree, batches, current>>
  BY DEF Finish
<1>2. Processed' = Processed /\ Degrees' /\ Done'
  BY <1>1, GraphUnchanged
<1>3. TypeOK'
  BY <1>1 DEF TypeOK
<1>4. BatchReady'
  BY <1>1 DEF BatchReady
<1>5. Batched'
  BY <1>1, <1>2 DEF Batched
<1>6. Verdict'
  <2>1. /\ IsFiniteSet(Processed)
        /\ Cardinality(Processed) <= Cardinality(Node)
        /\ Cardinality(Node) = Cardinality(Processed) => Node = Processed
    <3>1. Processed \in SUBSET Node
      BY DEF Processed
    <3> QED
      BY <3>1, NodeAssumption, FS_Subset
  <2>2. Cardinality(Processed) \in Nat /\ Cardinality(Node) \in Nat
    BY <2>1, NodeAssumption, FS_CardinalityType
  <2> QED
    BY <1>1, <1>2, <2>1, <2>2 DEF Verdict
<1> QED
  BY <1>2, <1>3, <1>4, <1>5, <1>6

\* Every step of the loop preserves the invariant.
LEMMA NextInv == IInv /\ [Next]_vars => IInv'
<1> SUFFICES ASSUME IInv, [Next]_vars PROVE IInv'
  OBVIOUS
<1>1. CASE CollectBatch
  BY <1>1, CollectInv
<1>2. CASE \E x \in Node : MarkProcessed(x)
  BY <1>2, MarkInv
<1>3. CASE Finish
  BY <1>3, FinishInv
<1>4. CASE UNCHANGED vars
  <2>1. UNCHANGED <<edges, inDegree, batches, current, pc>>
    BY <1>4 DEF vars
  <2>2. Processed' = Processed /\ Degrees' /\ Done'
    BY <2>1, GraphUnchanged
  <2>3. TypeOK'
    BY <2>1 DEF IInv, TypeOK
  <2>4. BatchReady' /\ Batched' /\ Verdict'
    BY <2>1, <2>2 DEF IInv, BatchReady, Batched, Verdict
  <2> QED
    BY <2>2, <2>3, <2>4 DEF IInv
<1> QED
  BY <1>1, <1>2, <1>3, <1>4 DEF Next

\* The invariant holds throughout the loop.
THEOREM Invariant == Spec => []IInv
<1> QED
  BY InitInv, NextInv, PTL DEF Spec

--------------------------------------------------------------------------------
(* The theorems.                                                           *)

\* In-degrees never go below the mark -1, and the batches hold nodes of the graph.
THEOREM TypeCorrect == Spec => []TypeOK
<1>1. IInv => TypeOK
  BY DEF IInv
<1> QED
  BY <1>1, Invariant, PTL

\* dag.go:38-90, TopologicalSort returns an order exactly for the graphs without
\* a cycle: of any size, with self-dependencies and unconnected nodes.
THEOREM SortsAcyclicGraphs == Spec => []SortedIffAcyclic
<1>1. IInv => SortedIffAcyclic
  <2> SUFFICES ASSUME IInv PROVE SortedIffAcyclic
    OBVIOUS
  <2> USE DEF IInv
  <2>1. pc = "sorted" => Acyclic(Node, edges)
    BY DEF Verdict, Done
  <2>2. ASSUME pc = "cycle"
        PROVE  ~ Acyclic(Node, edges)
    <3> DEFINE S == Node \ Processed
    <3>1. S \in SUBSET Node /\ S # {}
      BY <2>2 DEF Verdict, Processed
    <3>2. ASSUME NEW n \in S
          PROVE  DependsOn(n, edges) \cap S # {}
      <4>1. ~ (DependsOn(n, edges) \subseteq Processed)
        BY <2>2, ZeroDegree DEF Verdict
      <4>2. DependsOn(n, edges) \subseteq Node
        BY Dependencies
      <4> QED
        BY <4>1, <4>2
    <3> HIDE DEF S
    <3> QED
      BY <3>1, <3>2 DEF Acyclic
  <2> QED
    BY <2>1, <2>2 DEF SortedIffAcyclic
<1> QED
  BY <1>1, Invariant, PTL

\* dag.go:62-73, a returned order names every node of the graph, in one batch.
THEOREM OrdersEveryNodeOnce == Spec => []BatchesPartition
<1>1. IInv => BatchesPartition
  <2> SUFFICES ASSUME IInv, pc = "sorted", NEW n \in Node
               PROVE  Cardinality({i \in DOMAIN batches : n \in batches[i]}) = 1
    BY DEF BatchesPartition
  <2>1. n \in Processed
    BY DEF IInv, Verdict
  <2>2. PICK i \in DOMAIN batches : n \in batches[i]
    BY <2>1 DEF IInv, Batched
  <2>3. {k \in DOMAIN batches : n \in batches[k]} = {i}
    BY <2>2 DEF IInv, Batched
  <2> QED
    BY <2>3, FS_Singleton
<1> QED
  BY <1>1, Invariant, PTL

\* dag.go:49-60, each batch is exactly the nodes whose dependencies are all in the
\* earlier batches: none is merged too early, none is kept waiting.
THEOREM BatchesAreReady == Spec => BatchIsReady
<1>1. ASSUME IInv, [Next]_vars, batches' # batches
      PROVE  batches' = Append(batches, ReadyBatch(Node \ Processed, edges))
  <2>1. CollectBatch
    BY <1>1 DEF Next, MarkProcessed, Finish, vars
  <2>2. \A n \in Node : DependsOn(n, edges) \subseteq Node
    BY <1>1, Dependencies DEF IInv
  <2>3. \A n \in Node :
            inDegree[n] = 0 <=> n \notin Processed /\ DependsOn(n, edges) \subseteq Processed
    BY <1>1, ZeroDegree DEF IInv
  <2>4. {n \in Node : inDegree[n] = 0} = ReadyBatch(Node \ Processed, edges)
    BY <2>2, <2>3 DEF ReadyBatch
  <2> QED
    BY <2>1, <2>4 DEF CollectBatch
<1> QED
  BY <1>1, Invariant, PTL DEF Spec, BatchIsReady

================================================================================
