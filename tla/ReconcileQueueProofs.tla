-------------------------- MODULE ReconcileQueueProofs --------------------------
(***************************************************************************)
(* Theorems about the cascade behind a queue, for any messages, poison,    *)
(* batch size and number of receipts, and for everything CascadeMerge is   *)
(* parameterised by.                                                       *)
(***************************************************************************)
EXTENDS ReconcileQueue, CascadeMergeProofs

--------------------------------------------------------------------------------
(* The queue adds one kind of step to the cascade: a run that starts        *)
(* whatever the status of the Meta PR.                                      *)

StartRun(w) ==
    /\ exec[w].pc = "idle"
    /\ Goto(w, "fetch")
    /\ UNCHANGED <<meta, row, host, root, pointer, crashes>>

CascadeStep == [Next]_vars \/ \E w \in Loop : StartRun(w)

LEMMA QueueStepIsCascadeStep ==
    ASSUME [QueueNext]_allvars
    PROVE  CascadeStep
<1>1. ASSUME NEW w \in Loop, ProcessMessage(w)
      PROVE  CascadeStep
  <2>1. PICK m \in got[w] : IF m \in Poison THEN UNCHANGED <<exec, current>>
                            ELSE Goto(w, "fetch") /\ current' = [current EXCEPT ![w] = m]
    BY <1>1 DEF ProcessMessage
  <2>2. UNCHANGED <<meta, row, host, root, pointer, crashes>> /\ exec[w].pc = "idle"
    BY <1>1 DEF ProcessMessage, Free
  <2>3. CASE m \in Poison
    <3>1. UNCHANGED vars
      BY <2>1, <2>2, <2>3 DEF vars
    <3> QED
      BY <3>1 DEF CascadeStep
  <2>4. CASE m \notin Poison
    <3>1. StartRun(w)
      BY <2>1, <2>2, <2>4 DEF StartRun
    <3> QED
      BY <3>1 DEF CascadeStep
  <2> QED
    BY <2>3, <2>4
<1>2. ASSUME NEW w \in Loop, RunStep(w) \/ ConsumerDies(w)
      PROVE  Next
  BY <1>2 DEF RunStep, ConsumerDies, Next, Worker
<1>3. ASSUME NEW w \in Request, Retry(w)
      PROVE  Next
  BY <1>3 DEF Retry, Next, Worker
<1>4. ASSUME NEW c \in Child, MergedByHand(c)
      PROVE  Next
  BY <1>4 DEF Next
<1>5. ASSUME NEW m \in Message, Send(m) \/ VisibilityTimeout(m)
      PROVE  UNCHANGED vars
  BY <1>5 DEF Send, VisibilityTimeout
<1>6. ASSUME NEW w \in Loop, ReceiveMessage(w) \/ DeleteMessage(w)
      PROVE  UNCHANGED vars
  BY <1>6 DEF ReceiveMessage, DeleteMessage
<1>7. CASE UNCHANGED allvars
  BY <1>7 DEF allvars, CascadeStep
<1> QED
  BY <1>1, <1>2, <1>3, <1>4, <1>5, <1>6, <1>7 DEF QueueNext, CascadeStep

\* Starting a run that way keeps what every run may rely on.
LEMMA StartRunInv ==
    ASSUME TypeOK, CascadeInv, NEW w \in Loop, StartRun(w)
    PROVE  /\ TypeOK'
           /\ CascadeInv'
<1>1. w \in Worker /\ RunInv(w)
  BY DEF Worker, CascadeInv
<1>2. Monotone
  BY DEF StartRun, Monotone, Members, Merged
<1>3. TypeOK'
  BY <1>1, GotoType DEF StartRun, PC, TypeOK
<1>4. RunInv(w)'
  BY <1>1, <1>2, GotoInv DEF StartRun, RunInv, JobsHonest
<1>5. \A v \in Worker \ {w} : exec'[v] = exec[v]
  BY <1>1, BecomeOnly DEF StartRun, Goto
<1>6. \A v \in Worker \ {w} : RunInv(v)'
  BY <1>2, <1>5, RunInvStable DEF CascadeInv
<1>7. RootAfterChildren' /\ RecordsAreTrue'
  BY DEF CascadeInv, StartRun, RootAfterChildren, RecordsAreTrue, Members, Merged
<1> QED
  BY <1>3, <1>4, <1>6, <1>7 DEF CascadeInv

LEMMA CascadeStepInv ==
    ASSUME TypeOK, CascadeInv, CascadeStep
    PROVE  /\ TypeOK'
           /\ CascadeInv'
BY StartRunInv, StepType, StepInv DEF CascadeStep

\* A consumer's messages, runs and deletions keep the invariant of the cascade.
THEOREM QueueInvariant == QueueSpec => [](TypeOK /\ CascadeInv)
<1>1. QueueInit => TypeOK /\ CascadeInv
  <2>1. Init => TypeOK
    BY IdleType, BoundAssumption
       DEF Init, TypeOK, MetaRow, MetaStatus, ChildRow, ChildStatus, Sha, NoRow,
           PRState, PointerValue
  <2> QED
    BY <2>1, InitInv DEF QueueInit
<1>2. TypeOK /\ CascadeInv /\ [QueueNext]_allvars => (TypeOK /\ CascadeInv)'
  BY QueueStepIsCascadeStep, CascadeStepInv
<1> QED
  BY <1>1, <1>2, PTL DEF QueueSpec

\* sqs.go, with messages delivered twice or late and runs that die: the root
\* is merged last, and what the tables call MERGED is merged.
THEOREM QueueIsSafe == QueueSpec => []DeliverySafe
<1>1. CascadeInv => DeliverySafe
  BY DEF CascadeInv, DeliverySafe
<1> QED
  BY <1>1, QueueInvariant, PTL

\* A run that a message starts does not overwrite an outcome either.
THEOREM QueueKeepsOutcomes == QueueSpec => OutcomeLeftByLockOnly
<1>1. ASSUME TypeOK, CascadeInv, [QueueNext]_allvars, meta'.status # meta.status
      PROVE  meta.status = "MERGING" \/ meta'.status = "MERGING"
  <2>1. [Next]_vars
    BY <1>1, QueueStepIsCascadeStep DEF CascadeStep, StartRun
  <2> QED
    BY <1>1, <2>1, StepLeavesOutcome
<1>2. TypeOK /\ CascadeInv /\ [QueueNext]_allvars =>
         [meta'.status # meta.status =>
             meta.status = "MERGING" \/ meta'.status = "MERGING"]_vars
  BY <1>1
<1> QED
  BY <1>2, QueueInvariant, PTL DEF QueueSpec, OutcomeLeftByLockOnly

\* Behind a queue the pull requests are still merged as the contract allows.
THEOREM QueueImplements == QueueSpec => ImplementsContract
<1>1. QueueInit => Contract!ContractInit
  BY DEF QueueInit, Init, Contract!ContractInit, Members, Known, Merged
<1>2. ASSUME TypeOK, CascadeInv, [QueueNext]_allvars
      PROVE  [Contract!ContractNext]_(Contract!cvars)
  <2>1. CASE [Next]_vars
    BY <1>2, <2>1, StepImplements
  <2>2. ASSUME NEW w \in Loop, StartRun(w)
        PROVE  UNCHANGED Contract!cvars
    BY <2>2 DEF StartRun, Contract!cvars, Members, Merged
  <2> QED
    BY <1>2, <2>1, <2>2, QueueStepIsCascadeStep DEF CascadeStep
<1> QED
  BY <1>1, <1>2, QueueInvariant, PTL
     DEF QueueSpec, ImplementsContract, Contract!ContractSpec

--------------------------------------------------------------------------------
(* The messages.                                                           *)

\* A consumer works for a message that names a Meta PR, and deletes the message
\* once the cascade is done.
Consumer(w) ==
    /\ exec[w].pc # "idle" => current[w] \in Message \ Poison
    /\ deleting[w] => /\ exec[w].pc = "idle"
                      /\ current[w] \in Message \ Poison
                      /\ root = "merged"
    /\ current[w] \in Message => exec[w].pc # "idle" \/ deleting[w]

QueueTypes ==
    /\ queue \in [Message -> MessageState]
    /\ got \in [Loop -> SUBSET Message]
    /\ current \in [Loop -> Message \cup {None}]
    /\ deleting \in [Loop -> BOOLEAN]

\* A message that can be received has a receipt left.
Receivable ==
    \A m \in Message :
        queue[m].at \in {"unsent", "visible"} => queue[m].receives < MaxReceives

MessageInv ==
    /\ QueueTypes
    /\ Receivable
    /\ \A w \in Loop : Consumer(w)
    /\ DeletedWhenDone

\* A step that leaves a consumer and its run alone.
LEMMA ConsumerStable ==
    ASSUME NEW w \in Loop, Consumer(w), exec'[w] = exec[w],
           current'[w] = current[w], deleting'[w] = deleting[w],
           root = "merged" => root' = "merged"
    PROVE  Consumer(w)'
BY DEF Consumer

\* A step that leaves the messages alone.
LEMMA MessagesStable ==
    ASSUME Receivable, DeletedWhenDone, queue' = queue,
           root = "merged" => root' = "merged"
    PROVE  /\ Receivable'
           /\ DeletedWhenDone'
BY DEF Receivable, DeletedWhenDone

\* The steps of the queue change where messages are, and no consumer.
LEMMA QueueMoves ==
    ASSUME MessageInv, NEW m \in Message, Send(m) \/ VisibilityTimeout(m)
    PROVE  MessageInv'
<1>1. UNCHANGED <<vars, got, current, deleting>>
  BY DEF Send, VisibilityTimeout
<1>2. UNCHANGED <<exec, root>>
  BY <1>1 DEF vars
<1>3. queue \in [Message -> MessageState] /\ queue[m] \in MessageState
  BY DEF MessageInv, QueueTypes
<1>4. PICK at \in {"visible", "dead"} :
         /\ queue' = [queue EXCEPT ![m].at = at]
         /\ at = "visible" => queue[m].receives < MaxReceives
  BY DEF Send, VisibilityTimeout, MessageInv, Receivable
<1>5. /\ queue'[m] = [queue[m] EXCEPT !.at = at]
      /\ \A n \in Message \ {m} : queue'[n] = queue[n]
      /\ queue' = [queue EXCEPT ![m] = [queue[m] EXCEPT !.at = at]]
  BY <1>3, <1>4
<1>6. /\ queue'[m] \in MessageState
      /\ queue'[m].at = at
      /\ queue'[m].receives = queue[m].receives
  BY <1>3, <1>5 DEF MessageState
<1>7. queue' \in [Message -> MessageState]
  BY <1>3, <1>5, <1>6
<1>8. QueueTypes'
  BY <1>1, <1>7 DEF MessageInv, QueueTypes
<1>9. Receivable'
  BY <1>4, <1>5, <1>6 DEF MessageInv, Receivable
<1>10. DeletedWhenDone'
  BY <1>2, <1>5, <1>6 DEF MessageInv, DeletedWhenDone
<1>11. \A w \in Loop : Consumer(w)'
  BY <1>1, <1>2, ConsumerStable DEF MessageInv
<1> QED
  BY <1>8, <1>9, <1>10, <1>11 DEF MessageInv

\* A receipt is one of those a message has left.
LEMMA ReceiveInv ==
    ASSUME MessageInv, NEW w \in Loop, ReceiveMessage(w)
    PROVE  MessageInv'
<1>1. UNCHANGED <<vars, current, deleting>>
  BY DEF ReceiveMessage
<1>2. UNCHANGED <<exec, root>>
  BY <1>1 DEF vars
<1>3. PICK S \in SUBSET {m \in Message : queue[m].at = "visible"} :
         /\ queue' = [m \in Message |->
                IF m \in S THEN [at |-> "inflight", receives |-> queue[m].receives + 1]
                ELSE queue[m]]
         /\ got' = [got EXCEPT ![w] = S]
  BY DEF ReceiveMessage
<1>4. \A m \in Message :
         /\ m \notin S => queue'[m] = queue[m]
         /\ m \in S => queue'[m] = [at |-> "inflight", receives |-> queue[m].receives + 1]
  BY <1>3
<1>5. ASSUME NEW m \in Message
      PROVE  queue[m] \in MessageState /\ queue'[m] \in MessageState
  <2>1. queue[m] \in MessageState
    BY DEF MessageInv, QueueTypes
  <2>2. queue[m].receives \in 0..MaxReceives
    BY <2>1 DEF MessageState
  <2>3. m \in S => queue[m].receives + 1 \in 0..MaxReceives
    BY <2>2, QueueAssumption DEF MessageInv, Receivable
  <2>4. \A n \in 0..MaxReceives : [at |-> "inflight", receives |-> n] \in MessageState
    BY DEF MessageState
  <2> QED
    BY <1>4, <2>1, <2>3, <2>4
<1>6. QueueTypes'
  <2>1. queue' \in [Message -> MessageState]
    BY <1>3, <1>5
  <2>2. got' \in [Loop -> SUBSET Message]
    BY <1>3 DEF MessageInv, QueueTypes
  <2> QED
    BY <1>1, <2>1, <2>2 DEF MessageInv, QueueTypes
<1>7. \A m \in Message : queue'[m] = queue[m] \/ queue'[m].at = "inflight"
  <2>1. \A n : [at |-> "inflight", receives |-> n].at = "inflight"
    OBVIOUS
  <2> QED
    BY <1>4, <2>1
<1>8. Receivable'
  BY <1>7 DEF MessageInv, Receivable
<1>9. DeletedWhenDone'
  BY <1>2, <1>7 DEF MessageInv, DeletedWhenDone
<1>10. \A v \in Loop : Consumer(v)'
  BY <1>1, <1>2, ConsumerStable DEF MessageInv
<1> QED
  BY <1>6, <1>8, <1>9, <1>10 DEF MessageInv

\* A consumer that starts a run does it for a message that is no poison.
LEMMA ProcessInv ==
    ASSUME TypeOK, MessageInv, NEW w \in Loop, ProcessMessage(w)
    PROVE  MessageInv'
<1>1. UNCHANGED <<root, queue, deleting>>
  BY DEF ProcessMessage
<1>2. PICK m \in got[w] :
         /\ got' = [got EXCEPT ![w] = got[w] \ {m}]
         /\ IF m \in Poison THEN UNCHANGED <<exec, current>>
            ELSE Goto(w, "fetch") /\ current' = [current EXCEPT ![w] = m]
  BY DEF ProcessMessage
<1>3. w \in Worker /\ m \in Message /\ exec[w].pc = "idle" /\ ~ deleting[w]
  BY DEF Worker, MessageInv, QueueTypes, ProcessMessage, Free
<1>4. QueueTypes'
  BY <1>1, <1>2, <1>3 DEF MessageInv, QueueTypes
<1>5. \A v \in Loop \ {w} : exec'[v] = exec[v] /\ current'[v] = current[v]
  <2>1. Goto(w, "fetch") => \A v \in Loop \ {w} : exec'[v] = exec[v]
    BY <1>3, BecomeOnly DEF Goto, Worker
  <2> QED
    BY <1>2, <2>1 DEF MessageInv, QueueTypes
<1>6. Consumer(w)'
  <2>1. CASE m \in Poison
    BY <1>1, <1>2, <2>1, ConsumerStable DEF MessageInv
  <2>2. CASE m \notin Poison
    <3>1. exec'[w].pc = "fetch" /\ current'[w] = m
      BY <1>2, <1>3, <2>2, GotoFields DEF MessageInv, QueueTypes
    <3> QED
      BY <1>1, <1>3, <2>2, <3>1 DEF Consumer
  <2> QED
    BY <2>1, <2>2
<1>7. \A v \in Loop \ {w} : Consumer(v)'
  BY <1>1, <1>5, ConsumerStable DEF MessageInv
<1>8. Receivable' /\ DeletedWhenDone'
  BY <1>1, MessagesStable DEF MessageInv
<1> QED
  BY <1>4, <1>6, <1>7, <1>8 DEF MessageInv

\* A run that ends otherwise than by its last write leaves the message.
LEMMA RunStepInv ==
    ASSUME TypeOK, CascadeInv, MessageInv, NEW w \in Loop, RunStep(w)
    PROVE  MessageInv'
<1>1. w \in Worker /\ ExecuteCascadeMerge(w) /\ UNCHANGED <<queue, got>>
  BY DEF RunStep, Worker
<1>2. root = "merged" => root' = "merged"
  BY <1>1, RunStepMonotone DEF Monotone
<1>3. exec[w].pc # "idle"
  <2>1. \A c \in Child : exec[w].pc = "idle" =>
           exec[w].job[c] \notin {"mark", "call", "ok", "err"}
    BY <1>1 DEF CascadeInv, RunInv, JobsHonest
  <2> QED
    BY <1>1, <2>1
       DEF ExecuteCascadeMerge, FetchMeta, FetchChildren, Resume, AcquireLock,
           PlanBatches, StartBatch, MarkMerging, MergeOk, MergeLost, MergeError,
           RecordMerged, RecordFailed, EndBatch, BatchesDone, AlignPointers,
           AlignError, RootOk, RootLost, RootError, Finish, Halt
<1>4. current[w] \in Message \ Poison /\ ~ deleting[w]
  BY <1>3 DEF MessageInv, Consumer
<1>5. QueueTypes /\ QueueTypes'
  <2>1. QueueTypes
    BY DEF MessageInv
  <2>2. deleting' \in [Loop -> BOOLEAN]
    BY <2>1 DEF RunStep, QueueTypes
  <2>3. current' \in [Loop -> Message \cup {None}]
    BY <1>4, <2>1 DEF RunStep, QueueTypes
  <2> QED
    BY <1>1, <2>1, <2>2, <2>3 DEF QueueTypes
<1>6. \A v \in Loop \ {w} : /\ exec'[v] = exec[v]
                            /\ current'[v] = current[v]
                            /\ deleting'[v] = deleting[v]
  BY <1>1, <1>5, OtherRuns DEF RunStep, Worker, QueueTypes
<1>7. Consumer(w)'
  <2>1. CASE exec'[w].pc # "idle"
    BY <1>4, <2>1 DEF RunStep, Consumer
  <2>2. CASE exec'[w].pc = "idle" /\ exec[w].pc = "finish"
    <3>1. deleting'[w] /\ current'[w] = current[w]
      BY <1>5, <2>2 DEF RunStep, QueueTypes
    <3>2. root = "merged"
      BY <1>1, <2>2 DEF CascadeInv, RunInv, RootHonest
    <3> QED
      BY <1>2, <1>4, <2>2, <3>1, <3>2 DEF Consumer
  <2>3. CASE exec'[w].pc = "idle" /\ exec[w].pc # "finish"
    <3>1. ~ deleting'[w] /\ current'[w] = None
      BY <1>5, <2>3 DEF RunStep, QueueTypes
    <3> QED
      BY <2>3, <3>1, QueueAssumption DEF Consumer
  <2> QED
    BY <2>1, <2>2, <2>3
<1>8. \A v \in Loop \ {w} : Consumer(v)'
  BY <1>2, <1>6, ConsumerStable DEF MessageInv
<1>9. Receivable' /\ DeletedWhenDone'
  BY <1>1, <1>2, MessagesStable DEF MessageInv
<1> QED
  BY <1>5, <1>7, <1>8, <1>9 DEF MessageInv

\* The message deleted is one whose cascade is done.
LEMMA DeleteInv ==
    ASSUME MessageInv, NEW w \in Loop, DeleteMessage(w)
    PROVE  MessageInv'
<1>1. UNCHANGED <<vars, got>> /\ deleting[w]
      /\ deleting' = [deleting EXCEPT ![w] = FALSE]
      /\ current' = [current EXCEPT ![w] = None]
  BY DEF DeleteMessage
<1>2. UNCHANGED <<exec, root>>
  BY <1>1 DEF vars
<1> DEFINE m == current[w]
<1>3. m \in Message \ Poison /\ root = "merged" /\ exec[w].pc = "idle"
  BY <1>1 DEF MessageInv, Consumer
<1>4. queue' = queue \/ queue' = [queue EXCEPT ![m].at = "deleted"]
  BY DEF DeleteMessage
<1> HIDE DEF m
<1>5. queue \in [Message -> MessageState]
  BY DEF MessageInv, QueueTypes
<1>6. /\ queue' \in [Message -> MessageState]
      /\ \A n \in Message :
            \/ queue'[n] = queue[n]
            \/ n = m /\ queue'[n].at = "deleted"
  <2>1. CASE queue' = queue
    BY <1>5, <2>1
  <2>2. CASE queue' = [queue EXCEPT ![m].at = "deleted"]
    <3>1. queue[m] \in MessageState
      BY <1>3, <1>5
    <3>2. /\ [queue[m] EXCEPT !.at = "deleted"] \in MessageState
          /\ [queue[m] EXCEPT !.at = "deleted"].at = "deleted"
      BY <3>1 DEF MessageState
    <3>3. queue' = [queue EXCEPT ![m] = [queue[m] EXCEPT !.at = "deleted"]]
      BY <2>2, <1>5
    <3> QED
      BY <1>3, <1>5, <3>2, <3>3
  <2> QED
    BY <1>4, <2>1, <2>2
<1>7. QueueTypes'
  BY <1>1, <1>6 DEF MessageInv, QueueTypes
<1>8. Receivable'
  BY <1>6 DEF MessageInv, Receivable
<1>9. DeletedWhenDone'
  BY <1>2, <1>3, <1>6 DEF MessageInv, DeletedWhenDone
<1>10. Consumer(w)'
  <2>1. ~ deleting'[w] /\ current'[w] = None
    BY <1>1 DEF MessageInv, QueueTypes
  <2> QED
    BY <1>2, <1>3, <2>1, QueueAssumption DEF Consumer
<1>11. \A v \in Loop \ {w} : Consumer(v)'
  <2>1. \A v \in Loop \ {w} : current'[v] = current[v] /\ deleting'[v] = deleting[v]
    BY <1>1 DEF MessageInv, QueueTypes
  <2> QED
    BY <1>2, <2>1, ConsumerStable DEF MessageInv
<1> QED
  BY <1>7, <1>8, <1>9, <1>10, <1>11 DEF MessageInv

\* A consumer that dies deletes nothing.
LEMMA ConsumerDiesInv ==
    ASSUME TypeOK, MessageInv, NEW w \in Loop, ConsumerDies(w)
    PROVE  MessageInv'
<1>1. /\ w \in Worker /\ exec[w].pc # "idle" /\ Return(w)
      /\ UNCHANGED <<root, queue, deleting>>
      /\ got' = [got EXCEPT ![w] = {}]
      /\ current' = [current EXCEPT ![w] = None]
  BY DEF ConsumerDies, Crash, Worker
<1>2. QueueTypes'
  BY <1>1 DEF MessageInv, QueueTypes
<1>3. exec'[w].pc = "idle" /\ \A v \in Loop \ {w} : exec'[v] = exec[v]
  BY <1>1, BecomeOnly DEF Return, Idle, Worker
<1>4. Consumer(w)'
  <2>1. current'[w] = None /\ ~ deleting'[w]
    BY <1>1 DEF MessageInv, QueueTypes, Consumer
  <2> QED
    BY <1>3, <2>1, QueueAssumption DEF Consumer
<1>5. \A v \in Loop \ {w} : Consumer(v)'
  <2>1. \A v \in Loop \ {w} : current'[v] = current[v] /\ deleting'[v] = deleting[v]
    BY <1>1 DEF MessageInv, QueueTypes
  <2> QED
    BY <1>1, <1>3, <2>1, ConsumerStable DEF MessageInv
<1>6. Receivable' /\ DeletedWhenDone'
  BY <1>1, MessagesStable DEF MessageInv
<1> QED
  BY <1>2, <1>4, <1>5, <1>6 DEF MessageInv

\* The run of a retry request belongs to no consumer.
LEMMA RetryInv ==
    ASSUME TypeOK, CascadeInv, MessageInv, NEW w \in Request, Retry(w)
    PROVE  MessageInv'
<1>1. w \in Worker /\ w \notin Loop /\ UNCHANGED <<queue, got, current, deleting>>
  BY WorkerAssumption DEF Retry, Worker, qvars
<1>2. \A v \in Worker \ {w} : exec'[v] = exec[v]
  BY <1>1, OtherRuns, BecomeOnly DEF Retry, RetryMerge, Crash, Goto, Return
<1>3. root = "merged" => root' = "merged"
  BY <1>1, RunStepMonotone DEF Retry, RetryMerge, Crash, Monotone
<1>4. \A v \in Loop : Consumer(v)'
  BY <1>1, <1>2, <1>3, ConsumerStable DEF MessageInv, Worker
<1>5. Receivable' /\ DeletedWhenDone' /\ QueueTypes'
  BY <1>1, <1>3, MessagesStable DEF MessageInv, QueueTypes
<1> QED
  BY <1>4, <1>5 DEF MessageInv

LEMMA MessageStep ==
    ASSUME TypeOK, CascadeInv, MessageInv, [QueueNext]_allvars
    PROVE  MessageInv'
<1>1. ASSUME UNCHANGED <<root, exec, queue, got, current, deleting>>
      PROVE  MessageInv'
  BY <1>1 DEF MessageInv, QueueTypes, Receivable, Consumer, DeletedWhenDone
<1>2. ASSUME NEW c \in Child, MergedByHand(c), UNCHANGED qvars
      PROVE  MessageInv'
  BY <1>1, <1>2 DEF MergedByHand, qvars
<1>3. CASE UNCHANGED allvars
  BY <1>1, <1>3 DEF allvars, qvars, vars
<1> QED
  BY <1>2, <1>3, QueueMoves, ReceiveInv, ProcessInv, RunStepInv, DeleteInv,
     ConsumerDiesInv, RetryInv DEF QueueNext

\* The invariant of the messages holds with any consumers, crashes and late deletions.
THEOREM MessageInvariant == QueueSpec => []MessageInv
<1>1. QueueInit => MessageInv
  <2> SUFFICES ASSUME QueueInit PROVE MessageInv
    OBVIOUS
  <2>1. \A w \in Loop : exec[w].pc = "idle"
    BY DEF QueueInit, Init, Idle, Worker
  <2>2. QueueTypes /\ Receivable /\ DeletedWhenDone
    BY QueueAssumption
       DEF QueueInit, QueueTypes, Receivable, DeletedWhenDone, MessageState
  <2>3. \A w \in Loop : Consumer(w)
    BY <2>1, QueueAssumption DEF QueueInit, Consumer
  <2> QED
    BY <2>2, <2>3 DEF MessageInv
<1>2. TypeOK /\ CascadeInv /\ MessageInv /\ [QueueNext]_allvars => MessageInv'
  BY MessageStep
<1> QED
  BY <1>1, <1>2, QueueInvariant, PTL DEF QueueSpec

\* The queue's records are typed, and a consumer has a message in hand exactly
\* while its run or the deletion is under way.
THEOREM QueueTypeCorrect == QueueSpec => []QueueTypeOK
<1>1. TypeOK /\ MessageInv => QueueTypeOK
  BY DEF QueueTypeOK, MessageInv, QueueTypes, Consumer
<1> QED
  BY <1>1, QueueInvariant, MessageInvariant, PTL

\* sqs.go, the message of a cascade that is not done is never deleted, nor
\* one that cannot be read: only the run that reached its last write deletes.
THEOREM DeletedOnlyWhenDone == QueueSpec => []DeletedWhenDone
<1>1. MessageInv => DeletedWhenDone
  BY DEF MessageInv
<1> QED
  BY <1>1, MessageInvariant, PTL

================================================================================
