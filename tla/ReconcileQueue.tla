----------------------------- MODULE ReconcileQueue -----------------------------
(***************************************************************************)
(* SQSWorker in front of the engine: with SQS_QUEUE_URL set, the runs of   *)
(* CascadeMerge are started by messages of a queue that delivers at least  *)
(* once, and no loop looks for cascades that are MERGING.  Consumers are   *)
(* processes of their own; the members of Loop are theirs.  Who sends the  *)
(* messages is not in this repository.                                     *)
(***************************************************************************)
EXTENDS CascadeMerge

CONSTANTS Message,      \* sent for the Meta PR, or
          Poison,       \* whose body is no Meta PR's id
          None,         \* no message
          BatchSize,    \* MaxNumberOfMessages
          MaxReceives   \* the queue's maxReceiveCount

ASSUME QueueAssumption ==
    /\ Poison \subseteq Message
    /\ None \notin Message
    /\ BatchSize \in Nat \ {0}
    /\ MaxReceives \in Nat \ {0}

VARIABLES queue,      \* where each message is, and how often it was received
          got,        \* the messages a consumer has yet to process
          current,    \* the one it processes
          deleting    \* whether it has processed it without an error

qvars == <<queue, got, current, deleting>>
allvars == <<vars, qvars>>

MessageState ==
    [at : {"unsent", "visible", "inflight", "deleted", "dead"}, receives : 0..MaxReceives]

QueueTypeOK ==
    /\ TypeOK
    /\ queue \in [Message -> MessageState]
    /\ got \in [Loop -> SUBSET Message]
    /\ current \in [Loop -> Message \cup {None}]
    /\ deleting \in [Loop -> BOOLEAN]
    /\ \A w \in Loop : /\ exec[w].pc # "idle" => current[w] \in Message \ Poison
                       /\ current[w] \in Message <=> exec[w].pc # "idle" \/ deleting[w]

QueueInit ==
    /\ Init
    /\ queue = [m \in Message |-> [at |-> "unsent", receives |-> 0]]
    /\ got = [w \in Loop |-> {}]
    /\ current = [w \in Loop |-> None]
    /\ deleting = [w \in Loop |-> FALSE]

Free(w) == exec[w].pc = "idle" /\ ~ deleting[w]

--------------------------------------------------------------------------------
(* The queue.                                                              *)

Send(m) ==
    /\ queue[m].at = "unsent"
    /\ queue' = [queue EXCEPT ![m].at = "visible"]
    /\ UNCHANGED <<vars, got, current, deleting>>

\* Thirty seconds pass, or the message was delivered twice; after MaxReceives
\* receipts it goes to the dead-letter queue.
VisibilityTimeout(m) ==
    /\ queue[m].at = "inflight"
    /\ queue' = [queue EXCEPT ![m].at =
                    IF queue[m].receives < MaxReceives THEN "visible" ELSE "dead"]
    /\ UNCHANGED <<vars, got, current, deleting>>

--------------------------------------------------------------------------------
(* poll.                                                                   *)

ReceiveMessage(w) ==
    /\ Free(w)
    /\ got[w] = {}
    /\ \E S \in SUBSET {m \in Message : queue[m].at = "visible"} :
          /\ S # {} /\ Cardinality(S) <= BatchSize
          /\ queue' = [m \in Message |->
                          IF m \in S THEN [at |-> "inflight", receives |-> queue[m].receives + 1]
                          ELSE queue[m]]
          /\ got' = [got EXCEPT ![w] = S]
    /\ UNCHANGED <<vars, current, deleting>>

\* Mutant: an error ends the batch.
ProcessMessageStops(w) ==
    /\ Free(w)
    /\ \E m \in got[w] :
          IF m \in Poison
          THEN /\ got' = [got EXCEPT ![w] = {}]
               /\ UNCHANGED <<exec, current>>
          ELSE /\ got' = [got EXCEPT ![w] = @ \ {m}]
               /\ Goto(w, "fetch")
               /\ current' = [current EXCEPT ![w] = m]
    /\ UNCHANGED <<meta, row, host, root, pointer, crashes, queue, deleting>>

\* One after the other.  A body that cannot be read is an error; the run starts
\* whatever the status of the Meta PR.
ProcessMessage(w) ==
    /\ Free(w)
    /\ \E m \in got[w] :
          /\ got' = [got EXCEPT ![w] = @ \ {m}]
          /\ IF m \in Poison
             THEN UNCHANGED <<exec, current>>
             ELSE Goto(w, "fetch") /\ current' = [current EXCEPT ![w] = m]
    /\ UNCHANGED <<meta, row, host, root, pointer, crashes, queue, deleting>>

\* Mutant: the message is deleted whatever the run returns.
RunStepDeletes(w) ==
    /\ ExecuteCascadeMerge(w)
    /\ deleting' = [deleting EXCEPT ![w] = exec'[w].pc = "idle"]
    /\ UNCHANGED <<queue, got, current>>

\* A step of the run; only Finish ends it without an error.
RunStep(w) ==
    /\ ExecuteCascadeMerge(w)
    /\ IF exec'[w].pc = "idle"
       THEN /\ deleting' = [deleting EXCEPT ![w] = exec[w].pc = "finish"]
            /\ current' = [current EXCEPT ![w] = IF exec[w].pc = "finish" THEN @ ELSE None]
       ELSE UNCHANGED <<deleting, current>>
    /\ UNCHANGED <<queue, got>>

\* Whether the handle of a message that was delivered again still deletes it is the
\* queue's choice; the error of a deletion is logged.
DeleteMessage(w) ==
    /\ deleting[w]
    /\ \/ queue' = [queue EXCEPT ![current[w]].at = "deleted"]
       \/ UNCHANGED queue
    /\ deleting' = [deleting EXCEPT ![w] = FALSE]
    /\ current' = [current EXCEPT ![w] = None]
    /\ UNCHANGED <<vars, got>>

\* The consumer's process dies in the middle of a run.
ConsumerDies(w) ==
    /\ Crash(w)
    /\ got' = [got EXCEPT ![w] = {}]
    /\ current' = [current EXCEPT ![w] = None]
    /\ UNCHANGED <<queue, deleting>>

\* A retry request's goroutine is not the consumer's.
Retry(w) ==
    /\ RetryMerge(w) \/ ExecuteCascadeMerge(w) \/ Crash(w)
    /\ UNCHANGED qvars

QueueNext ==
    \/ \E m \in Message : Send(m) \/ VisibilityTimeout(m)
    \/ \E w \in Loop : \/ ReceiveMessage(w)
                       \/ ProcessMessage(w)
                       \/ RunStep(w)
                       \/ DeleteMessage(w)
                       \/ ConsumerDies(w)
    \/ \E w \in Request : Retry(w)
    \/ \E c \in Child : MergedByHand(c) /\ UNCHANGED qvars

QueueSpec == QueueInit /\ [][QueueNext]_allvars

\* A consumer polls for ever and its runs are scheduled, also those of a retry;
\* the queue makes a message visible again.
QueueFairness ==
    /\ \A m \in Message : WF_allvars(VisibilityTimeout(m))
    /\ \A w \in Loop : /\ WF_allvars(ReceiveMessage(w))
                       /\ WF_allvars(ProcessMessage(w))
                       /\ WF_allvars(RunStep(w))
                       /\ WF_allvars(DeleteMessage(w))
    /\ \A w \in Request : WF_allvars(ExecuteCascadeMerge(w) /\ UNCHANGED qvars)

FairQueueSpec == QueueSpec /\ QueueFairness

--------------------------------------------------------------------------------
(* Properties.                                                             *)

\* A message leaves the queue only for a cascade that is done, or for the dead-
\* letter queue.
DeletedWhenDone ==
    \A m \in Message : queue[m].at = "deleted" => root = "merged" /\ m \notin Poison

\* Delivered twice or late, with runs that die and beside the run of a retry: the
\* pull requests keep the contract, and what the tables call MERGED is.
DeliverySafe == RootAfterChildren /\ RecordsAreTrue

\* A message has its cascade done, whatever poison is in the queue with it and
\* although its consumer dies, unless that was between the merge of a child and its
\* record (no later delivery gets past that child), or a retry request competes with
\* the consumer for the lock, which may fail every delivery there is.
MessageServed ==
    \A m \in Message \ Poison :
        \/ queue[m].at = "visible" /\ (\A c \in Child : row[c].status # "NONE")
              ~> root = "merged"
        \/ <>[](\E c \in Child : host[c] = "merged" /\ row[c].status # "MERGED")
        \/ <>(\E w \in Request : exec[w].pc # "idle")

================================================================================
