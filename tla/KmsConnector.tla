---------------------------- MODULE KmsConnector ----------------------------
(***************************************************************************)
(* The connector of one KMS node: three services around one database.  The *)
(* gateway listeners store the request events of the Gateway, the KMS      *)
(* workers pick the stored requests, have the KMS Core process them and    *)
(* store its responses, and the transaction senders pick the responses and *)
(* send them to the Gateway.  A row that was picked is `under_process`     *)
(* until the task that works on it ends: it is then deleted or marked as   *)
(* pending again.  Each service may have several instances.                *)
(*                                                                         *)
(* The KMS Core, the contracts and the database are external: they answer, *)
(* refuse for good, or fail, and the failures of a behaviour are bounded.  *)
(***************************************************************************)
EXTENDS Integers, FiniteSets

CONSTANTS
    Requests,      \* the request events of the Gateway
    Kinds, KindOf, \* the tables they are stored in
    BatchKinds,    \* the decryptions, which are picked in batches
    NoResponse,    \* the requests without a response (PRSS init, resharing)
    Listeners, Workers, Senders,
    Watched,       \* per listener, the events emitted since it started
    BatchSize,     \* events_batch_size and responses_batch_size
    TaskLimit,     \* the semaphore of spawn_with_limit
    MaxFaults      \* bound on the failures and crashes of a behaviour

ASSUME ConnectorAssumption ==
    /\ KindOf \in [Requests -> Kinds]
    /\ BatchKinds \subseteq Kinds
    /\ NoResponse \subseteq Requests
    /\ Watched \in [Listeners -> SUBSET Requests]
    /\ \A r \in NoResponse : KindOf[r] \notin BatchKinds
    /\ BatchSize \in Nat \ {0} /\ TaskLimit \in Nat \ {0} /\ MaxFaults \in Nat

VARIABLES
    seen,       \* per listener, the events it received
    stored,     \* the requests that were stored at least once
    request,    \* per request, its row in the requests table: "none",
                \* "pending" or "under_process"
    response,   \* per request, its row in the responses table
    work,       \* per worker and request, the stage of its task: "none",
                \* "queued", "process", "publish", "delete", "release"
    send,       \* per sender and request, the stage of its task: "none",
                \* "queued", "send", "remove", "release"
    answered,   \* the requests the Gateway has this node's answer to
    refused,    \* those the KMS Core or the contract refused for good
    abandoned,  \* those a crash or a failed query left under_process
    faults

database == <<request, response, stored>>
vars     == <<answered, seen, database, work, send, refused, abandoned, faults>>

Init ==
    /\ stored = {} /\ answered = {} /\ refused = {} /\ abandoned = {}
    /\ seen = [l \in Listeners |-> {}]
    /\ request = [r \in Requests |-> "none"]
    /\ response = [r \in Requests |-> "none"]
    /\ work = [w \in Workers |-> [r \in Requests |-> "none"]]
    /\ send = [s \in Senders |-> [r \in Requests |-> "none"]]
    /\ faults = 0

Fault == faults < MaxFaults /\ faults' = faults + 1

----------------------------------------------------------------------------
(* The gateway listeners.  Each of them gets an event once, at any time;   *)
(* inserting it does nothing when its row is there, and inserts it again   *)
(* when the row was processed and deleted in the meantime.                 *)

Publish(l, r) ==
    /\ r \in Watched[l] \ seen[l]
    /\ seen' = [seen EXCEPT ![l] = @ \cup {r}]
    /\ request' = [request EXCEPT ![r] = IF @ = "none" THEN "pending" ELSE @]
    /\ stored' = stored \cup {r}
    /\ UNCHANGED <<answered, response, work, send, refused, abandoned, faults>>

(* An event that comes while the listener is down, with an error of the    *)
(* stream, or whose insertion fails, is only logged.                       *)
MissEvent(l, r) ==
    /\ r \in Watched[l] \ seen[l]
    /\ Fault
    /\ seen' = [seen EXCEPT ![l] = @ \cup {r}]
    /\ UNCHANGED <<answered, database, work, send, refused, abandoned>>

----------------------------------------------------------------------------
(* Picking and spawning, alike in both services: rows of one kind are      *)
(* picked and marked in one query, which skips rows that others have       *)
(* locked; the picked rows are then spawned one by one, each as soon as    *)
(* the limit of tasks allows it, and only then are others picked.          *)

WorkerBatch(k) == IF k \in BatchKinds THEN BatchSize ELSE 1

Picks(table, k, limit) ==
    {S \in SUBSET {r \in Requests : KindOf[r] = k /\ table[r] = "pending"} :
        S # {} /\ Cardinality(S) <= limit}

Marked(table, S) == [r \in Requests |-> IF r \in S THEN "under_process" ELSE table[r]]
Queued(tasks, S) == [r \in Requests |-> IF r \in S THEN "queued" ELSE tasks[r]]
NothingQueued(tasks) == \A r \in Requests : tasks[r] # "queued"
Running(tasks) == {r \in Requests : tasks[r] \notin {"none", "queued"}}
CanSpawn(tasks, r) == tasks[r] = "queued" /\ Cardinality(Running(tasks)) < TaskLimit

PickEvents(w, k) ==
    /\ NothingQueued(work[w])
    /\ \E S \in Picks(request, k, WorkerBatch(k)) :
           /\ request' = Marked(request, S)
           /\ work' = [work EXCEPT ![w] = Queued(@, S)]
    /\ UNCHANGED <<answered, seen, response, stored, send, refused, abandoned, faults>>

SpawnEventTask(w, r) ==
    /\ CanSpawn(work[w], r)
    /\ work' = [work EXCEPT ![w][r] = "process"]
    /\ UNCHANGED <<answered, seen, database, send, refused, abandoned, faults>>

PickResponses(s, k) ==
    /\ NothingQueued(send[s])
    /\ \E S \in Picks(response, k, BatchSize) :
           /\ response' = Marked(response, S)
           /\ send' = [send EXCEPT ![s] = Queued(@, S)]
    /\ UNCHANGED <<answered, seen, request, stored, work, refused, abandoned, faults>>

SpawnResponseTask(s, r) ==
    /\ CanSpawn(send[s], r)
    /\ send' = [send EXCEPT ![s][r] = "send"]
    /\ UNCHANGED <<answered, seen, database, work, refused, abandoned, faults>>

----------------------------------------------------------------------------
(* The tasks of a worker.                                                  *)

Goto(w, r, stage) == work' = [work EXCEPT ![w][r] = stage]

(* The KMS Core took the request, now or earlier, and gave its result; a   *)
(* request without a response is done when the KMS Core took it.           *)
Processed(w, r) ==
    /\ work[w][r] = "process"
    /\ Goto(w, r, IF r \in NoResponse THEN "delete" ELSE "publish")
    /\ UNCHANGED <<answered, seen, database, send, refused, abandoned, faults>>

(* Mutant: a failure that may pass is treated like one that stays.         *)
StageAfterAnyFailure(r, recoverable) == "delete"

(* A PRSS init or a resharing is not tried twice.                          *)
StageAfterFailure(r, recoverable) ==
    IF recoverable /\ r \notin NoResponse THEN "release" ELSE "delete"

(* All attempts to send failed, the result did not come in time, or the    *)
(* request could not be prepared; or an error that stays, such as a        *)
(* request the KMS Core rejects or does not know when asked for the        *)
(* result.                                                                 *)
ProcessingError(w, r) ==
    /\ work[w][r] = "process"
    /\ Fault
    /\ \E recoverable \in BOOLEAN :
           /\ Goto(w, r, StageAfterFailure(r, recoverable))
           /\ refused' = IF recoverable THEN refused ELSE refused \cup {r}
    /\ UNCHANGED <<answered, seen, database, send, abandoned>>

(* The response is inserted unless there is one; the trigger on the        *)
(* insertion deletes the request.  Without an insertion the request stays  *)
(* under_process.                                                          *)
StoreResponse(r) ==
    IF response[r] = "none"
    THEN /\ response' = [response EXCEPT ![r] = "pending"]
         /\ request' = [request EXCEPT ![r] = "none"]
    ELSE UNCHANGED <<response, request>>

PublishResponse(w, r) ==
    /\ work[w][r] = "publish"
    /\ StoreResponse(r)
    /\ Goto(w, r, "none")
    /\ UNCHANGED <<answered, seen, stored, send, refused, abandoned, faults>>

(* The insertion reports an error, although it may have taken place.       *)
PublishError(w, r) ==
    /\ work[w][r] = "publish"
    /\ Fault
    /\ StoreResponse(r) \/ UNCHANGED <<response, request>>
    /\ Goto(w, r, "release")
    /\ UNCHANGED <<answered, seen, stored, send, refused, abandoned>>

(* Mutant: the row stays under_process.                                    *)
RowAfterNothing(row, stage) == IF stage = "release" THEN row ELSE "none"

(* mark_as_pending, or the deletion of the row.                            *)
RowAfter(row, stage) ==
    IF stage = "release" /\ row # "none" THEN "pending" ELSE "none"

EndEventTask(w, r) ==
    /\ work[w][r] \in {"delete", "release"}
    /\ request' = [request EXCEPT ![r] = RowAfter(@, work[w][r])]
    /\ Goto(w, r, "none")
    /\ UNCHANGED <<answered, seen, response, stored, send, refused, abandoned, faults>>

(* The failure of such a query is only logged.                             *)
EndEventTaskError(w, r) ==
    /\ work[w][r] \in {"delete", "release"}
    /\ Fault
    /\ Goto(w, r, "none")
    /\ abandoned' = abandoned \cup {r}
    /\ UNCHANGED <<answered, seen, database, send, refused>>

(* The tasks die with the process and their rows stay under_process:       *)
(* nothing marks them as pending at the next start.                        *)
CrashWorker(w) ==
    /\ Fault
    /\ work' = [work EXCEPT ![w] = [r \in Requests |-> "none"]]
    /\ abandoned' = abandoned \cup {r \in Requests : work[w][r] # "none"}
    /\ UNCHANGED <<answered, seen, database, send, refused>>

----------------------------------------------------------------------------
(* The tasks of a sender.                                                  *)

GotoSend(s, r, stage) == send' = [send EXCEPT ![s][r] = stage]

(* The contract accepts one answer of the node to a request.               *)
Accepted(s, r) ==
    /\ send[s][r] = "send"
    /\ r \notin answered
    /\ answered' = answered \cup {r}
    /\ GotoSend(s, r, "remove")
    /\ UNCHANGED <<seen, database, work, refused, abandoned, faults>>

(* The gas estimation reverts with an error of the contracts: the answer   *)
(* is there already, or the node may not answer.                           *)
Rejected(s, r) ==
    /\ send[s][r] = "send"
    /\ IF r \in answered THEN UNCHANGED <<refused, faults>>
       ELSE Fault /\ refused' = refused \cup {r}
    /\ GotoSend(s, r, "remove")
    /\ UNCHANGED <<answered, seen, database, work, abandoned>>

(* Mutant: when all attempts failed the response is removed.               *)
GiveUpStages == {"send", "remove"}

(* The next attempt, or, after tx_retries of them, back to the picker.     *)
RetryStages == {"send", "release"}

(* An attempt fails; the transaction may have been mined all the same.     *)
AttemptFails(s, r) ==
    /\ send[s][r] = "send"
    /\ Fault
    /\ answered' \in {answered, answered \cup {r}}
    /\ \E stage \in RetryStages : GotoSend(s, r, stage)
    /\ UNCHANGED <<seen, database, work, refused, abandoned>>

EndResponseTask(s, r) ==
    /\ send[s][r] \in {"remove", "release"}
    /\ response' = [response EXCEPT ![r] = RowAfter(@, send[s][r])]
    /\ GotoSend(s, r, "none")
    /\ UNCHANGED <<answered, seen, request, stored, work, refused, abandoned, faults>>

EndResponseTaskError(s, r) ==
    /\ send[s][r] \in {"remove", "release"}
    /\ Fault
    /\ GotoSend(s, r, "none")
    /\ abandoned' = abandoned \cup {r}
    /\ UNCHANGED <<answered, seen, database, work, refused>>

CrashSender(s) ==
    /\ Fault
    /\ send' = [send EXCEPT ![s] = [r \in Requests |-> "none"]]
    /\ abandoned' = abandoned \cup {r \in Requests : send[s][r] # "none"}
    /\ UNCHANGED <<answered, seen, database, work, refused>>

(* The connection to the Gateway is gone: the response is marked as        *)
(* pending, and the service stops with whatever else it was sending.       *)
BackendGone(s, r) ==
    /\ send[s][r] = "send"
    /\ Fault
    /\ response' = [response EXCEPT ![r] = RowAfter(@, "release")]
    /\ send' = [send EXCEPT ![s] = [q \in Requests |-> "none"]]
    /\ abandoned' = abandoned \cup {q \in Requests \ {r} : send[s][q] # "none"}
    /\ UNCHANGED <<answered, seen, request, stored, work, refused>>

----------------------------------------------------------------------------
EventTask(w, r) ==
    \/ Processed(w, r)    \/ ProcessingError(w, r)
    \/ PublishResponse(w, r) \/ PublishError(w, r)
    \/ EndEventTask(w, r) \/ EndEventTaskError(w, r)

ResponseTask(s, r) ==
    \/ Accepted(s, r) \/ Rejected(s, r) \/ AttemptFails(s, r) \/ BackendGone(s, r)
    \/ EndResponseTask(s, r) \/ EndResponseTaskError(s, r)

Next ==
    \/ \E l \in Listeners, r \in Requests : Publish(l, r) \/ MissEvent(l, r)
    \/ \E w \in Workers, k \in Kinds : PickEvents(w, k)
    \/ \E w \in Workers, r \in Requests : SpawnEventTask(w, r) \/ EventTask(w, r)
    \/ \E s \in Senders, k \in Kinds : PickResponses(s, k)
    \/ \E s \in Senders, r \in Requests : SpawnResponseTask(s, r) \/ ResponseTask(s, r)
    \/ \E w \in Workers : CrashWorker(w)
    \/ \E s \in Senders : CrashSender(s)

(* Each kind of row has a ticker that wakes the pickers; every task ends,  *)
(* by its timeouts and its bounded attempts.                               *)
Fairness ==
    /\ \A w \in Workers, k \in Kinds : WF_vars(PickEvents(w, k))
    /\ \A s \in Senders, k \in Kinds : WF_vars(PickResponses(s, k))
    /\ \A w \in Workers, r \in Requests : WF_vars(SpawnEventTask(w, r) \/ EventTask(w, r))
    /\ \A s \in Senders, r \in Requests : WF_vars(SpawnResponseTask(s, r) \/ ResponseTask(s, r))

Spec == Init /\ [][Next]_vars /\ Fairness

----------------------------------------------------------------------------
WithResponse == Requests \ NoResponse

(* A stored request is never forgotten: until the Gateway has the node's   *)
(* answer, or the request was refused for good, it has a row, whichever    *)
(* query failed, whichever service crashed and however often listeners     *)
(* inserted it.                                                            *)
NothingForgotten ==
    \A r \in (stored \cap WithResponse) \ (answered \cup refused) :
        request[r] # "none" \/ response[r] # "none"

(* A row leaves its table only for the next stage: a request for its       *)
(* response, a response for the answer on the Gateway.  A refusal by the   *)
(* KMS Core or by the contract is the only other way out.                  *)
RowsMoveOn ==
    [][\A r \in WithResponse :
         /\ request[r] # "none" /\ request'[r] = "none" =>
                response'[r] # "none" \/ r \in answered \cup refused
         /\ response[r] # "none" /\ response'[r] = "none" =>
                r \in answered \cup refused]_vars

(* Every stored request is answered in the end, although tasks fail and    *)
(* rows are handed back, unless it was refused for good or its row was     *)
(* left under_process by a crash or a failed query.                        *)
RequestsAnswered ==
    \A r \in WithResponse :
        r \in stored ~> r \in answered \cup refused \cup abandoned
=============================================================================
