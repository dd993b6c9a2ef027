------------------------- MODULE KmsConnectorProofs -------------------------
(***************************************************************************)
(* Proofs about the KMS connector, for any number of instances of its      *)
(* services, any kinds of requests and any bounds on batches, tasks and    *)
(* failures.                                                               *)
(*                                                                         *)
(* That a stored request keeps a row is not inductive alone.  What makes   *)
(* it so is what the tasks that delete rows know: one that deletes a       *)
(* request saw it refused, one that removes a response saw the Gateway     *)
(* have the answer or refuse it; and neither fact is ever taken back.      *)
(***************************************************************************)
EXTENDS KmsConnector, TLAPS

Rows == {"none", "pending", "under_process"}
WorkStages == {"none", "queued", "process", "publish", "delete", "release"}
SendStages == {"none", "queued", "send", "remove", "release"}

TypeOK ==
    /\ request \in [Requests -> Rows]
    /\ response \in [Requests -> Rows]
    /\ work \in [Workers -> [Requests -> WorkStages]]
    /\ send \in [Senders -> [Requests -> SendStages]]

(* A worker deletes a request with a response only when it was refused.    *)
DeletedIsRefused ==
    \A w \in Workers : \A r \in WithResponse :
        work[w][r] = "delete" => r \in refused

(* A sender removes a response only when the Gateway has the answer, or    *)
(* refused it.                                                             *)
RemovedIsSettled ==
    \A s \in Senders : \A r \in Requests :
        send[s][r] = "remove" => r \in answered \cup refused

IInv ==
    /\ TypeOK
    /\ DeletedIsRefused
    /\ RemovedIsSettled
    /\ NothingForgotten

(* What each step does to the rows of the requests with a response.        *)
RowsStep ==
    \A r \in WithResponse :
        /\ request[r] # "none" /\ request'[r] = "none" =>
               response'[r] # "none" \/ r \in answered \cup refused
        /\ response[r] # "none" /\ response'[r] = "none" =>
               r \in answered \cup refused

(* Settled requests stay settled, and what is stored for the first time    *)
(* has a row.                                                              *)
SettledStep ==
    /\ answered \subseteq answered' /\ refused \subseteq refused'
    /\ \A r \in stored' \ stored : request'[r] # "none"

(* A step that moves rows on forgets nothing.                              *)
LEMMA NothingForgottenKept ==
    ASSUME NothingForgotten, RowsStep, SettledStep
    PROVE  NothingForgotten'
<1> SUFFICES ASSUME NEW r \in Requests, r \in stored', r \in WithResponse,
                    r \notin answered', r \notin refused'
             PROVE  request'[r] # "none" \/ response'[r] # "none"
  BY DEF NothingForgotten, WithResponse
<1>1. r \notin answered /\ r \notin refused
  BY DEF SettledStep
<1>2. CASE r \notin stored
  BY <1>2 DEF SettledStep
<1>3. CASE r \in stored
  <2>1. request[r] # "none" \/ response[r] # "none"
    BY <1>1, <1>3 DEF NothingForgotten
  <2> QED
    BY <1>1, <2>1 DEF RowsStep
<1> QED
  BY <1>2, <1>3

----------------------------------------------------------------------------
(* One task of one instance moves to another stage.                        *)
LEMMA OneStage ==
    ASSUME NEW I, NEW J, NEW S, NEW f \in [I -> [J -> S]],
           NEW i \in I, NEW j \in J, NEW x \in S, NEW g, g = [f EXCEPT ![i][j] = x]
    PROVE  /\ g \in [I -> [J -> S]]
           /\ \A k \in I, l \in J : g[k][l] = IF k = i /\ l = j THEN x ELSE f[k][l]
OBVIOUS

(* All tasks of one instance move at once.                                 *)
LEMMA AllStages ==
    ASSUME NEW I, NEW J, NEW S, NEW f \in [I -> [J -> S]],
           NEW i \in I, NEW e \in [J -> S], NEW g, g = [f EXCEPT ![i] = e]
    PROVE  /\ g \in [I -> [J -> S]]
           /\ \A k \in I, l \in J : g[k][l] = IF k = i THEN e[l] ELSE f[k][l]
OBVIOUS

(* Picked rows stay, and are queued and nothing else.                      *)
LEMMA Picked ==
    ASSUME NEW table \in [Requests -> Rows], NEW S, NEW stages,
           NEW tasks \in [Requests -> stages], "queued" \in stages
    PROVE  /\ Marked(table, S) \in [Requests -> Rows]
           /\ \A r \in Requests : table[r] # "none" => Marked(table, S)[r] # "none"
           /\ Queued(tasks, S) \in [Requests -> stages]
           /\ \A r \in Requests : Queued(tasks, S)[r] \in {"queued", tasks[r]}
BY DEF Marked, Queued, Rows

----------------------------------------------------------------------------
(* What each handler of the three services keeps.                          *)
Kept == TypeOK' /\ DeletedIsRefused' /\ RemovedIsSettled' /\ RowsStep /\ SettledStep

(* The listeners only add rows.                                            *)
LEMMA ListenersKeep ==
    ASSUME IInv, NEW l \in Listeners, NEW r \in Requests, Publish(l, r) \/ MissEvent(l, r)
    PROVE  Kept
<1> USE DEF IInv, TypeOK, WithResponse
<1>1. UNCHANGED <<answered, response, work, send, refused>>
  BY DEF Publish, MissEvent, database
<1>2. /\ request' \in [Requests -> Rows]
      /\ \A q \in Requests : request[q] # "none" => request'[q] # "none"
      /\ \A q \in stored' \ stored : request'[q] # "none"
  BY DEF Publish, MissEvent, database, Rows
<1>3. TypeOK'
  BY <1>1, <1>2
<1>4. DeletedIsRefused' /\ RemovedIsSettled'
  BY <1>1 DEF DeletedIsRefused, RemovedIsSettled
<1>5. RowsStep /\ SettledStep
  BY <1>1, <1>2 DEF RowsStep, SettledStep
<1> QED
  BY <1>3, <1>4, <1>5 DEF Kept

(* A step of a worker: it stores a response for the request it deletes,    *)
(* or the request was refused, and enters "delete" for that reason only.   *)
WorkerStep ==
    /\ request' \in [Requests -> Rows] /\ response' \in [Requests -> Rows]
    /\ work' \in [Workers -> [Requests -> WorkStages]]
    /\ UNCHANGED <<answered, stored, send>>
    /\ refused \subseteq refused'
    /\ \A w \in Workers : \A r \in WithResponse :
           work'[w][r] = "delete" => work[w][r] = "delete" \/ r \in refused'
    /\ \A r \in WithResponse : request[r] # "none" /\ request'[r] = "none" =>
           response'[r] # "none" \/ r \in refused
    /\ \A r \in Requests : response[r] # "none" => response'[r] # "none"

(* Such a step keeps the invariant.                                        *)
LEMMA WorkerStepKeeps ==
    ASSUME IInv, WorkerStep
    PROVE  Kept
<1>1. TypeOK' /\ RemovedIsSettled'
  BY DEF IInv, TypeOK, WorkerStep, RemovedIsSettled
<1>2. DeletedIsRefused'
  BY DEF IInv, WorkerStep, DeletedIsRefused
<1>3. RowsStep /\ SettledStep
  BY DEF IInv, WorkerStep, RowsStep, SettledStep, WithResponse
<1> QED
  BY <1>1, <1>2, <1>3 DEF Kept

(* Picking marks rows and queues tasks; spawning starts a queued task.     *)
LEMMA EventPickerKeeps ==
    ASSUME IInv, NEW w \in Workers,
           \/ \E k \in Kinds : PickEvents(w, k)
           \/ \E r \in Requests : SpawnEventTask(w, r)
    PROVE  WorkerStep
<1> USE DEF WithResponse
<1>1. /\ request \in [Requests -> Rows] /\ response \in [Requests -> Rows]
      /\ work \in [Workers -> [Requests -> WorkStages]]
      /\ work[w] \in [Requests -> WorkStages]
  BY DEF IInv, TypeOK
<1>2. {"queued", "process"} \subseteq WorkStages
  BY DEF WorkStages
<1>3. ASSUME NEW k \in Kinds, PickEvents(w, k)
      PROVE  WorkerStep
  <2>1. PICK S : request' = Marked(request, S)
                 /\ work' = [work EXCEPT ![w] = Queued(work[w], S)]
    BY <1>3 DEF PickEvents
  <2> DEFINE tasks == work[w]
             e == Queued(tasks, S)
  <2>2. /\ request' \in [Requests -> Rows]
        /\ \A q \in Requests : request[q] # "none" => request'[q] # "none"
        /\ e \in [Requests -> WorkStages]
        /\ \A q \in Requests : e[q] \in {"queued", work[w][q]}
    BY <1>1, <1>2, <2>1, Picked
  <2>3. work' = [work EXCEPT ![w] = e]
    BY <2>1
  <2> HIDE DEF e, tasks
  <2>4. /\ work' \in [Workers -> [Requests -> WorkStages]]
        /\ \A v \in Workers, q \in Requests :
              work'[v][q] = IF v = w THEN e[q] ELSE work[v][q]
    BY <1>1, <2>2, <2>3, AllStages
  <2>5. \A v \in Workers, q \in Requests : work'[v][q] = "delete" => work[v][q] = "delete"
    BY <2>2, <2>4
  <2>6. UNCHANGED <<answered, response, stored, send, refused>>
    BY <1>3 DEF PickEvents
  <2> QED
    BY <1>1, <2>2, <2>4, <2>5, <2>6 DEF WorkerStep
<1>4. ASSUME NEW r \in Requests, SpawnEventTask(w, r)
      PROVE  WorkerStep
  <2>1. work' = [work EXCEPT ![w][r] = "process"]
    BY <1>4 DEF SpawnEventTask
  <2>2. /\ work' \in [Workers -> [Requests -> WorkStages]]
        /\ \A v \in Workers, q \in Requests :
              work'[v][q] = IF v = w /\ q = r THEN "process" ELSE work[v][q]
    BY <1>1, <1>2, <2>1, OneStage
  <2>3. UNCHANGED <<answered, request, response, stored, send, refused>>
    BY <1>4 DEF SpawnEventTask, database
  <2> QED
    BY <1>1, <2>2, <2>3 DEF WorkerStep
<1> QED
  BY <1>3, <1>4

(* The tasks of a worker.                                                  *)
LEMMA EventTaskKeeps ==
    ASSUME IInv, NEW w \in Workers, NEW r \in Requests, EventTask(w, r)
    PROVE  WorkerStep
<1> USE DEF WithResponse
<1>1. /\ request \in [Requests -> Rows] /\ response \in [Requests -> Rows]
      /\ work \in [Workers -> [Requests -> WorkStages]]
  BY DEF IInv, TypeOK
<1>2. ASSUME NEW stage \in WorkStages, Goto(w, r, stage)
      PROVE  /\ work' \in [Workers -> [Requests -> WorkStages]]
             /\ \A v \in Workers, q \in Requests :
                   work'[v][q] = IF v = w /\ q = r THEN stage ELSE work[v][q]
  <2>1. work' = [work EXCEPT ![w][r] = stage]
    BY <1>2 DEF Goto
  <2> QED
    BY <1>1, <2>1, OneStage
<1>3. {"none", "queued", "process", "publish", "delete", "release"} \subseteq WorkStages
  BY DEF WorkStages
<1>4. /\ answered' = answered /\ stored' = stored /\ send' = send
      /\ refused \subseteq refused'
  BY DEF EventTask, Processed, ProcessingError, PublishResponse, PublishError, EndEventTask,
         EndEventTaskError, database
<1>5. ASSUME StoreResponse(r)
      PROVE  /\ request' \in [Requests -> Rows] /\ response' \in [Requests -> Rows]
             /\ \A q \in Requests : request[q] # "none" /\ request'[q] = "none" =>
                    response'[q] # "none"
             /\ \A q \in Requests : response[q] # "none" => response'[q] # "none"
  BY <1>1, <1>5 DEF StoreResponse, Rows
<1>6. CASE Processed(w, r)
  <2>1. PICK stage \in {"delete", "publish"} :
           Goto(w, r, stage) /\ (r \notin NoResponse => stage = "publish")
    BY <1>6 DEF Processed
  <2>2. UNCHANGED <<request, response, refused>>
    BY <1>6 DEF Processed, database
  <2> QED
    BY <1>1, <1>2, <1>3, <1>4, <2>1, <2>2 DEF WorkerStep
<1>7. CASE ProcessingError(w, r)
  <2>1. PICK stage \in {"delete", "release"} :
           Goto(w, r, stage) /\ (r \notin NoResponse /\ stage = "delete" => r \in refused')
    BY <1>7 DEF ProcessingError, StageAfterFailure
  <2>2. UNCHANGED <<request, response>>
    BY <1>7 DEF ProcessingError, database
  <2> QED
    BY <1>1, <1>2, <1>3, <1>4, <2>1, <2>2 DEF WorkerStep
<1>8. CASE PublishResponse(w, r)
  BY <1>2, <1>3, <1>4, <1>5, <1>8 DEF PublishResponse, WorkerStep
<1>9. CASE PublishError(w, r)
  <2>1. CASE StoreResponse(r)
    BY <1>2, <1>3, <1>4, <1>5, <1>9, <2>1 DEF PublishError, WorkerStep
  <2>2. CASE UNCHANGED <<response, request>>
    BY <1>1, <1>2, <1>3, <1>4, <1>9, <2>2 DEF PublishError, WorkerStep
  <2> QED
    BY <1>9, <2>1, <2>2 DEF PublishError
<1>10. CASE EndEventTask(w, r)
  <2>1. /\ Goto(w, r, "none") /\ response' = response /\ refused' = refused
        /\ request' = [request EXCEPT ![r] = RowAfter(request[r], work[w][r])]
        /\ work[w][r] \in {"delete", "release"}
    BY <1>10 DEF EndEventTask
  <2>2. /\ request' \in [Requests -> Rows]
        /\ \A q \in Requests : request[q] # "none" /\ request'[q] = "none" =>
              q = r /\ work[w][r] = "delete"
    BY <1>1, <2>1 DEF RowAfter, Rows
  <2>3. \A q \in WithResponse : request[q] # "none" /\ request'[q] = "none" => q \in refused
    BY <2>2 DEF IInv, DeletedIsRefused
  <2> QED
    BY <1>1, <1>2, <1>3, <1>4, <2>1, <2>2, <2>3 DEF WorkerStep
<1>11. CASE EndEventTaskError(w, r)
  <2>1. UNCHANGED <<request, response, refused>>
    BY <1>11 DEF EndEventTaskError, database
  <2> QED
    BY <1>1, <1>2, <1>3, <1>4, <1>11, <2>1 DEF EndEventTaskError, WorkerStep
<1> QED
  BY <1>6, <1>7, <1>8, <1>9, <1>10, <1>11 DEF EventTask

(* A crash ends the tasks and touches no row.                              *)
LEMMA CrashWorkerKeeps ==
    ASSUME IInv, NEW w \in Workers, CrashWorker(w)
    PROVE  WorkerStep
<1> DEFINE e == [r \in Requests |-> "none"]
<1>1. /\ work \in [Workers -> [Requests -> WorkStages]]
      /\ e \in [Requests -> WorkStages]
  BY DEF IInv, TypeOK, WorkStages
<1>2. work' = [work EXCEPT ![w] = e] /\ \A r \in Requests : e[r] = "none"
  BY DEF CrashWorker
<1> HIDE DEF e
<1>3. /\ work' \in [Workers -> [Requests -> WorkStages]]
      /\ \A v \in Workers, q \in Requests :
            work'[v][q] = IF v = w THEN e[q] ELSE work[v][q]
  BY <1>1, <1>2, AllStages
<1>4. UNCHANGED <<answered, request, response, stored, send, refused>>
  BY DEF CrashWorker, database
<1> QED
  BY <1>2, <1>3, <1>4 DEF WorkerStep, IInv, TypeOK, WithResponse
----------------------------------------------------------------------------
(* A step of a sender: it enters "remove" only for a settled request, and  *)
(* the rows of responses that go are those of settled requests.            *)
SenderStep ==
    /\ response' \in [Requests -> Rows]
    /\ send' \in [Senders -> [Requests -> SendStages]]
    /\ UNCHANGED <<request, stored, work>>
    /\ answered \subseteq answered' /\ refused \subseteq refused'
    /\ \A s \in Senders : \A r \in Requests : send'[s][r] = "remove" =>
           send[s][r] = "remove" \/ r \in answered' \cup refused'
    /\ \A r \in Requests : response[r] # "none" /\ response'[r] = "none" =>
           r \in answered \cup refused

(* Such a step keeps the invariant.                                        *)
LEMMA SenderStepKeeps ==
    ASSUME IInv, SenderStep
    PROVE  Kept
<1>1. TypeOK'
  BY DEF IInv, TypeOK, SenderStep
<1>2. DeletedIsRefused'
  BY DEF IInv, SenderStep, DeletedIsRefused
<1>3. RemovedIsSettled'
  BY DEF IInv, SenderStep, RemovedIsSettled
<1>4. RowsStep /\ SettledStep
  BY DEF SenderStep, RowsStep, SettledStep, WithResponse
<1> QED
  BY <1>1, <1>2, <1>3, <1>4 DEF Kept

(* Picking marks rows and queues tasks; spawning starts a queued task.     *)
LEMMA ResponsePickerKeeps ==
    ASSUME IInv, NEW s \in Senders,
           \/ \E k \in Kinds : PickResponses(s, k)
           \/ \E r \in Requests : SpawnResponseTask(s, r)
    PROVE  SenderStep
<1>1. /\ response \in [Requests -> Rows]
      /\ send \in [Senders -> [Requests -> SendStages]]
      /\ send[s] \in [Requests -> SendStages]
  BY DEF IInv, TypeOK
<1>2. {"queued", "send"} \subseteq SendStages
  BY DEF SendStages
<1>3. ASSUME NEW k \in Kinds, PickResponses(s, k)
      PROVE  SenderStep
  <2>1. PICK S : response' = Marked(response, S)
                 /\ send' = [send EXCEPT ![s] = Queued(send[s], S)]
    BY <1>3 DEF PickResponses
  <2> DEFINE tasks == send[s]
             e == Queued(tasks, S)
  <2>2. /\ response' \in [Requests -> Rows]
        /\ \A q \in Requests : response[q] # "none" => response'[q] # "none"
        /\ e \in [Requests -> SendStages]
        /\ \A q \in Requests : e[q] \in {"queued", send[s][q]}
    BY <1>1, <1>2, <2>1, Picked
  <2>3. send' = [send EXCEPT ![s] = e]
    BY <2>1
  <2> HIDE DEF e, tasks
  <2>4. /\ send' \in [Senders -> [Requests -> SendStages]]
        /\ \A t \in Senders, q \in Requests :
              send'[t][q] = IF t = s THEN e[q] ELSE send[t][q]
    BY <1>1, <2>2, <2>3, AllStages
  <2>5. \A t \in Senders, q \in Requests : send'[t][q] = "remove" => send[t][q] = "remove"
    BY <2>2, <2>4
  <2>6. UNCHANGED <<answered, request, stored, work, refused>>
    BY <1>3 DEF PickResponses
  <2> QED
    BY <2>2, <2>4, <2>5, <2>6 DEF SenderStep
<1>4. ASSUME NEW r \in Requests, SpawnResponseTask(s, r)
      PROVE  SenderStep
  <2>1. send' = [send EXCEPT ![s][r] = "send"]
    BY <1>4 DEF SpawnResponseTask
  <2>2. /\ send' \in [Senders -> [Requests -> SendStages]]
        /\ \A t \in Senders, q \in Requests :
              send'[t][q] = IF t = s /\ q = r THEN "send" ELSE send[t][q]
    BY <1>1, <1>2, <2>1, OneStage
  <2>3. UNCHANGED <<answered, request, response, stored, work, refused>>
    BY <1>4 DEF SpawnResponseTask, database
  <2> QED
    BY <1>1, <2>2, <2>3 DEF SenderStep
<1> QED
  BY <1>3, <1>4

(* A sender that stops, or loses the Gateway, ends all its tasks.          *)
LEMMA TasksDropped ==
    ASSUME IInv, NEW s \in Senders,
           send' = [send EXCEPT ![s] = [r \in Requests |-> "none"]]
    PROVE  /\ send' \in [Senders -> [Requests -> SendStages]]
           /\ \A t \in Senders : \A q \in Requests :
                 send'[t][q] = "remove" => send[t][q] = "remove"
<1> DEFINE e == [r \in Requests |-> "none"]
<1>1. /\ send \in [Senders -> [Requests -> SendStages]]
      /\ e \in [Requests -> SendStages]
  BY DEF IInv, TypeOK, SendStages
<1>2. send' = [send EXCEPT ![s] = e] /\ \A r \in Requests : e[r] = "none"
  OBVIOUS
<1> HIDE DEF e
<1>3. /\ send' \in [Senders -> [Requests -> SendStages]]
      /\ \A t \in Senders, q \in Requests :
            send'[t][q] = IF t = s THEN e[q] ELSE send[t][q]
  BY <1>1, <1>2, AllStages
<1> QED
  BY <1>2, <1>3

(* The tasks of a sender.                                                  *)
LEMMA ResponseTaskKeeps ==
    ASSUME IInv, NEW s \in Senders, NEW r \in Requests, ResponseTask(s, r)
    PROVE  SenderStep
<1>1. /\ response \in [Requests -> Rows]
      /\ send \in [Senders -> [Requests -> SendStages]]
  BY DEF IInv, TypeOK
<1>2. ASSUME NEW stage \in SendStages, GotoSend(s, r, stage)
      PROVE  /\ send' \in [Senders -> [Requests -> SendStages]]
             /\ \A t \in Senders, q \in Requests :
                   send'[t][q] = IF t = s /\ q = r THEN stage ELSE send[t][q]
  <2>1. send' = [send EXCEPT ![s][r] = stage]
    BY <1>2 DEF GotoSend
  <2> QED
    BY <1>1, <2>1, OneStage
<1>3. {"none", "send", "remove", "release"} \subseteq SendStages
  BY DEF SendStages
<1>4. /\ UNCHANGED <<request, stored, work>>
      /\ answered \subseteq answered' /\ refused \subseteq refused'
  BY DEF ResponseTask, Accepted, Rejected, AttemptFails, BackendGone, EndResponseTask,
         EndResponseTaskError, database
<1>5. CASE Accepted(s, r)
  <2>1. GotoSend(s, r, "remove") /\ r \in answered' /\ response' = response
    BY <1>5 DEF Accepted, database
  <2> QED
    BY <1>1, <1>2, <1>3, <1>4, <2>1 DEF SenderStep
<1>6. CASE Rejected(s, r)
  <2>1. /\ GotoSend(s, r, "remove") /\ response' = response
        /\ r \in answered' \cup refused'
    BY <1>6 DEF Rejected, database
  <2> QED
    BY <1>1, <1>2, <1>3, <1>4, <2>1 DEF SenderStep
<1>7. CASE AttemptFails(s, r)
  <2>1. PICK stage \in {"send", "release"} : GotoSend(s, r, stage)
    BY <1>7 DEF AttemptFails, RetryStages
  <2>2. response' = response
    BY <1>7 DEF AttemptFails, database
  <2> QED
    BY <1>1, <1>2, <1>3, <1>4, <2>1, <2>2 DEF SenderStep
<1>8. CASE BackendGone(s, r)
  <2>1. /\ response' = [response EXCEPT ![r] = RowAfter(response[r], "release")]
        /\ send' = [send EXCEPT ![s] = [q \in Requests |-> "none"]]
    BY <1>8 DEF BackendGone
  <2>2. /\ response' \in [Requests -> Rows]
        /\ \A q \in Requests : response[q] # "none" => response'[q] # "none"
    BY <1>1, <2>1 DEF RowAfter, Rows
  <2> QED
    BY <1>4, <2>1, <2>2, TasksDropped DEF SenderStep
<1>9. CASE EndResponseTask(s, r)
  <2>1. /\ GotoSend(s, r, "none")
        /\ response' = [response EXCEPT ![r] = RowAfter(response[r], send[s][r])]
        /\ send[s][r] \in {"remove", "release"}
    BY <1>9 DEF EndResponseTask
  <2>2. /\ response' \in [Requests -> Rows]
        /\ \A q \in Requests : response[q] # "none" /\ response'[q] = "none" =>
              q = r /\ send[s][r] = "remove"
    BY <1>1, <2>1 DEF RowAfter, Rows
  <2>3. \A q \in Requests : response[q] # "none" /\ response'[q] = "none" =>
              q \in answered \cup refused
    BY <2>2 DEF IInv, RemovedIsSettled
  <2> QED
    BY <1>2, <1>3, <1>4, <2>1, <2>2, <2>3 DEF SenderStep
<1>10. CASE EndResponseTaskError(s, r)
  <2>1. GotoSend(s, r, "none") /\ response' = response
    BY <1>10 DEF EndResponseTaskError, database
  <2> QED
    BY <1>1, <1>2, <1>3, <1>4, <2>1 DEF SenderStep
<1> QED
  BY <1>5, <1>6, <1>7, <1>8, <1>9, <1>10 DEF ResponseTask

(* A crash ends the tasks and touches no row.                              *)
LEMMA CrashSenderKeeps ==
    ASSUME IInv, NEW s \in Senders, CrashSender(s)
    PROVE  SenderStep
<1>1. /\ send' = [send EXCEPT ![s] = [r \in Requests |-> "none"]]
      /\ UNCHANGED <<answered, request, response, stored, work, refused>>
  BY DEF CrashSender, database
<1>2. response \in [Requests -> Rows]
  BY DEF IInv, TypeOK
<1> QED
  BY <1>1, <1>2, TasksDropped DEF SenderStep

----------------------------------------------------------------------------
(* At the start there is no row and no task.                               *)
LEMMA InitInductive == Init => IInv
<1> SUFFICES ASSUME Init
             PROVE  IInv
  OBVIOUS
<1> USE DEF Init
<1>1. TypeOK
  BY DEF TypeOK, Rows, WorkStages, SendStages
<1>2. DeletedIsRefused /\ RemovedIsSettled
  BY DEF DeletedIsRefused, RemovedIsSettled, WithResponse
<1>3. NothingForgotten
  BY DEF NothingForgotten
<1> QED
  BY <1>1, <1>2, <1>3 DEF IInv

(* Every step of the three services keeps the invariant and moves rows     *)
(* only to the next stage.                                                 *)
LEMMA Inductive == IInv /\ [Next]_vars => IInv' /\ RowsStep
<1> SUFFICES ASSUME IInv, [Next]_vars
             PROVE  IInv' /\ RowsStep
  OBVIOUS
<1> SUFFICES Kept
  BY NothingForgottenKept DEF Kept, IInv
<1>1. CASE \E l \in Listeners, r \in Requests : Publish(l, r) \/ MissEvent(l, r)
  BY <1>1, ListenersKeep
<1>2. CASE \/ \E w \in Workers, k \in Kinds : PickEvents(w, k)
           \/ \E w \in Workers, r \in Requests : SpawnEventTask(w, r)
  BY <1>2, EventPickerKeeps, WorkerStepKeeps
<1>3. CASE \E w \in Workers, r \in Requests : EventTask(w, r)
  BY <1>3, EventTaskKeeps, WorkerStepKeeps
<1>4. CASE \E w \in Workers : CrashWorker(w)
  BY <1>4, CrashWorkerKeeps, WorkerStepKeeps
<1>5. CASE \/ \E s \in Senders, k \in Kinds : PickResponses(s, k)
           \/ \E s \in Senders, r \in Requests : SpawnResponseTask(s, r)
  BY <1>5, ResponsePickerKeeps, SenderStepKeeps
<1>6. CASE \E s \in Senders, r \in Requests : ResponseTask(s, r)
  BY <1>6, ResponseTaskKeeps, SenderStepKeeps
<1>7. CASE \E s \in Senders : CrashSender(s)
  BY <1>7, CrashSenderKeeps, SenderStepKeeps
<1>8. CASE UNCHANGED vars
  <2>1. UNCHANGED <<answered, request, response, stored, work, send, refused>>
    BY <1>8 DEF vars, database
  <2> QED
    BY <2>1 DEF Kept, IInv, TypeOK, DeletedIsRefused, RemovedIsSettled, RowsStep, SettledStep
<1> QED
  BY <1>1, <1>2, <1>3, <1>4, <1>5, <1>6, <1>7, <1>8 DEF Next

(* What the connector's tasks and tables keep to, whatever the Gateway,    *)
(* the KMS Core and the failures do.                                       *)
THEOREM ConnectorInvariant == Spec => []IInv
<1> QED
  BY InitInductive, Inductive, PTL DEF Spec

(* A request that was stored keeps a row until the Gateway has this node's *)
(* answer or the request was refused for good: through every failed query, *)
(* every crash and every concurrent picker.                                *)
THEOREM StoredNotForgotten == Spec => []NothingForgotten
<1>1. IInv => NothingForgotten
  BY DEF IInv
<1> QED
  BY <1>1, ConnectorInvariant, PTL

(* A row of either table goes only when its successor is there or its      *)
(* request is settled.                                                     *)
THEOREM RowsSettle == Spec => RowsMoveOn
<1>1. IInv /\ [Next]_vars => [RowsStep]_vars
  BY Inductive
<1> QED
  BY <1>1, ConnectorInvariant, PTL DEF Spec, RowsMoveOn, RowsStep
=============================================================================
