---------------------- MODULE CoprocessorOutputProofs ----------------------
(***************************************************************************)
(* Proofs about what leaves a coprocessor, for any ciphertexts and rows,   *)
(* any bounds on batches, channel and uploads, and any number of failures. *)
(*                                                                         *)
(* Each property is held up by a chain of facts that crosses the two       *)
(* services: an upload that counts a form as stored has put it into S3, a  *)
(* digest is stored for such a form only, a task runs only for a row whose *)
(* digests are both stored, and what the Gateway accepts was sent by a     *)
(* task.  Nothing in this chain is ever taken back, by a crash either.     *)
(***************************************************************************)
EXTENDS CoprocessorOutput, TLAPS

Jobs == [handle : Handles, forms : SUBSET Forms, dbLock : BOOLEAN]

Uploads ==
    [handle : Handles, forms : SUBSET Forms, locks : BOOLEAN, inserted : BOOLEAN,
     put : BOOLEAN, ok : SUBSET Forms]

SnsTypeOK ==
    /\ converted \subseteq Handles /\ ct128 \subseteq Handles
    /\ enqueued \subseteq Handles /\ batch \subseteq Handles
    /\ digests \in [Forms -> SUBSET Handles]
    /\ bucket \in [Forms -> SUBSET Handles]
    /\ channel \subseteq Jobs /\ resubmit \subseteq Jobs
    /\ uploads \subseteq Uploads
    /\ ready \in BOOLEAN

(* The forms an upload counts as stored are in S3, and so is everything    *)
(* with a digest.                                                          *)
UploadsPut == \A u \in uploads : \A f \in u.ok : u.handle \in bucket[f]
DigestsPut == \A f \in Forms : digests[f] \subseteq bucket[f]

SnsInv == SnsTypeOK /\ UploadsPut /\ DigestsPut /\ ConvertedIsKept

TxTypeOK ==
    /\ sent \subseteq Rows /\ accepted \subseteq Rows
    /\ task \in [Rows -> {"none", "start", "sending", "waiting", "success", "reverted"}]
    /\ \A tx \in pool : tx.row \in Rows

(* A task that succeeded saw its transaction mined.                        *)
SuccessIsAccepted == \A r \in Rows : task[r] = "success" => r \in accepted

(* A row that is sent, was sent or was accepted is in the table.           *)
WorkedInTable ==
    /\ \A r \in Rows : task[r] # "none" => r \in Table
    /\ \A tx \in pool : tx.row \in Table
    /\ accepted \subseteq Table

TxInv == TxTypeOK /\ SuccessIsAccepted /\ SentIsAccepted /\ WorkedInTable

IInv == SnsInv /\ TxInv

----------------------------------------------------------------------------
(* The SnS worker.                                                         *)

(* Nothing a worker has stored about uploads is taken back.                *)
Monotone == \A f \in Forms : digests[f] \subseteq digests'[f] /\ bucket[f] \subseteq bucket'[f]

(* A step that stores nothing only has to keep its own state well typed    *)
(* and to start no upload with a form put already.                         *)
LEMMA NothingStored ==
    ASSUME SnsInv, UNCHANGED storage,
           batch' \subseteq Handles, channel' \subseteq Jobs, resubmit' \subseteq Jobs,
           uploads' \subseteq Uploads, ready' \in BOOLEAN,
           \A u \in uploads' : u \in uploads \/ u.ok = {}
    PROVE  SnsInv' /\ Monotone
<1>1. UNCHANGED <<converted, ct128, enqueued, digests, bucket>>
  BY DEF storage
<1>2. SnsTypeOK'
  BY <1>1 DEF SnsInv, SnsTypeOK
<1>3. UploadsPut' /\ DigestsPut' /\ ConvertedIsKept' /\ Monotone
  BY <1>1 DEF SnsInv, UploadsPut, DigestsPut, ConvertedIsKept, Monotone
<1> QED
  BY <1>2, <1>3 DEF SnsInv

(* The executor: what it has converted is in the database when its batch   *)
(* commits, and is dropped from there only with its upload recorded.       *)
LEMMA ExecutorKeeps ==
    ASSUME SnsInv, ProcessTasks \/ CommitTasks \/ RollbackTasks \/ GarbageCollect
    PROVE  SnsInv' /\ Monotone
<1> USE DEF SnsInv, SnsTypeOK
<1>1. CASE ProcessTasks
  <2>1. /\ batch' = SnsTasks /\ UNCHANGED <<storage, resubmit, uploads, ready>>
        /\ \E S \in SUBSET {NormalJob(h) : h \in SnsTasks \ Inconvertible} :
               channel' = channel \cup S
    BY <1>1 DEF ProcessTasks
  <2>2. SnsTasks \subseteq Handles
    BY DEF SnsTasks
  <2>3. \A h \in SnsTasks : NormalJob(h) \in Jobs
    BY <2>2 DEF NormalJob, Jobs
  <2>4. channel' \subseteq Jobs
    BY <2>1, <2>3
  <2> QED
    BY <2>1, <2>2, <2>4, NothingStored
<1>2. CASE CommitTasks
  <2>1. /\ converted' = converted \cup (batch \ Inconvertible)
        /\ ct128' = ct128 \cup (batch \ Inconvertible)
        /\ enqueued' = enqueued \cup batch /\ batch' = {}
        /\ UNCHANGED <<digests, bucket, channel, resubmit, uploads, ready>>
    BY <1>2 DEF CommitTasks
  <2>2. SnsTypeOK'
    BY <2>1
  <2>3. UploadsPut' /\ DigestsPut' /\ Monotone
    BY <2>1 DEF UploadsPut, DigestsPut, Monotone
  <2>4. ConvertedIsKept'
    BY <2>1 DEF ConvertedIsKept
  <2> QED
    BY <2>2, <2>3, <2>4
<1>3. CASE RollbackTasks
  BY <1>3, NothingStored DEF RollbackTasks
<1>4. CASE GarbageCollect
  <2>1. /\ ct128' = ct128 \ (ct128 \cap digests["ct128"])
        /\ UNCHANGED <<converted, enqueued, digests, bucket, batch, channel, resubmit,
                       uploads, ready>>
    BY <1>4 DEF GarbageCollect, Uploaded128
  <2>2. SnsTypeOK'
    BY <2>1
  <2>3. UploadsPut' /\ DigestsPut' /\ Monotone
    BY <2>1 DEF UploadsPut, DigestsPut, Monotone
  <2>4. digests["ct128"] \subseteq bucket["ct128"]
    BY DEF DigestsPut, Forms
  <2>5. ConvertedIsKept'
    BY <2>1, <2>4 DEF ConvertedIsKept
  <2> QED
    BY <2>2, <2>3, <2>5
<1> QED
  BY <1>1, <1>2, <1>3, <1>4

(* The uploader: a digest is stored for a form that was put.               *)
LEMMA UploaderKeeps ==
    ASSUME SnsInv,
           \/ \E job \in channel : StartUpload(job)
           \/ \E u \in uploads : PutObjects(u) \/ CommitUpload(u) \/ AbortUpload(u)
    PROVE  SnsInv' /\ Monotone
<1> USE DEF SnsInv, SnsTypeOK
<1>1. ASSUME NEW job \in channel, StartUpload(job)
      PROVE  SnsInv' /\ Monotone
  <2> DEFINE new == [handle   |-> job.handle,
                     forms    |-> job.forms,
                     locks    |-> job.dbLock,
                     inserted |-> ~job.dbLock /\ job.handle \notin enqueued,
                     put      |-> FALSE,
                     ok       |-> {}]
  <2>1. /\ channel' \subseteq channel /\ UNCHANGED <<storage, batch, resubmit, ready>>
        /\ uploads' = uploads \cup {new} \/ uploads' = uploads
    BY <1>1 DEF StartUpload
  <2>2. new \in Uploads /\ new.ok = {}
    <3>1. job.handle \in Handles /\ job.forms \in SUBSET Forms /\ job.dbLock \in BOOLEAN
      BY DEF Jobs
    <3>2. (~job.dbLock /\ job.handle \notin enqueued) \in BOOLEAN
      OBVIOUS
    <3> QED
      BY <3>1, <3>2 DEF Uploads
  <2> HIDE DEF new
  <2>3. uploads' \subseteq Uploads /\ \A u \in uploads' : u \in uploads \/ u.ok = {}
    BY <2>1, <2>2
  <2> QED
    BY <2>1, <2>3, NothingStored
<1>2. ASSUME NEW u \in uploads, PutObjects(u)
      PROVE  SnsInv' /\ Monotone
  <2>1. PICK ok \in SUBSET u.forms :
           /\ bucket' = [f \in Forms |-> IF f \in ok THEN bucket[f] \cup {u.handle}
                                         ELSE bucket[f]]
           /\ uploads' = (uploads \ {u}) \cup {[u EXCEPT !.put = TRUE, !.ok = ok]}
    BY <1>2 DEF PutObjects
  <2>2. UNCHANGED <<converted, ct128, enqueued, digests, batch, channel, resubmit, ready>>
    BY <1>2 DEF PutObjects
  <2> DEFINE new == [u EXCEPT !.put = TRUE, !.ok = ok]
  <2>3. u \in Uploads
    OBVIOUS
  <2>4. new \in Uploads /\ new.ok = ok /\ new.handle = u.handle /\ ok \subseteq Forms
        /\ u.handle \in Handles
    BY <2>3 DEF Uploads
  <2> HIDE DEF new
  <2>5. /\ bucket' \in [Forms -> SUBSET Handles]
        /\ \A f \in Forms : bucket[f] \subseteq bucket'[f]
        /\ \A f \in ok : u.handle \in bucket'[f]
    BY <2>1, <2>4
  <2>6. uploads' = (uploads \ {u}) \cup {new}
    BY <2>1 DEF new
  <2>7. SnsTypeOK'
    BY <2>2, <2>4, <2>5, <2>6
  <2>8. UploadsPut'
    <3> SUFFICES ASSUME NEW v \in uploads', NEW f \in v.ok
                 PROVE  v.handle \in bucket'[f]
      BY DEF UploadsPut
    <3>1. CASE v = new
      BY <2>4, <2>5, <3>1
    <3>2. CASE v \in uploads
      <4>1. v.handle \in bucket[f] /\ f \in Forms
        BY <3>2 DEF UploadsPut, Uploads
      <4> QED
        BY <2>5, <4>1
    <3> QED
      BY <2>6, <3>1, <3>2
  <2>9. DigestsPut' /\ Monotone
    BY <2>2, <2>5 DEF DigestsPut, Monotone
  <2>10. ConvertedIsKept'
    BY <2>2, <2>5 DEF ConvertedIsKept, Forms
  <2> QED
    BY <2>7, <2>8, <2>9, <2>10
<1>3. ASSUME NEW u \in uploads, CommitUpload(u)
      PROVE  SnsInv' /\ Monotone
  <2>1. /\ uploads' = uploads \ {u}
        /\ UNCHANGED <<converted, ct128, bucket, batch, channel, resubmit>>
        /\ enqueued' = enqueued \/ enqueued' = enqueued \cup {u.handle}
        /\ ready' \in BOOLEAN
    BY <1>3 DEF CommitUpload
  <2>2. u.handle \in Handles /\ u.ok \subseteq Forms
    BY DEF Uploads
  <2>3. /\ digests' \in [Forms -> SUBSET Handles]
        /\ \A f \in Forms : digests[f] \subseteq digests'[f]
        /\ \A f \in Forms : digests'[f] # digests[f] =>
               f \in u.ok /\ digests'[f] = digests[f] \cup {u.handle}
    BY <1>3, <2>2 DEF CommitUpload, StoredDigests
  <2>4. \A f \in u.ok : u.handle \in bucket[f]
    BY DEF UploadsPut
  <2>5. SnsTypeOK'
    BY <2>1, <2>2, <2>3
  <2>6. UploadsPut'
    BY <2>1 DEF UploadsPut
  <2>7. DigestsPut' /\ Monotone
    BY <2>1, <2>3, <2>4 DEF DigestsPut, Monotone
  <2>8. ConvertedIsKept'
    BY <2>1, <2>3 DEF ConvertedIsKept, Forms
  <2> QED
    BY <2>5, <2>6, <2>7, <2>8
<1>4. ASSUME NEW u \in uploads, AbortUpload(u)
      PROVE  SnsInv' /\ Monotone
  BY <1>4, NothingStored DEF AbortUpload
<1> QED
  BY <1>1, <1>2, <1>3, <1>4

(* The resubmitter, the check of S3 and a crash store nothing.             *)
LEMMA ResubmitterKeeps ==
    ASSUME SnsInv,
           \/ TryResubmit \/ RecheckS3 \/ CrashSnsWorker
           \/ \E job \in resubmit : SendResubmitted(job)
    PROVE  SnsInv' /\ Monotone
<1> USE DEF SnsInv, SnsTypeOK
<1>1. CASE TryResubmit
  <2>1. PICK S \in FetchPendingUploads :
           resubmit' = {[handle |-> h, forms |-> MissingForms(h), dbLock |-> TRUE] :
                           h \in {g \in S : MissingForms(g) # {}}}
    BY <1>1 DEF TryResubmit
  <2>2. S \subseteq Handles
    BY DEF FetchPendingUploads
  <2>3. \A h : MissingForms(h) \in SUBSET Forms
    BY DEF MissingForms
  <2>4. resubmit' \subseteq Jobs
    <3> DEFINE job(h) == [handle |-> h, forms |-> MissingForms(h), dbLock |-> TRUE]
    <3>1. \A h \in Handles : job(h) \in Jobs
      BY <2>3 DEF Jobs
    <3>2. \A j \in resubmit' : \E h \in S : j = job(h)
      BY <2>1
    <3> HIDE DEF job
    <3> QED
      BY <2>2, <3>1, <3>2
  <2>5. UNCHANGED <<storage, batch, channel, uploads, ready>>
    BY <1>1 DEF TryResubmit
  <2> QED
    BY <2>4, <2>5, NothingStored
<1>2. CASE RecheckS3
  BY <1>2, NothingStored DEF RecheckS3
<1>3. CASE CrashSnsWorker
  <2>1. /\ batch' = {} /\ channel' = {} /\ resubmit' = {} /\ uploads' = {}
        /\ ready' \in BOOLEAN /\ UNCHANGED storage
    BY <1>3 DEF CrashSnsWorker
  <2> QED
    BY <2>1, NothingStored
<1>4. ASSUME NEW job \in resubmit, SendResubmitted(job)
      PROVE  SnsInv' /\ Monotone
  BY <1>4, NothingStored DEF SendResubmitted
<1> QED
  BY <1>1, <1>2, <1>3, <1>4

(* No step of the SnS worker leaves its invariant.                         *)
LEMMA SnsStepKeeps ==
    ASSUME SnsInv, SnsNext
    PROVE  SnsInv' /\ Monotone
BY ExecutorKeeps, UploaderKeeps, ResubmitterKeeps DEF SnsNext

----------------------------------------------------------------------------
(* The transaction sender.                                                 *)

Stages == {"none", "start", "sending", "waiting", "success", "reverted"}

(* The table only grows while digests are only added.                      *)
LEMMA TableGrows ==
    ASSUME Monotone
    PROVE  Table \subseteq Table'
BY DEF Monotone, Table, BothDigests, Forms

(* What a worker stores takes nothing from the sender.                     *)
LEMMA SnsStepKeepsTx ==
    ASSUME TxInv, Monotone, UNCHANGED txVars
    PROVE  TxInv'
<1>1. UNCHANGED <<sent, task, pool, accepted>>
  BY DEF txVars
<1> QED
  BY <1>1, TableGrows DEF TxInv, TxTypeOK, SuccessIsAccepted, SentIsAccepted, WorkedInTable

(* A step in which no task starts or succeeds, no transaction is sent and  *)
(* no row is marked that the Gateway has not accepted.                     *)
LEMMA NothingSent ==
    ASSUME TxInv, UNCHANGED <<digests, pool, accepted>>,
           task' \in [Rows -> Stages],
           \A r \in Rows : task'[r] # "none" => task[r] # "none",
           \A r \in Rows : task'[r] = "success" => task[r] = "success",
           sent' \subseteq sent \cup accepted
    PROVE  TxInv'
<1>1. Table' = Table
  BY DEF Table, BothDigests
<1>2. TxTypeOK'
  BY DEF TxInv, TxTypeOK, Stages
<1>3. SuccessIsAccepted' /\ SentIsAccepted'
  BY DEF TxInv, SuccessIsAccepted, SentIsAccepted
<1>4. WorkedInTable'
  BY <1>1 DEF TxInv, WorkedInTable
<1> QED
  BY <1>2, <1>3, <1>4 DEF TxInv

(* A task that ends well had its answer accepted; one that fails takes the *)
(* round with it, and marks nothing.                                       *)
LEMMA DoneKeeps ==
    ASSUME TxInv, UNCHANGED <<digests, pool, accepted>>,
           NEW r \in Rows, Done(r), r \in accepted
    PROVE  TxInv'
<1>1. task \in [Rows -> Stages]
  BY DEF TxInv, TxTypeOK, Stages
<1>2. task' = [task EXCEPT ![r] = "none"] /\ sent' = sent \cup {r}
  BY DEF Done
<1>3. /\ task' \in [Rows -> Stages]
      /\ \A q \in Rows : task'[q] = "none" \/ task'[q] = task[q]
  BY <1>1, <1>2 DEF Stages
<1> QED
  BY <1>2, <1>3, NothingSent

(* The tasks that remain after a failure are those of other operations.    *)
LEMMA FailTasks ==
    ASSUME TxInv, NEW r \in Rows, Fail(r)
    PROVE  /\ task' \in [Rows -> Stages] /\ sent' = sent
           /\ \A q \in Rows : task'[q] = "none" \/ task'[q] = task[q]
<1>1. task \in [Rows -> Stages]
  BY DEF TxInv, TxTypeOK, Stages
<1>2. /\ task' = [q \in Rows |-> IF OpOf[q] = OpOf[r] THEN "none" ELSE task[q]]
      /\ sent' = sent
  BY DEF Fail
<1>3. \A q \in Rows : task'[q] = "none" \/ task'[q] = task[q]
  BY <1>2
<1>4. task' \in [Rows -> Stages]
  BY <1>1, <1>2 DEF Stages
<1> QED
  BY <1>2, <1>3, <1>4

(* A failure that sends nothing.                                           *)
LEMMA FailKeeps ==
    ASSUME TxInv, UNCHANGED <<digests, pool, accepted>>, NEW r \in Rows, Fail(r)
    PROVE  TxInv'
BY FailTasks, NothingSent

(* A transaction is sent by a task, for a row of the table.                *)
LEMMA SentKeeps ==
    ASSUME TxInv, UNCHANGED <<digests, accepted>>, NEW r \in Rows, task[r] # "none",
           sent' = sent, task' \in [Rows -> Stages],
           \A q \in Rows : task'[q] # "none" => task[q] # "none",
           \A q \in Rows : task'[q] = "success" => task[q] = "success",
           pool' = pool \cup {[row |-> r, nonce |-> nonce[r]]}
    PROVE  TxInv'
<1>1. Table' = Table
  BY DEF Table, BothDigests
<1>2. r \in Table
  BY DEF TxInv, WorkedInTable
<1>3. \A tx \in pool' : tx \in pool \/ tx.row = r
  OBVIOUS
<1>4. TxTypeOK'
  BY <1>3 DEF TxInv, TxTypeOK, Stages
<1>5. SuccessIsAccepted' /\ SentIsAccepted'
  BY DEF TxInv, SuccessIsAccepted, SentIsAccepted
<1>6. WorkedInTable'
  BY <1>1, <1>2, <1>3 DEF TxInv, WorkedInTable
<1> QED
  BY <1>4, <1>5, <1>6 DEF TxInv

(* A round starts with rows of the table.                                  *)
LEMMA ExecuteKeeps ==
    ASSUME TxInv, UNCHANGED digests, NEW op \in Ops, Execute(op, Table)
    PROVE  TxInv'
<1>1. task \in [Rows -> Stages]
  BY DEF TxInv, TxTypeOK, Stages
<1>2. PICK S \in SUBSET (RowsOf(op) \cap Table) :
         task' = [r \in Rows |-> IF r \in S THEN "start" ELSE task[r]]
  BY DEF Execute
<1>3. UNCHANGED <<sent, pool, accepted>>
  BY DEF Execute
<1>4. /\ task' \in [Rows -> Stages]
      /\ \A r \in Rows : task'[r] = task[r] \/ (task'[r] = "start" /\ r \in Table)
  BY <1>1, <1>2 DEF Stages
<1>5. Table' = Table
  BY DEF Table, BothDigests
<1>6. TxTypeOK'
  BY <1>3, <1>4 DEF TxInv, TxTypeOK, Stages
<1>7. SuccessIsAccepted' /\ SentIsAccepted'
  BY <1>3, <1>4 DEF TxInv, SuccessIsAccepted, SentIsAccepted
<1>8. WorkedInTable'
  BY <1>3, <1>4, <1>5 DEF TxInv, WorkedInTable
<1> QED
  BY <1>6, <1>7, <1>8 DEF TxInv

(* The steps of a task.                                                    *)
LEMMA TaskKeeps ==
    ASSUME TxInv, UNCHANGED digests, NEW r \in Rows, Task(r)
    PROVE  TxInv'
<1>1. task \in [Rows -> Stages]
  BY DEF TxInv, TxTypeOK, Stages
<1>2. CASE TakeNonce(r)
  <2>1. /\ task[r] = "start" /\ task' = [task EXCEPT ![r] = "sending"]
        /\ UNCHANGED <<sent, pool, accepted>>
    BY <1>2 DEF TakeNonce
  <2>2. /\ task' \in [Rows -> Stages]
        /\ \A q \in Rows : task'[q] = IF q = r THEN "sending" ELSE task[q]
    BY <1>1, <2>1 DEF Stages
  <2> QED
    BY <2>1, <2>2, NothingSent
<1>3. CASE SendTransaction(r)
  <2>1. /\ task[r] = "sending" /\ task' = [task EXCEPT ![r] = "waiting"]
        /\ pool' = pool \cup {[row |-> r, nonce |-> nonce[r]]}
        /\ UNCHANGED <<sent, accepted>>
    BY <1>3 DEF SendTransaction
  <2>2. /\ task' \in [Rows -> Stages]
        /\ \A q \in Rows : task'[q] = IF q = r THEN "waiting" ELSE task[q]
    BY <1>1, <2>1 DEF Stages
  <2> QED
    BY <2>1, <2>2, SentKeeps
<1>4. CASE AlreadyDone(r)
  BY <1>4, DoneKeeps DEF AlreadyDone
<1>5. CASE SendRefused(r)
  BY <1>5, FailKeeps DEF SendRefused
<1>6. CASE SendFails(r)
  <2>1. Fail(r) /\ UNCHANGED accepted
    BY <1>6 DEF SendFails
  <2>2. CASE UNCHANGED pool
    BY <2>1, <2>2, FailKeeps
  <2>3. CASE task[r] = "sending" /\ pool' = pool \cup {[row |-> r, nonce |-> nonce[r]]}
    <3>1. /\ task' \in [Rows -> Stages] /\ sent' = sent
          /\ \A q \in Rows : task'[q] = "none" \/ task'[q] = task[q]
      BY <2>1, FailTasks
    <3> QED
      BY <2>1, <2>3, <3>1, SentKeeps
  <2> QED
    BY <1>6, <2>2, <2>3 DEF SendFails
<1>7. CASE ReceiptOk(r)
  <2>1. r \in accepted
    BY <1>7 DEF ReceiptOk, TxInv, SuccessIsAccepted
  <2> QED
    BY <1>7, <2>1, DoneKeeps DEF ReceiptOk
<1>8. CASE ReceiptFails(r)
  BY <1>8, FailKeeps DEF ReceiptFails, NoReceipt
<1> QED
  BY <1>2, <1>3, <1>4, <1>5, <1>6, <1>7, <1>8 DEF Task

(* A mined transaction is of a row of the table, and a task learns of it   *)
(* only when the Gateway has accepted the row.                             *)
LEMMA MineKeeps ==
    ASSUME TxInv, UNCHANGED digests, Mine
    PROVE  TxInv'
<1>1. PICK tx \in pool :
         /\ pool' = pool \ {tx}
         /\ accepted' = accepted \cup {tx.row}
         /\ task' = IF task[tx.row] = "waiting" /\ nonce[tx.row] = tx.nonce
                    THEN [task EXCEPT ![tx.row] =
                             IF tx.row \in accepted THEN "reverted" ELSE "success"]
                    ELSE task
  BY DEF Mine
<1>2. sent' = sent
  BY DEF Mine
<1>3. task \in [Rows -> Stages] /\ tx.row \in Rows /\ tx.row \in Table
  BY DEF TxInv, TxTypeOK, Stages, WorkedInTable
<1>4. /\ task' \in [Rows -> Stages]
      /\ \A q \in Rows : task'[q] = task[q] \/ (q = tx.row /\ task[q] = "waiting")
  BY <1>1, <1>3 DEF Stages
<1>5. Table' = Table
  BY DEF Table, BothDigests
<1>6. TxTypeOK'
  BY <1>1, <1>2, <1>3, <1>4 DEF TxInv, TxTypeOK, Stages
<1>7. SuccessIsAccepted' /\ SentIsAccepted'
  BY <1>1, <1>2, <1>4 DEF TxInv, SuccessIsAccepted, SentIsAccepted
<1>8. WorkedInTable'
  BY <1>1, <1>3, <1>4, <1>5 DEF TxInv, WorkedInTable
<1> QED
  BY <1>6, <1>7, <1>8 DEF TxInv

(* A crash ends the tasks.                                                 *)
LEMMA CrashSenderKeeps ==
    ASSUME TxInv, UNCHANGED digests, CrashSender
    PROVE  TxInv'
<1>1. task' = [r \in Rows |-> "none"] /\ UNCHANGED <<sent, pool, accepted>>
  BY DEF CrashSender
<1>2. task' \in [Rows -> Stages] /\ \A r \in Rows : task'[r] = "none"
  BY <1>1 DEF Stages
<1> QED
  BY <1>1, <1>2, NothingSent

----------------------------------------------------------------------------
(* No step of either service leaves the invariant.                         *)
LEMMA Inductive == IInv /\ [OutputNext]_outputVars => IInv'
<1> SUFFICES ASSUME IInv, [OutputNext]_outputVars PROVE IInv'
  OBVIOUS
<1>1. CASE SnsNext /\ UNCHANGED txVars
  BY <1>1, SnsStepKeeps, SnsStepKeepsTx DEF IInv
<1>2. CASE SenderNext(Table) /\ UNCHANGED snsVars
  <2>1. SnsInv' /\ UNCHANGED digests
    BY <1>2 DEF IInv, SnsInv, SnsTypeOK, UploadsPut, DigestsPut, ConvertedIsKept,
                snsVars, storage
  <2>2. TxInv'
    BY <1>2, <2>1, ExecuteKeeps, TaskKeeps, MineKeeps, CrashSenderKeeps DEF IInv, SenderNext
  <2> QED
    BY <2>1, <2>2 DEF IInv
<1>3. CASE UNCHANGED outputVars
  <2>1. SnsInv' /\ UNCHANGED <<digests, txVars>>
    BY <1>3 DEF IInv, SnsInv, SnsTypeOK, UploadsPut, DigestsPut, ConvertedIsKept,
                outputVars, snsVars, storage
  <2>2. UNCHANGED <<sent, task, pool, accepted>> /\ Table' = Table
    BY <2>1 DEF txVars, Table, BothDigests
  <2>3. TxInv'
    BY <2>2 DEF IInv, TxInv, TxTypeOK, SuccessIsAccepted, SentIsAccepted, WorkedInTable
  <2> QED
    BY <2>1, <2>3 DEF IInv
<1> QED
  BY <1>1, <1>2, <1>3 DEF OutputNext

(* At the start nothing is converted, uploaded or sent.                    *)
LEMMA InitInductive == OutputInit => IInv
<1> SUFFICES ASSUME OutputInit PROVE IInv
  OBVIOUS
<1>1. SnsInv
  BY DEF OutputInit, SnsInit, SnsInv, SnsTypeOK, UploadsPut, DigestsPut, ConvertedIsKept
<1>2. TxInv
  BY DEF OutputInit, SenderInit, TxInv, TxTypeOK, SuccessIsAccepted, SentIsAccepted,
         WorkedInTable
<1> QED
  BY <1>1, <1>2 DEF IInv

(* S3, the digests, the tasks and the Gateway agree in every state that    *)
(* the two services reach.                                                 *)
THEOREM OutputInvariant == OutputSpec => []IInv
BY InitInductive, Inductive, PTL DEF OutputSpec

(* A converted ciphertext is in the database until its digest is stored    *)
(* and its object is in S3.                                                *)
THEOREM ConvertedNeverLost == OutputSpec => []ConvertedIsKept
<1>1. IInv => ConvertedIsKept
  BY DEF IInv, SnsInv
<1> QED
  BY <1>1, OutputInvariant, PTL

(* A row is marked as sent only when the contract has its answer.          *)
THEOREM SentOnlyAccepted == OutputSpec => []SentIsAccepted
<1>1. IInv => SentIsAccepted
  BY DEF IInv, TxInv
<1> QED
  BY <1>1, OutputInvariant, PTL

(* What the Gateway accepted a commitment to is in S3 in both forms.       *)
THEOREM AcceptedInBucket == OutputSpec => []AcceptedIsFetchable
<1>1. IInv => AcceptedIsFetchable
  <2> SUFFICES ASSUME IInv, NEW f \in Forms, NEW h \in accepted \cap Handles
               PROVE  h \in bucket[f]
    BY DEF AcceptedIsFetchable
  <2>1. h \in Table /\ h \in Rows
    BY DEF IInv, TxInv, WorkedInTable, TxTypeOK
  <2>2. h \in BothDigests
    BY <2>1 DEF Table
  <2>3. h \in digests[f]
    BY <2>2 DEF BothDigests, Forms
  <2> QED
    BY <2>3 DEF IInv, SnsInv, DigestsPut
<1> QED
  BY <1>1, OutputInvariant, PTL
============================================================================
