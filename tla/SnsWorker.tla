----------------------------- MODULE SnsWorker -----------------------------
(***************************************************************************)
(* The SnS worker of the coprocessor.  Its executor converts ciphertexts   *)
(* to their 128-bit form in batches, one database transaction per batch,   *)
(* and offers every result to the uploader over a bounded channel before   *)
(* that transaction commits.  The uploader puts both forms of a ciphertext *)
(* into S3 and stores their digests in `ciphertext_digest`, one            *)
(* transaction per job.  The rows of that table that miss a digest are     *)
(* what the resubmitter feeds to the uploader again.  The 128-bit forms    *)
(* are kept in the database until their digest is stored.                  *)
(*                                                                         *)
(* One worker process with one key; a digest stands for its object.        *)
(***************************************************************************)
EXTENDS Integers, FiniteSets

CONSTANTS
    Handles,       \* the handles with a pbs_computations row and a
                   \* ciphertext, numbered by created_at
    Inconvertible, \* those whose conversion fails whenever it is tried
    TaskBatch,     \* batch_limit of the executor
    Capacity,      \* of the channel of the uploader
    MaxUploads,    \* max_concurrent_uploads
    UploadBatch,   \* DEFAULT_BATCH_SIZE of the resubmitter
    MaxUploadFaults \* bound on crashes, rollbacks and failures of S3

ASSUME SnsAssumption ==
    /\ Handles \subseteq Nat /\ Inconvertible \subseteq Handles
    /\ {TaskBatch, Capacity, MaxUploads, UploadBatch} \subseteq Nat \ {0}
    /\ MaxUploadFaults \in Nat

Forms == {"ct64", "ct128"}

VARIABLES
    converted,  \* the handles whose pbs_computations row is_completed
    ct128,      \* the handles whose 128-bit form is in the database
    enqueued,   \* the handles with a ciphertext_digest row
    digests,    \* per form, the handles whose digest is stored
    bucket,     \* per form, the handles whose object is in S3
    batch,      \* the handles of the executor's open transaction
    channel,    \* the jobs on their way to the uploader: a handle, the
                \* forms to upload, and whether its row has to be locked
                \* first (dbLock: a job of the resubmitter)
    resubmit,   \* the jobs the resubmitter still has to send
    uploads,    \* the open upload transactions
    ready,      \* is_ready
    uploadFaults

storage == <<converted, ct128, enqueued, digests, bucket>>
snsVars == <<storage, batch, channel, resubmit, uploads, ready, uploadFaults>>

SnsInit ==
    /\ converted = {} /\ ct128 = {} /\ enqueued = {}
    /\ digests = [f \in Forms |-> {}]
    /\ bucket = [f \in Forms |-> {}]
    /\ batch = {} /\ channel = {} /\ resubmit = {} /\ uploads = {}
    /\ ready \in BOOLEAN
    /\ uploadFaults = 0

UploadFault == uploadFaults < MaxUploadFaults /\ uploadFaults' = uploadFaults + 1

----------------------------------------------------------------------------
(* The executor.                                                           *)

NormalJob(h) == [handle |-> h, forms |-> Forms, dbLock |-> FALSE]

(* query_sns_tasks: the oldest ones that are not completed.                *)
SnsTasks ==
    {h \in Handles \ converted :
        Cardinality({g \in Handles \ converted : g < h}) < TaskBatch}

(* process_tasks: the results go to the uploader at once; those the        *)
(* channel has no room for are dropped.                                    *)
ProcessTasks ==
    /\ batch = {}
    /\ SnsTasks # {}
    /\ batch' = SnsTasks
    /\ \E sent \in SUBSET {NormalJob(h) : h \in SnsTasks \ Inconvertible} :
           /\ Cardinality(channel \cup sent) <= Capacity
           /\ \/ Cardinality(sent) = Cardinality(SnsTasks \ Inconvertible)
              \/ Cardinality(channel \cup sent) = Capacity
           /\ channel' = channel \cup sent
    /\ UNCHANGED <<storage, resubmit, uploads, ready, uploadFaults>>

(* All tasks of the batch are enqueued, the ones that failed too.  The     *)
(* insertion waits for the uploads that inserted the same row.             *)
CommitTasks ==
    /\ batch # {}
    /\ \A u \in uploads : u.inserted => u.handle \notin batch
    /\ converted' = converted \cup (batch \ Inconvertible)
    /\ ct128' = ct128 \cup (batch \ Inconvertible)
    /\ enqueued' = enqueued \cup batch
    /\ batch' = {}
    /\ UNCHANGED <<digests, bucket, channel, resubmit, uploads, ready, uploadFaults>>

(* An error of the database: the jobs that were sent stay in the channel.  *)
RollbackTasks ==
    /\ batch # {}
    /\ UploadFault
    /\ batch' = {}
    /\ UNCHANGED <<storage, channel, resubmit, uploads, ready>>

(* Mutant: any handle with a digest row counts as uploaded.                *)
EnqueuedIsUploaded == ct128 \cap enqueued

Uploaded128 == ct128 \cap digests["ct128"]

GarbageCollect ==
    /\ batch = {}
    /\ Uploaded128 # {}
    /\ ct128' = ct128 \ Uploaded128
    /\ UNCHANGED <<converted, enqueued, digests, bucket, batch, channel, resubmit,
                   uploads, ready, uploadFaults>>

----------------------------------------------------------------------------
(* The uploader.                                                           *)

Incomplete(h) == h \in enqueued /\ \E f \in Forms : h \notin digests[f]
Locked(h)     == \E u \in uploads : u.handle = h /\ u.locks

(* A job of the executor makes sure that there is a row, one of the        *)
(* resubmitter locks the row if it still misses a digest.                  *)
StartUpload(job) ==
    /\ job \in channel
    /\ channel' = channel \ {job}
    /\ IF ready /\ (job.dbLock => Incomplete(job.handle) /\ ~Locked(job.handle))
       THEN /\ Cardinality(uploads) < MaxUploads
            /\ uploads' = uploads \cup
                   {[handle   |-> job.handle,
                     forms    |-> job.forms,
                     locks    |-> job.dbLock,
                     inserted |-> ~job.dbLock /\ job.handle \notin enqueued,
                     put      |-> FALSE,
                     ok       |-> {}]}
       ELSE UNCHANGED uploads
    /\ UNCHANGED <<storage, batch, resubmit, ready, uploadFaults>>

(* The objects that are not there yet are put.                             *)
PutObjects(u) ==
    /\ u \in uploads /\ ~u.put
    /\ \E ok \in SUBSET u.forms :
           /\ ok # u.forms => UploadFault
           /\ ok = u.forms => UNCHANGED uploadFaults
           /\ \A f \in u.forms : u.handle \in bucket[f] => f \in ok
           /\ bucket' = [f \in Forms |-> IF f \in ok THEN bucket[f] \cup {u.handle}
                                         ELSE bucket[f]]
           /\ uploads' = (uploads \ {u}) \cup {[u EXCEPT !.put = TRUE, !.ok = ok]}
    /\ UNCHANGED <<converted, ct128, enqueued, digests, batch, channel, resubmit, ready>>

(* Mutant: the digests of failed uploads are stored as well.               *)
AllDigests(u) == u.forms

StoredDigests(u) == u.ok

(* One form may have failed; the digest of the other one is stored.        *)
CommitUpload(u) ==
    /\ u \in uploads /\ u.put
    /\ digests' = [f \in Forms |->
           IF f \in StoredDigests(u) /\ (u.inserted \/ u.handle \in enqueued)
           THEN digests[f] \cup {u.handle} ELSE digests[f]]
    /\ enqueued' = IF u.inserted THEN enqueued \cup {u.handle} ELSE enqueued
    /\ uploads' = uploads \ {u}
    /\ ready' = (ready /\ u.ok = u.forms)
    /\ UNCHANGED <<converted, ct128, bucket, batch, channel, resubmit, uploadFaults>>

(* The check whether an object exists fails, or a query does.              *)
AbortUpload(u) ==
    /\ u \in uploads
    /\ UploadFault
    /\ uploads' = uploads \ {u}
    /\ ready' \in {FALSE, ready}
    /\ UNCHANGED <<storage, batch, channel, resubmit>>

----------------------------------------------------------------------------
(* The resubmitter.                                                        *)

(* The missing forms that the database still has.                          *)
MissingForms(h) ==
    {f \in Forms : h \notin digests[f] /\ (f = "ct128" => h \in ct128)}

FetchPendingUploads ==
    LET pending == {h \in enqueued : Incomplete(h) /\ ~Locked(h)}
    IN  {S \in SUBSET pending :
            Cardinality(S) <= UploadBatch /\ (S = pending \/ Cardinality(S) = UploadBatch)}

TryResubmit ==
    /\ ready /\ resubmit = {}
    /\ \E S \in FetchPendingUploads :
           /\ resubmit' = {[handle |-> h, forms |-> MissingForms(h), dbLock |-> TRUE] :
                              h \in {g \in S : MissingForms(g) # {}}}
           /\ resubmit' # {}
    /\ UNCHANGED <<storage, batch, channel, uploads, ready, uploadFaults>>

SendResubmitted(job) ==
    /\ job \in resubmit
    /\ Cardinality(channel) < Capacity \/ job \in channel
    /\ channel' = channel \cup {job}
    /\ resubmit' = resubmit \ {job}
    /\ UNCHANGED <<storage, batch, uploads, ready, uploadFaults>>

RecheckS3 ==
    /\ ~ready
    /\ ready' = TRUE
    /\ UNCHANGED <<storage, batch, channel, resubmit, uploads, uploadFaults>>

(* What is in memory is lost, and the open transactions with it.           *)
CrashSnsWorker ==
    /\ UploadFault
    /\ batch' = {} /\ channel' = {} /\ resubmit' = {} /\ uploads' = {}
    /\ ready' \in BOOLEAN
    /\ UNCHANGED storage

SnsNext ==
    \/ ProcessTasks \/ CommitTasks \/ RollbackTasks \/ GarbageCollect
    \/ \E job \in channel : StartUpload(job)
    \/ \E u \in uploads : PutObjects(u) \/ CommitUpload(u) \/ AbortUpload(u)
    \/ TryResubmit \/ RecheckS3 \/ CrashSnsWorker
    \/ \E job \in resubmit : SendResubmitted(job)

(* Executor, uploader and resubmitter each run a loop with timers.         *)
SnsFairness ==
    /\ WF_snsVars(ProcessTasks) /\ WF_snsVars(CommitTasks)
    /\ WF_snsVars(\E job \in channel : StartUpload(job))
    /\ WF_snsVars(\E u \in uploads : PutObjects(u) \/ CommitUpload(u))
    /\ WF_snsVars(TryResubmit) /\ WF_snsVars(RecheckS3)
    /\ WF_snsVars(\E job \in resubmit : SendResubmitted(job))

----------------------------------------------------------------------------
(* A converted ciphertext is never lost: it is in the database until its   *)
(* upload is recorded.                                                     *)
ConvertedIsKept == converted \subseteq ct128 \cup (digests["ct128"] \cap bucket["ct128"])
============================================================================
