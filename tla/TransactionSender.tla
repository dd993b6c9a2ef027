------------------------- MODULE TransactionSender -------------------------
(***************************************************************************)
(* The transaction sender of the coprocessor.  Each of its operations      *)
(* (verify_proof, add_ciphertext, allow_handle) repeats: select a batch of *)
(* rows that are not sent yet, run one task per row, and wait for the      *)
(* tasks.  The first task that fails ends the round, and the tasks that    *)
(* are still running are aborted wherever they are.  All operations share  *)
(* one account and a cache of its next nonce.                              *)
(*                                                                         *)
(* The contracts accept one answer per row from this coprocessor.  The     *)
(* node refuses a transaction whose nonce is not the next one of the       *)
(* account.  verify_proof deletes a row after a few failures; the limit of *)
(* the other operations is i32::MAX and is not modelled.                   *)
(***************************************************************************)
EXTENDS Integers, FiniteSets

CONSTANTS
    Rows,         \* the rows to send to the Gateway
    Ops, OpOf,    \* the operations, and which one a row belongs to
    CountingOps,  \* those that give up a row: verify_proof
    Reverting,    \* the rows the contracts refuse whenever they are sent
    BatchLimit,
    MaxRetries,   \* verify_proof_resp_max_retries
    MaxTxFaults,  \* bound on the failures of the connection and the crashes
    NoNonce

ASSUME SenderAssumption ==
    /\ OpOf \in [Rows -> Ops]
    /\ CountingOps \subseteq Ops /\ Reverting \subseteq Rows
    /\ BatchLimit \in Nat \ {0} /\ MaxRetries \in Nat \ {0} /\ MaxTxFaults \in Nat
    /\ NoNonce \notin Nat

VARIABLES
    sent,      \* the rows that are marked as sent or deleted
    retries,   \* per row, the failures that count
    task,      \* per row, the stage of its task: "none", "start",
               \* "sending", "waiting", "success" or "reverted"
    nonce,     \* per row, the nonce its task took
    cache,     \* the last nonce handed out, or NoNonce
    pool,      \* the transactions that are not mined yet
    mined,     \* how many transactions of the account are mined
    accepted,  \* the rows the contracts have the answer to
    txFaults

txVars == <<sent, retries, task, nonce, cache, pool, mined, accepted, txFaults>>

SenderInit ==
    /\ sent = {} /\ accepted = {} /\ pool = {} /\ mined = 0 /\ txFaults = 0
    /\ retries = [r \in Rows |-> 0]
    /\ task = [r \in Rows |-> "none"]
    /\ nonce = [r \in Rows |-> NoNonce]
    /\ cache = NoNonce

TxFault == txFaults < MaxTxFaults /\ txFaults' = txFaults + 1

RowsOf(op) == {r \in Rows : OpOf[r] = op}

(* A row that failed too often is deleted.                                 *)
GivenUp(r) == retries[r] = MaxRetries

(* execute: a batch of the rows to send, of those in the table.            *)
Execute(op, table) ==
    LET open == {r \in RowsOf(op) \cap table : r \notin sent /\ ~GivenUp(r)}
    IN  /\ \A r \in RowsOf(op) : task[r] = "none"
        /\ \E S \in (SUBSET open) \ {{}} :
               /\ Cardinality(S) <= BatchLimit
               /\ S = open \/ Cardinality(S) = BatchLimit
               /\ task' = [r \in Rows |-> IF r \in S THEN "start" ELSE task[r]]
        /\ UNCHANGED <<sent, retries, nonce, cache, pool, mined, accepted, txFaults>>

(* The nonce after the last one handed out; without one, the number of     *)
(* transactions the node knows to be mined.                                *)
TakeNonce(r) ==
    /\ task[r] = "start"
    /\ task' = [task EXCEPT ![r] = "sending"]
    /\ cache' = IF cache = NoNonce THEN mined ELSE cache + 1
    /\ nonce' = [nonce EXCEPT ![r] = cache']
    /\ UNCHANGED <<sent, retries, pool, mined, accepted, txFaults>>

----------------------------------------------------------------------------
(* How a task ends.                                                        *)

Done(r) ==
    /\ task' = [task EXCEPT ![r] = "none"]
    /\ nonce' = [nonce EXCEPT ![r] = NoNonce]
    /\ sent' = sent \cup {r}
    /\ UNCHANGED retries

(* Mutant: failures are not counted.                                       *)
Uncounted(r) == retries[r]

RetriesAfterFailure(r) ==
    IF OpOf[r] \in CountingOps THEN retries[r] + 1 ELSE retries[r]

(* The other tasks of the round are aborted.                               *)
Fail(r) ==
    /\ task' = [q \in Rows |-> IF OpOf[q] = OpOf[r] THEN "none" ELSE task[q]]
    /\ nonce' = [q \in Rows |-> IF OpOf[q] = OpOf[r] THEN NoNonce ELSE nonce[q]]
    /\ retries' = [retries EXCEPT ![r] = RetriesAfterFailure(r)]
    /\ UNCHANGED sent

(* What the node takes next.                                               *)
NextNonce == mined + Cardinality(pool)

SendTransaction(r) ==
    /\ task[r] = "sending"
    /\ r \notin accepted /\ r \notin Reverting
    /\ nonce[r] = NextNonce
    /\ pool' = pool \cup {[row |-> r, nonce |-> nonce[r]]}
    /\ task' = [task EXCEPT ![r] = "waiting"]
    /\ UNCHANGED <<sent, retries, nonce, cache, mined, accepted, txFaults>>

(* The gas estimation reverts: the contract has the answer already.        *)
AlreadyDone(r) ==
    /\ task[r] = "sending"
    /\ r \in accepted
    /\ cache' = NoNonce
    /\ Done(r)
    /\ UNCHANGED <<pool, mined, accepted, txFaults>>

(* The gas estimation reverts with another error, or the node refuses the  *)
(* nonce.                                                                  *)
SendRefused(r) ==
    /\ task[r] = "sending"
    /\ r \notin accepted
    /\ r \in Reverting \/ nonce[r] # NextNonce
    /\ cache' = NoNonce
    /\ Fail(r)
    /\ UNCHANGED <<pool, mined, accepted, txFaults>>

(* The connection fails: the transaction may have arrived.  A nonce that   *)
(* cannot be fetched leaves the cache alone.                               *)
SendFails(r) ==
    /\ TxFault
    /\ \/ /\ task[r] = "start" /\ cache = NoNonce
          /\ UNCHANGED <<cache, pool>>
       \/ /\ task[r] = "sending"
          /\ cache' = NoNonce
          /\ \/ UNCHANGED pool
             \/ /\ r \notin accepted \cup Reverting /\ nonce[r] = NextNonce
                /\ pool' = pool \cup {[row |-> r, nonce |-> nonce[r]]}
    /\ Fail(r)
    /\ UNCHANGED <<mined, accepted>>

(* A second answer of the same row reverts.                                *)
Mine ==
    \E tx \in pool :
        /\ tx.nonce = mined
        /\ mined' = mined + 1
        /\ pool' = pool \ {tx}
        /\ accepted' = accepted \cup {tx.row}
        /\ task' = IF task[tx.row] = "waiting" /\ nonce[tx.row] = tx.nonce
                   THEN [task EXCEPT ![tx.row] =
                            IF tx.row \in accepted THEN "reverted" ELSE "success"]
                   ELSE task
        /\ UNCHANGED <<sent, retries, nonce, cache, txFaults>>

ReceiptOk(r) ==
    /\ task[r] = "success"
    /\ Done(r)
    /\ UNCHANGED <<cache, pool, mined, accepted, txFaults>>

(* Mutant: a transaction without a receipt counts as sent.                 *)
AssumeMined(r) == Done(r)

NoReceipt(r) == Fail(r)

(* The transaction was reverted, or its receipt did not come in time.      *)
ReceiptFails(r) ==
    /\ \/ task[r] = "reverted" /\ UNCHANGED txFaults
       \/ task[r] \in {"waiting", "success"} /\ TxFault
    /\ NoReceipt(r)
    /\ UNCHANGED <<cache, pool, mined, accepted>>

(* Also what BackendGone comes to: all operations stop.                    *)
CrashSender ==
    /\ TxFault
    /\ task' = [r \in Rows |-> "none"]
    /\ nonce' = [r \in Rows |-> NoNonce]
    /\ cache' = NoNonce
    /\ UNCHANGED <<sent, retries, pool, mined, accepted>>

Task(r) ==
    \/ TakeNonce(r) \/ SendTransaction(r) \/ AlreadyDone(r) \/ SendRefused(r)
    \/ SendFails(r) \/ ReceiptOk(r) \/ ReceiptFails(r)

SenderNext(table) ==
    \/ \E op \in Ops : Execute(op, table)
    \/ \E r \in Rows : Task(r)
    \/ Mine \/ CrashSender
----------------------------------------------------------------------------
(* A row is marked as sent, or deleted, only when the contract has the     *)
(* coprocessor's answer, whatever became of the transactions that were     *)
(* sent for it.                                                            *)
SentIsAccepted == sent \subseteq accepted
============================================================================
