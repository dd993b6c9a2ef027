------------------------- MODULE CoprocessorOutput -------------------------
(***************************************************************************)
(* What leaves a coprocessor: the SnS worker stores the digests of the     *)
(* uploaded ciphertexts, and the transaction sender commits to them on the *)
(* Gateway, together with the answers to the proofs.  The two share the    *)
(* table `ciphertext_digest`.                                              *)
(***************************************************************************)
EXTENDS SnsWorker, TransactionSender

CONSTANT MaxFaults  \* bound on all failures together

outputVars == <<snsVars, txVars>>

(* The WHERE clause of add_ciphertext: both digests are stored.            *)
BothDigests == digests["ct64"] \cap digests["ct128"]

(* The rows of `verify_proofs` are there from the start.                   *)
Table == BothDigests \cup (Rows \ Handles)

OutputInit == SnsInit /\ SenderInit

OutputNext ==
    /\ \/ SnsNext /\ UNCHANGED txVars
       \/ SenderNext(Table) /\ UNCHANGED snsVars
    /\ uploadFaults' + txFaults' <= MaxFaults

(* Every operation polls its table, every task runs, blocks are produced.  *)
SenderFairness ==
    /\ \A op \in Ops : WF_outputVars(Execute(op, Table) /\ UNCHANGED snsVars)
    /\ \A r \in Rows : WF_outputVars(Task(r) /\ UNCHANGED <<snsVars, txFaults>>)
    /\ WF_outputVars(Mine /\ UNCHANGED snsVars)

OutputSpec == OutputInit /\ [][OutputNext]_outputVars /\ SnsFairness /\ SenderFairness

----------------------------------------------------------------------------
(* Whatever the Gateway accepted a commitment to can be fetched from S3 in *)
(* both forms: the order of upload, digest and transaction holds across    *)
(* the two services, although each can fail in between.                    *)
AcceptedIsFetchable ==
    \A f \in Forms : (accepted \cap Handles) \subseteq bucket[f]

(* A ciphertext that can be converted is committed to on the Gateway, and  *)
(* a proof is answered or given up after its retries: neither a lost       *)
(* receipt, nor an aborted round, nor a nonce that went wrong, nor a row   *)
(* that fails whenever it is tried, holds the rest up for ever.            *)
AnswersDelivered ==
    /\ \A h \in Handles \ Inconvertible : <>(h \in sent)
    /\ \A p \in Rows \ Handles : <>(p \in sent \/ GivenUp(p))
============================================================================
