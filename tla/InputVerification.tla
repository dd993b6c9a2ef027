------------------------- MODULE InputVerification -------------------------
(***************************************************************************)
(* The InputVerification contract.  A user asks for the verification of a  *)
(* zero-knowledge proof of knowledge; every coprocessor answers with a     *)
(* signed verification or a rejection; the contract decides once enough    *)
(* answers agree.  Answers that come after the decision are recorded but   *)
(* ignored, and the owner may change the coprocessors and their threshold  *)
(* between any two answers.                                                *)
(***************************************************************************)
EXTENDS GatewayConfig

CONSTANTS
    Digests,         \* EIP-712 digests of the answers: handles and extra data
    NoDigest,        \* the zero digest
    MaxProofRequests \* bound on zkProofIdCounter

ASSUME DigestAssumption ==
    /\ NoDigest \notin Digests
    /\ MaxProofRequests \in Nat

ZkProofIds == 1 .. MaxProofRequests

VARIABLES
    zkProofIdCounter,
    zkProofSignatures,             \* per proof and digest, who signed it
    verifyProofConsensusTxSenders, \* per proof and digest, who sent that
    signerVerifiedZKPoK,
    signerRejectedZKPoK,
    rejectedProofResponseCounter,
    rejectProofConsensusTxSenders,
    verifiedZKProofs,
    rejectedZKProofs,
    verifyProofConsensusDigest

verifyVars ==
    <<zkProofSignatures, verifyProofConsensusTxSenders, signerVerifiedZKPoK,
      verifiedZKProofs, verifyProofConsensusDigest>>
rejectVars ==
    <<signerRejectedZKPoK, rejectedProofResponseCounter,
      rejectProofConsensusTxSenders, rejectedZKProofs>>
inputVerificationVars == <<zkProofIdCounter, verifyVars, rejectVars>>
vars == <<configVars, inputVerificationVars>>

InputVerificationInit ==
    /\ zkProofIdCounter = 0
    /\ zkProofSignatures = [id \in ZkProofIds |-> [d \in Digests |-> <<>>]]
    /\ verifyProofConsensusTxSenders = zkProofSignatures
    /\ signerVerifiedZKPoK = [id \in ZkProofIds |-> {}]
    /\ signerRejectedZKPoK = [id \in ZkProofIds |-> {}]
    /\ rejectedProofResponseCounter = [id \in ZkProofIds |-> 0]
    /\ rejectProofConsensusTxSenders = [id \in ZkProofIds |-> <<>>]
    /\ verifiedZKProofs = {}
    /\ rejectedZKProofs = {}
    /\ verifyProofConsensusDigest = [id \in ZkProofIds |-> NoDigest]

Init == ConfigInit /\ InputVerificationInit

----------------------------------------------------------------------------

(* Mutants: an off-by-one, a dropped check, and an answer or a decision of *)
(* one kind that is overlooked when the other kind arrives.                *)
ConsensusOneShort(n) == n + 1 >= coprocessorThreshold
RequestedUnchecked(id) == id > 0
UndecidedOrVerified(id) == id \notin rejectedZKProofs
UndecidedOrRejected(id) == id \notin verifiedZKProofs
AlreadyVerified(id, signer) == signer \in signerVerifiedZKPoK[id]

IsConsensusReached(n) == n >= coprocessorThreshold

Requested(id) == id \in 1 .. zkProofIdCounter

Undecided(id) == id \notin verifiedZKProofs /\ id \notin rejectedZKProofs

AlreadyResponded(id, signer) ==
    signer \in signerVerifiedZKPoK[id] \cup signerRejectedZKPoK[id]

VerifyProofRequest(chain) ==
    /\ chain \in hostChains
    /\ ~paused["InputVerification"]
    /\ zkProofIdCounter < MaxProofRequests
    /\ zkProofIdCounter' = zkProofIdCounter + 1
    /\ UNCHANGED <<configVars, verifyVars, rejectVars>>

VerifyProofResponse(id, digest, signer, sender) ==
    /\ IsTxSender(coprocessors, sender)
    /\ Requested(id)
    /\ SignerMatchesTxSender(coprocessors, signer, sender)
    /\ ~AlreadyResponded(id, signer)
    /\ zkProofSignatures' =
           [zkProofSignatures EXCEPT ![id][digest] = Append(@, signer)]
    /\ signerVerifiedZKPoK' =
           [signerVerifiedZKPoK EXCEPT ![id] = @ \cup {signer}]
    /\ verifyProofConsensusTxSenders' =
           [verifyProofConsensusTxSenders EXCEPT ![id][digest] = Append(@, sender)]
    /\ IF Undecided(id) /\ IsConsensusReached(Len(zkProofSignatures'[id][digest]))
       THEN /\ verifiedZKProofs' = verifiedZKProofs \cup {id}
            /\ verifyProofConsensusDigest' =
                   [verifyProofConsensusDigest EXCEPT ![id] = digest]
       ELSE UNCHANGED <<verifiedZKProofs, verifyProofConsensusDigest>>
    /\ UNCHANGED <<configVars, zkProofIdCounter, rejectVars>>

(* A rejection carries no signature: the signer is the one registered for  *)
(* the sender at that moment.                                              *)
RejectProofResponse(id, sender) ==
    /\ IsTxSender(coprocessors, sender)
    /\ Requested(id)
    /\ ~AlreadyResponded(id, SignerOf(coprocessors, sender))
    /\ rejectedProofResponseCounter' =
           [rejectedProofResponseCounter EXCEPT ![id] = @ + 1]
    /\ signerRejectedZKPoK' =
           [signerRejectedZKPoK EXCEPT ![id] = @ \cup {SignerOf(coprocessors, sender)}]
    /\ rejectProofConsensusTxSenders' =
           [rejectProofConsensusTxSenders EXCEPT ![id] = Append(@, sender)]
    /\ IF Undecided(id) /\ IsConsensusReached(rejectedProofResponseCounter'[id])
       THEN rejectedZKProofs' = rejectedZKProofs \cup {id}
       ELSE UNCHANGED rejectedZKProofs
    /\ UNCHANGED <<configVars, zkProofIdCounter, verifyVars>>

InputVerificationNext ==
    \/ \E chain \in HostChains : VerifyProofRequest(chain)
    \/ \E id \in ZkProofIds, d \in Digests, signer, sender \in Address :
           VerifyProofResponse(id, d, signer, sender)
    \/ \E id \in ZkProofIds, sender \in Address : RejectProofResponse(id, sender)

Next ==
    \/ InputVerificationNext
    \/ ConfigNext /\ UNCHANGED inputVerificationVars

Spec == Init /\ [][Next]_vars

----------------------------------------------------------------------------
(* The senders that isProofVerified's consensus is attributed to.          *)
GetVerifyProofConsensusTxSenders(id) ==
    IF id \in verifiedZKProofs
    THEN verifyProofConsensusTxSenders[id][verifyProofConsensusDigest[id]]
    ELSE <<>>

Occurrences(list, a) == {i \in DOMAIN list : list[i] = a}

(* The values the contract's storage takes.                                *)
TypeOK ==
    /\ ConfigTypeOK
    /\ zkProofIdCounter \in 0 .. MaxProofRequests
    /\ zkProofSignatures \in [ZkProofIds -> [Digests -> Seq(Address)]]
    /\ verifyProofConsensusTxSenders \in [ZkProofIds -> [Digests -> Seq(Address)]]
    /\ signerVerifiedZKPoK \in [ZkProofIds -> SUBSET Address]
    /\ signerRejectedZKPoK \in [ZkProofIds -> SUBSET Address]
    /\ rejectedProofResponseCounter \in [ZkProofIds -> Nat]
    /\ rejectProofConsensusTxSenders \in [ZkProofIds -> Seq(Address)]
    /\ verifiedZKProofs \subseteq 1 .. zkProofIdCounter
    /\ rejectedZKProofs \subseteq 1 .. zkProofIdCounter
    /\ verifyProofConsensusDigest \in [ZkProofIds -> Digests \cup {NoDigest}]

(* A signer answers a proof at most once, whatever it answers and however  *)
(* the registry is changed meanwhile: it signed at most one digest, at     *)
(* most once, and not if it rejected (_checkCoprocessorAlreadyResponded;   *)
(* the comment of rejectProofResponse forbids a coprocessor to both verify *)
(* and reject).                                                            *)
OneResponsePerSigner ==
    \A id \in ZkProofIds, a \in Address :
        /\ \A d, e \in Digests : \A i \in DOMAIN zkProofSignatures[id][d],
                                    j \in DOMAIN zkProofSignatures[id][e] :
               zkProofSignatures[id][d][i] = a /\ zkProofSignatures[id][e][j] = a
                   => d = e /\ i = j
        /\ a \in signerRejectedZKPoK[id] =>
               \A d \in Digests : \A i \in DOMAIN zkProofSignatures[id][d] :
                   zkProofSignatures[id][d][i] # a

(* The rejections counted towards the threshold are those of distinct      *)
(* signers, each with its sender in the list of rejecting senders.         *)
RejectionsCounted ==
    \A id \in ZkProofIds :
        /\ rejectedProofResponseCounter[id] = Cardinality(signerRejectedZKPoK[id])
        /\ Len(rejectProofConsensusTxSenders[id]) = rejectedProofResponseCounter[id]

(* A proof is never both verified and rejected, even when the threshold is *)
(* lowered under answers already recorded: the "lazy" coprocessors of the  *)
(* comments in verifyProofResponse and rejectProofResponse.                *)
VerifyRejectExclusive == verifiedZKProofs \cap rejectedZKProofs = {}

(* A proof becomes verified only by a threshold of distinct signers of the *)
(* same digest, and rejected only by a threshold of distinct rejecting     *)
(* signers, counted against the threshold in force at that very step.      *)
DecidedByThreshold ==
    [][\A id \in ZkProofIds :
         /\ id \in verifiedZKProofs' \ verifiedZKProofs =>
                LET d == verifyProofConsensusDigest'[id]
                IN  Cardinality({zkProofSignatures'[id][d][i] :
                                   i \in DOMAIN zkProofSignatures'[id][d]})
                        >= coprocessorThreshold
         /\ id \in rejectedZKProofs' \ rejectedZKProofs =>
                Cardinality(signerRejectedZKPoK'[id]) >= coprocessorThreshold]_vars

(* The consensus senders of a verified proof, read by other parties after  *)
(* the decision, only ever grow at the end: a late answer extends the list *)
(* and a late answer for another digest leaves it alone.                   *)
ConsensusSendersOnlyGrow ==
    [][\A id \in verifiedZKProofs :
         LET old == GetVerifyProofConsensusTxSenders(id)
             new == GetVerifyProofConsensusTxSenders(id)'
         IN  Len(old) <= Len(new) /\ SubSeq(new, 1, Len(old)) = old]_vars

(* What the outcome of a proof is for the rest of the system.              *)
Outcome ==
    [id \in ZkProofIds |->
        IF id \in verifiedZKProofs
        THEN IF id \in rejectedZKProofs THEN <<"conflict", NoDigest>>
             ELSE <<"verified", verifyProofConsensusDigest[id]>>
        ELSE IF id \in rejectedZKProofs THEN <<"rejected", NoDigest>>
             ELSE <<"pending", NoDigest>>]

Decision == INSTANCE OneShotDecision
    WITH Request   <- ZkProofIds,
         Outcome   <- ({"verified"} \X Digests) \cup {<<"rejected", NoDigest>>},
         NoOutcome <- <<"pending", NoDigest>>,
         outcome   <- Outcome

(* The contract decides every proof at most once and for good.             *)
DecidedOnce == Decision!Spec
============================================================================
