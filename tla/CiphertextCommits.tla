------------------------- MODULE CiphertextCommits -------------------------
(***************************************************************************)
(* The CiphertextCommits contract: the coprocessors submit, for every      *)
(* handle, the key and the two digests of the ciphertext they computed.    *)
(* The handle gets the material a threshold of them agree on, once.        *)
(***************************************************************************)
EXTENDS GatewayConfig

CONSTANTS
    Materials,   \* key id, ciphertext digest and SNS ciphertext digest
    NoMaterial   \* the default value of the stored material and hash

ASSUME MaterialAssumption == NoMaterial \notin Materials

VARIABLES
    addCiphertextHashCounters,         \* per handle and material
    coprocessorTxSenderAddresses,      \* per handle and material, in order
    alreadyAddedCoprocessorTxSenders,  \* per handle
    isCiphertextMaterialAdded,         \* the handles with a consensus
    ciphertextMaterials,               \* the digests and key of a handle
    ctHandleConsensusHash              \* the material its consensus was on

ciphertextVars ==
    <<addCiphertextHashCounters, coprocessorTxSenderAddresses,
      alreadyAddedCoprocessorTxSenders, isCiphertextMaterialAdded,
      ciphertextMaterials, ctHandleConsensusHash>>

CiphertextCommitsInit ==
    /\ addCiphertextHashCounters = [h \in Handles |-> [m \in Materials |-> 0]]
    /\ coprocessorTxSenderAddresses = [h \in Handles |-> [m \in Materials |-> <<>>]]
    /\ alreadyAddedCoprocessorTxSenders = [h \in Handles |-> {}]
    /\ isCiphertextMaterialAdded = {}
    /\ ciphertextMaterials = [h \in Handles |-> NoMaterial]
    /\ ctHandleConsensusHash = [h \in Handles |-> NoMaterial]

(* Mutants: the sender is not looked up, the consensus is overwritten, the *)
(* hash of the consensus is not stored.                                    *)
AlreadyAddedUnchecked(h, sender) == FALSE
ReachesAnyConsensus(h, m) == addCiphertextHashCounters'[h][m] >= coprocessorThreshold
SetMaterialOnly(h, m) ==
    /\ ciphertextMaterials' = [ciphertextMaterials EXCEPT ![h] = m]
    /\ isCiphertextMaterialAdded' = isCiphertextMaterialAdded \cup {h}
    /\ UNCHANGED ctHandleConsensusHash

AlreadyAdded(h, sender) == sender \in alreadyAddedCoprocessorTxSenders[h]

ReachesConsensus(h, m) ==
    /\ h \notin isCiphertextMaterialAdded
    /\ addCiphertextHashCounters'[h][m] >= coprocessorThreshold

SetMaterial(h, m) ==
    /\ ciphertextMaterials' = [ciphertextMaterials EXCEPT ![h] = m]
    /\ isCiphertextMaterialAdded' = isCiphertextMaterialAdded \cup {h}
    /\ ctHandleConsensusHash' = [ctHandleConsensusHash EXCEPT ![h] = m]

(* The hash of the arguments stands for the handle and the material: the   *)
(* counters and the lists of senders are kept per hash, the check that a   *)
(* sender submits once per handle.                                         *)
AddCiphertextMaterial(h, m, sender) ==
    /\ IsTxSender(coprocessors, sender)
    /\ FromRegisteredHostChain(h)
    /\ ~AlreadyAdded(h, sender)
    /\ addCiphertextHashCounters' = [addCiphertextHashCounters EXCEPT ![h][m] = @ + 1]
    /\ alreadyAddedCoprocessorTxSenders' =
           [alreadyAddedCoprocessorTxSenders EXCEPT ![h] = @ \cup {sender}]
    /\ coprocessorTxSenderAddresses' =
           [coprocessorTxSenderAddresses EXCEPT ![h][m] = Append(@, sender)]
    /\ IF ReachesConsensus(h, m)
       THEN SetMaterial(h, m)
       ELSE UNCHANGED <<ciphertextMaterials, isCiphertextMaterialAdded,
                        ctHandleConsensusHash>>

CiphertextCommitsNext ==
    /\ \E h \in Handles, m \in Materials, sender \in Address :
           AddCiphertextMaterial(h, m, sender)
    /\ UNCHANGED configVars

CommitsInit == ConfigInit /\ CiphertextCommitsInit
CommitsNext ==
    \/ CiphertextCommitsNext
    \/ (CoprocessorConfigNext \/ AddHostChain) /\ UNCHANGED ciphertextVars
CommitsSpec == CommitsInit /\ [][CommitsNext]_<<configVars, ciphertextVars>>

(* What getSnsCiphertextMaterials answers for a handle with a consensus.   *)
SnsCiphertextMaterial(h) ==
    [material |-> ciphertextMaterials[h],
     senders  |-> coprocessorTxSenderAddresses[h][ctHandleConsensusHash[h]]]

----------------------------------------------------------------------------
(* What is counted for a material is the number of senders in its list, no *)
(* sender is in the lists of two materials of one handle or twice in one,  *)
(* and the senders remembered for a handle are exactly those.              *)
SubmissionsCounted ==
    \A h \in Handles :
        /\ \A m \in Materials :
               addCiphertextHashCounters[h][m] = Len(coprocessorTxSenderAddresses[h][m])
        /\ \A m, n \in Materials : \A i \in DOMAIN coprocessorTxSenderAddresses[h][m],
                                      j \in DOMAIN coprocessorTxSenderAddresses[h][n] :
               coprocessorTxSenderAddresses[h][m][i] = coprocessorTxSenderAddresses[h][n][j]
                   => m = n /\ i = j
        /\ \A a \in Address :
               a \in alreadyAddedCoprocessorTxSenders[h] <=>
                   \E m \in Materials : \E i \in DOMAIN coprocessorTxSenderAddresses[h][m] :
                       coprocessorTxSenderAddresses[h][m][i] = a

(* A handle has a material exactly when its consensus was reached, and the *)
(* senders reported with it are a non-empty list of senders of it.         *)
MaterialOfConsensus ==
    \A h \in Handles :
        IF h \in isCiphertextMaterialAdded
        THEN /\ ciphertextMaterials[h] \in Materials
             /\ ctHandleConsensusHash[h] = ciphertextMaterials[h]
             /\ SnsCiphertextMaterial(h).senders # <<>>
        ELSE ciphertextMaterials[h] = NoMaterial /\ ctHandleConsensusHash[h] = NoMaterial

CiphertextOutcome == ciphertextMaterials

CiphertextDecision == INSTANCE OneShotDecision
    WITH Request   <- Handles,
         Outcome   <- Materials,
         NoOutcome <- NoMaterial,
         outcome   <- CiphertextOutcome

(* A handle is given one material, for ever: a decryption always works on  *)
(* the ciphertext the requests before it worked on.                        *)
MaterialSetOnce == CiphertextDecision!Spec
============================================================================
