--------------------------- MODULE GatewayConfig ---------------------------
(***************************************************************************)
(* The GatewayConfig contract: the registry of KMS nodes and coprocessors, *)
(* the consensus thresholds, the registered host chains and the global     *)
(* pause switches.  Every other gateway contract reads it on every call,   *)
(* so a module of this project that models such a contract EXTENDS this    *)
(* one and interleaves its own calls with the owner's reconfigurations.    *)
(*                                                                         *)
(* A contract call that reverts changes nothing: it is an action that is   *)
(* not enabled.                                                            *)
(*                                                                         *)
(* Here and in the other modules, a definition marked as a mutant is a     *)
(* mistake the code does not make.  It belongs to no specification; put in *)
(* the place of the definition that follows it, it breaks the property     *)
(* PROJECT.json lists it with.                                             *)
(***************************************************************************)
EXTENDS Integers, Sequences, FiniteSets

CONSTANTS
    Address,              \* transaction senders and signers
    CoprocessorLists,     \* the coprocessor lists the owner may submit
    CoprocessorThresholds,\* the coprocessor thresholds the owner may submit
    KmsNodeLists,         \* the KMS node lists the owner may submit
    KmsThresholdChoices,  \* the threshold records the owner may submit for them
    HostChains,           \* the host chains the owner may register
    Handles,              \* ciphertext handles
    ChainOf               \* the host chain encoded in a handle

(***************************************************************************)
(* An operator of either kind: the address that sends its transactions and *)
(* the address its signatures recover to.                                  *)
(***************************************************************************)
Operator == [txSender : Address, signer : Address]

KmsThresholds ==
    [mpc : Nat, publicDecryption : Nat, userDecryption : Nat, kmsGen : Nat]

ASSUME OperatorListsAssumption ==
    /\ CoprocessorLists \subseteq Seq(Operator)
    /\ KmsNodeLists \subseteq Seq(Operator)

ASSUME ThresholdsAssumption ==
    /\ CoprocessorThresholds \subseteq Nat
    /\ KmsThresholdChoices \subseteq KmsThresholds

ASSUME HandlesAssumption == ChainOf \in [Handles -> HostChains]

VARIABLES
    coprocessors,          \* the registered coprocessors, in order
    coprocessorThreshold,
    kmsNodes,              \* the registered KMS nodes, in order
    kmsThresholds,         \* the four thresholds of the KMS nodes
    hostChains,            \* the registered host chains
    paused                 \* which pausable contracts are paused

coprocessorVars == <<coprocessors, coprocessorThreshold>>
kmsVars         == <<kmsNodes, kmsThresholds>>
configVars      == <<coprocessorVars, kmsVars, hostChains, paused>>

PausableContracts == {"Decryption", "InputVerification"}

----------------------------------------------------------------------------
(* Reading the registry.                                                   *)

IsTxSender(list, a) == \E i \in DOMAIN list : list[i].txSender = a
IsSigner(list, a)   == \E i \in DOMAIN list : list[i].signer = a

(* The mapping from a transaction sender to its operator keeps the last    *)
(* entry written for it.                                                   *)
LastEntry(list, a) ==
    CHOOSE i \in DOMAIN list :
        /\ list[i].txSender = a
        /\ \A j \in DOMAIN list : list[j].txSender = a => j <= i

SignerOf(list, a) == list[LastEntry(list, a)].signer

(* The signer recovered from a signature has to be the one registered      *)
(* together with the sender of the transaction.                            *)
SignerMatchesTxSender(list, signer, a) ==
    /\ IsSigner(list, signer)
    /\ SignerOf(list, a) = signer

FromRegisteredHostChain(h) == ChainOf[h] \in hostChains

----------------------------------------------------------------------------
(* Threshold checks, shared by the setters and the list updates.           *)

ValidCoprocessorThreshold(list, t) == 1 <= t /\ t <= Len(list)

ValidMpcThreshold(list, t)       == t < Len(list)
ValidConsensusThreshold(list, t) == 1 <= t /\ t <= Len(list)

ValidKmsThresholds(list, t) ==
    /\ ValidMpcThreshold(list, t.mpc)
    /\ ValidConsensusThreshold(list, t.publicDecryption)
    /\ ValidConsensusThreshold(list, t.userDecryption)
    /\ ValidConsensusThreshold(list, t.kmsGen)

SetCoprocessors(list, t) ==
    /\ list # <<>>
    /\ ValidCoprocessorThreshold(list, t)
    /\ coprocessors' = list
    /\ coprocessorThreshold' = t

(* Mutant: the thresholds are not checked against the new list.            *)
SetKmsNodesUnchecked(list, t) == list # <<>> /\ kmsNodes' = list /\ kmsThresholds' = t

SetKmsNodes(list, t) ==
    /\ list # <<>>
    /\ ValidKmsThresholds(list, t)
    /\ kmsNodes' = list
    /\ kmsThresholds' = t

ConfigInit ==
    /\ coprocessors \in CoprocessorLists \ {<<>>}
    /\ coprocessorThreshold \in CoprocessorThresholds
    /\ ValidCoprocessorThreshold(coprocessors, coprocessorThreshold)
    /\ kmsNodes \in KmsNodeLists \ {<<>>}
    /\ kmsThresholds \in KmsThresholdChoices
    /\ ValidKmsThresholds(kmsNodes, kmsThresholds)
    /\ hostChains = {}
    /\ paused = [c \in PausableContracts |-> FALSE]

----------------------------------------------------------------------------
(* The calls of the owner.                                                 *)

UpdateCoprocessors ==
    /\ \E list \in CoprocessorLists, t \in CoprocessorThresholds :
           SetCoprocessors(list, t)
    /\ UNCHANGED <<kmsVars, hostChains, paused>>

UpdateCoprocessorThreshold ==
    /\ \E t \in CoprocessorThresholds :
           /\ ValidCoprocessorThreshold(coprocessors, t)
           /\ coprocessorThreshold' = t
    /\ UNCHANGED <<coprocessors, kmsVars, hostChains, paused>>

(* The initializer of the contract's next version re-registers the KMS     *)
(* nodes under the current thresholds.                                     *)
UpdateKmsNodes ==
    /\ \E list \in KmsNodeLists, t \in KmsThresholdChoices \cup {kmsThresholds} :
           SetKmsNodes(list, t)
    /\ UNCHANGED <<coprocessorVars, hostChains, paused>>

UpdateMpcThreshold ==
    /\ \E t \in KmsThresholdChoices :
           /\ ValidMpcThreshold(kmsNodes, t.mpc)
           /\ kmsThresholds' = [kmsThresholds EXCEPT !.mpc = t.mpc]
    /\ UNCHANGED <<kmsNodes, coprocessorVars, hostChains, paused>>

UpdatePublicDecryptionThreshold ==
    /\ \E t \in KmsThresholdChoices :
           /\ ValidConsensusThreshold(kmsNodes, t.publicDecryption)
           /\ kmsThresholds' =
                  [kmsThresholds EXCEPT !.publicDecryption = t.publicDecryption]
    /\ UNCHANGED <<kmsNodes, coprocessorVars, hostChains, paused>>

UpdateUserDecryptionThreshold ==
    /\ \E t \in KmsThresholdChoices :
           /\ ValidConsensusThreshold(kmsNodes, t.userDecryption)
           /\ kmsThresholds' =
                  [kmsThresholds EXCEPT !.userDecryption = t.userDecryption]
    /\ UNCHANGED <<kmsNodes, coprocessorVars, hostChains, paused>>

UpdateKmsGenThreshold ==
    /\ \E t \in KmsThresholdChoices :
           /\ ValidConsensusThreshold(kmsNodes, t.kmsGen)
           /\ kmsThresholds' = [kmsThresholds EXCEPT !.kmsGen = t.kmsGen]
    /\ UNCHANGED <<kmsNodes, coprocessorVars, hostChains, paused>>

AddHostChain ==
    /\ \E c \in HostChains \ hostChains : hostChains' = hostChains \cup {c}
    /\ UNCHANGED <<coprocessorVars, kmsVars, paused>>

----------------------------------------------------------------------------
(* Pausing: one contract at a time, or all of them in one transaction that *)
(* reverts as a whole when one of them is already in the wanted state.     *)

SetPaused(cs, value) ==
    /\ \A c \in cs : paused[c] # value
    /\ paused' = [c \in PausableContracts |-> IF c \in cs THEN value ELSE paused[c]]
    /\ UNCHANGED <<coprocessorVars, kmsVars, hostChains>>

Pause   == \E c \in PausableContracts : SetPaused({c}, TRUE)
Unpause == \E c \in PausableContracts : SetPaused({c}, FALSE)
PauseAllGatewayContracts   == SetPaused(PausableContracts, TRUE)
UnpauseAllGatewayContracts == SetPaused(PausableContracts, FALSE)

CoprocessorConfigNext == UpdateCoprocessors \/ UpdateCoprocessorThreshold

KmsConfigNext ==
    \/ UpdateKmsNodes
    \/ UpdateMpcThreshold
    \/ UpdatePublicDecryptionThreshold
    \/ UpdateUserDecryptionThreshold
    \/ UpdateKmsGenThreshold

PauseNext ==
    \/ Pause
    \/ Unpause
    \/ PauseAllGatewayContracts
    \/ UnpauseAllGatewayContracts

ConfigNext ==
    \/ CoprocessorConfigNext
    \/ KmsConfigNext
    \/ AddHostChain
    \/ PauseNext

----------------------------------------------------------------------------
(* Type of the registry, with the relation between thresholds and lists.   *)
ConfigTypeOK ==
    /\ coprocessors \in Seq(Operator)
    /\ coprocessorThreshold \in Nat
    /\ kmsNodes \in Seq(Operator)
    /\ kmsThresholds \in KmsThresholds
    /\ hostChains \subseteq HostChains
    /\ paused \in [PausableContracts -> BOOLEAN]

(* Every threshold in force can be met by the operators registered when it *)
(* is in force, so no consensus is unreachable by configuration: a list    *)
(* update and a threshold update each check the pair they leave behind.    *)
ThresholdsReachable ==
    /\ ValidCoprocessorThreshold(coprocessors, coprocessorThreshold)
    /\ ValidKmsThresholds(kmsNodes, kmsThresholds)
============================================================================
