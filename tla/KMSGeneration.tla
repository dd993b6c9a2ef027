--------------------------- MODULE KMSGeneration ---------------------------
(***************************************************************************)
(* The KMSGeneration contract: the owner asks for a key (a preprocessing   *)
(* and the generation proper, under two paired identifiers) or for a CRS,  *)
(* the KMS nodes answer with signatures, and a threshold of them over the  *)
(* same digest completes the request.  Completing a key or a CRS activates *)
(* it: an event tells the coprocessors the storage URLs to fetch it from.  *)
(*                                                                         *)
(* The parameters of a request (FHE parameter type, CRS bit length) are    *)
(* left out; a digest is the kind of answer with what it says.             *)
(***************************************************************************)
EXTENDS GatewayConfig, KMSRequestCounters

CONSTANTS
    Contents,     \* digests of keys and CRSs the nodes may have generated
    NoContent,    \* what a preprocessing answer says, and the zero digest
    MaxKeys, MaxCrs, MaxReshares  \* bounds on the counters

ASSUME GenerationAssumption ==
    /\ NoContent \notin Contents
    /\ MaxKeys \in 0 .. IdSpan - 1 /\ MaxCrs \in 0 .. IdSpan - 1
    /\ MaxReshares \in 0 .. IdSpan - 1

PrepIds == PrepKeygenBase + 1 .. PrepKeygenBase + MaxKeys
KeyIds  == KeyBase + 1 .. KeyBase + MaxKeys
CrsIds  == CrsBase + 1 .. CrsBase + MaxCrs
GenIds  == PrepIds \cup KeyIds \cup CrsIds

PrepDigest  == <<"prepKeygen", NoContent>>
ZeroDigest  == <<"none", NoContent>>
GenDigests  == {PrepDigest} \cup ({"keygen", "crsgen"} \X Contents)

VARIABLES
    prepKeygenCounter, keyCounter, crsCounter, keyReshareCounter,
    keygenIdPairs,              \* preprocessing ids and key ids, both ways
    kmsHasSignedForResponse,    \* per id, the signers
    consensusTxSenderAddresses, \* per id and digest, the senders in order
    isRequestDone,
    consensusDigest,
    activeKeyId, activeCrsId,
    activations                 \* per id, the nodes its activation names

counterVars == <<prepKeygenCounter, keyCounter, crsCounter, keyReshareCounter>>
voteVars    == <<kmsHasSignedForResponse, consensusTxSenderAddresses>>
doneVars    == <<isRequestDone, consensusDigest>>
activeVars  == <<activeKeyId, activeCrsId, activations>>
generationVars == <<counterVars, keygenIdPairs, voteVars, doneVars, activeVars>>
vars == <<configVars, generationVars>>

Init ==
    /\ ConfigInit
    /\ prepKeygenCounter = PrepKeygenBase
    /\ keyCounter = KeyBase
    /\ crsCounter = CrsBase
    /\ keyReshareCounter = KeyReshareBase
    /\ keygenIdPairs = [id \in GenIds |-> 0]
    /\ kmsHasSignedForResponse = [id \in GenIds |-> {}]
    /\ consensusTxSenderAddresses = [id \in GenIds |-> [d \in GenDigests |-> <<>>]]
    /\ isRequestDone = {}
    /\ consensusDigest = [id \in GenIds |-> ZeroDigest]
    /\ activeKeyId = 0
    /\ activeCrsId = 0
    /\ activations = [id \in GenIds |-> {}]

----------------------------------------------------------------------------
(* The calls of the owner.  prssInit only emits an event.                  *)

(* Mutant: the next request does not wait for the one before.              *)
FinishedOrNot(counter, base) == TRUE

Finished(counter, base) == counter = base \/ counter \in isRequestDone

Keygen ==
    /\ Finished(keyCounter, KeyBase)
    /\ keyCounter < KeyBase + MaxKeys
    /\ prepKeygenCounter' = prepKeygenCounter + 1
    /\ keyCounter' = keyCounter + 1
    /\ keygenIdPairs' = [keygenIdPairs EXCEPT ![prepKeygenCounter'] = keyCounter',
                                              ![keyCounter'] = prepKeygenCounter']
    /\ UNCHANGED <<configVars, crsCounter, keyReshareCounter, voteVars, doneVars, activeVars>>

CrsgenRequest ==
    /\ Finished(crsCounter, CrsBase)
    /\ crsCounter < CrsBase + MaxCrs
    /\ crsCounter' = crsCounter + 1
    /\ UNCHANGED <<configVars, prepKeygenCounter, keyCounter, keyReshareCounter,
                   keygenIdPairs, voteVars, doneVars, activeVars>>

(* Any completed request may be named, only keys are meant to be.          *)
KeyReshareSameSet(id) ==
    /\ id \in isRequestDone
    /\ keyReshareCounter < KeyReshareBase + MaxReshares
    /\ keyReshareCounter' = keyReshareCounter + 1
    /\ UNCHANGED <<configVars, prepKeygenCounter, keyCounter, crsCounter,
                   keygenIdPairs, voteVars, doneVars, activeVars>>

----------------------------------------------------------------------------
(* The answers of the KMS nodes.                                           *)

(* Mutants: a signer may answer again; one answer too few completes a      *)
(* request, or another digest completes it again; the last sender is left  *)
(* out of the event.                                                       *)
RecordAnyAnswer(id, digest, signer, sender) ==
    /\ IsTxSender(kmsNodes, sender)
    /\ SignerMatchesTxSender(kmsNodes, signer, sender)
    /\ kmsHasSignedForResponse' =
           [kmsHasSignedForResponse EXCEPT ![id] = @ \cup {signer}]
    /\ consensusTxSenderAddresses' =
           [consensusTxSenderAddresses EXCEPT ![id][digest] = Append(@, sender)]
CompletesEarly(id, digest) ==
    /\ id \notin isRequestDone
    /\ Len(consensusTxSenderAddresses'[id][digest]) + 1 >= kmsThresholds.kmsGen
CompletesAgain(id, digest) ==
    Len(consensusTxSenderAddresses'[id][digest]) >= kmsThresholds.kmsGen
UrlsOfEarlier(senders) ==
    {a \in {senders[i] : i \in 1 .. Len(senders) - 1} : IsTxSender(kmsNodes, a)}

RecordAnswer(id, digest, signer, sender) ==
    /\ IsTxSender(kmsNodes, sender)
    /\ SignerMatchesTxSender(kmsNodes, signer, sender)
    /\ signer \notin kmsHasSignedForResponse[id]
    /\ kmsHasSignedForResponse' =
           [kmsHasSignedForResponse EXCEPT ![id] = @ \cup {signer}]
    /\ consensusTxSenderAddresses' =
           [consensusTxSenderAddresses EXCEPT ![id][digest] = Append(@, sender)]

CompletesNow(id, digest) ==
    /\ id \notin isRequestDone
    /\ Len(consensusTxSenderAddresses'[id][digest]) >= kmsThresholds.kmsGen

Complete(id, digest) ==
    IF CompletesNow(id, digest)
    THEN /\ isRequestDone' = isRequestDone \cup {id}
         /\ consensusDigest' = [consensusDigest EXCEPT ![id] = digest]
    ELSE UNCHANGED doneVars

(* The senders are looked up in the registry of that moment; one that left *)
(* it since it answered contributes an empty URL.                          *)
UrlsOf(senders) == {a \in {senders[i] : i \in DOMAIN senders} : IsTxSender(kmsNodes, a)}

PrepKeygenResponse(id, signer, sender) ==
    /\ id <= prepKeygenCounter /\ id # 0
    /\ RecordAnswer(id, PrepDigest, signer, sender)
    /\ Complete(id, PrepDigest)
    /\ UNCHANGED <<configVars, counterVars, keygenIdPairs, activeVars>>

KeygenResponse(id, content, signer, sender) ==
    LET digest == <<"keygen", content>>
    IN  /\ id <= keyCounter /\ id # 0
        /\ RecordAnswer(id, digest, signer, sender)
        /\ Complete(id, digest)
        /\ IF CompletesNow(id, digest)
           THEN /\ activeKeyId' = id
                /\ activations' =
                       [activations EXCEPT
                           ![id] = UrlsOf(consensusTxSenderAddresses'[id][digest])]
                /\ UNCHANGED activeCrsId
           ELSE UNCHANGED activeVars
        /\ UNCHANGED <<configVars, counterVars, keygenIdPairs>>

CrsgenResponse(id, content, signer, sender) ==
    LET digest == <<"crsgen", content>>
    IN  /\ id <= crsCounter /\ id # 0
        /\ RecordAnswer(id, digest, signer, sender)
        /\ Complete(id, digest)
        /\ IF CompletesNow(id, digest)
           THEN /\ activeCrsId' = id
                /\ activations' =
                       [activations EXCEPT
                           ![id] = UrlsOf(consensusTxSenderAddresses'[id][digest])]
                /\ UNCHANGED activeKeyId
           ELSE UNCHANGED activeVars
        /\ UNCHANGED <<configVars, counterVars, keygenIdPairs>>

----------------------------------------------------------------------------
RequestedPrep(id) == id \in PrepIds /\ id <= prepKeygenCounter
RequestedKey(id)  == id \in KeyIds /\ id <= keyCounter
RequestedCrs(id)  == id \in CrsIds /\ id <= crsCounter

OwnerNext ==
    \/ Keygen
    \/ CrsgenRequest
    \/ \E id \in GenIds : KeyReshareSameSet(id)

(* A KMS node answers the events of the contract: a preprocessing when it  *)
(* is requested, the generation of a key when its preprocessing completed, *)
(* a CRS when it is requested.                                             *)
NodesNext ==
    \E signer, sender \in Address :
        \/ \E id \in PrepIds :
               RequestedPrep(id) /\ PrepKeygenResponse(id, signer, sender)
        \/ \E id \in PrepIds \cap isRequestDone, c \in Contents :
               KeygenResponse(keygenIdPairs[id], c, signer, sender)
        \/ \E id \in CrsIds, c \in Contents :
               RequestedCrs(id) /\ CrsgenResponse(id, c, signer, sender)

(* Answers to any identifier, as the contract itself has to face them.     *)
AnyAnswerNext ==
    \E id \in GenIds, signer, sender \in Address :
        \/ PrepKeygenResponse(id, signer, sender)
        \/ \E c \in Contents : KeygenResponse(id, c, signer, sender)
        \/ \E c \in Contents : CrsgenResponse(id, c, signer, sender)

(* The updates of the registry that this contract reads.                   *)
KmsUpdates == (UpdateKmsNodes \/ UpdateKmsGenThreshold) /\ UNCHANGED generationVars

Next == OwnerNext \/ NodesNext \/ KmsUpdates
Spec == Init /\ [][Next]_vars

AnyAnswerSpec == Init /\ [][OwnerNext \/ AnyAnswerNext \/ KmsUpdates]_vars

----------------------------------------------------------------------------
(* Keys come one after the other: only the last one may be unfinished, no  *)
(* key completes before its own preprocessing, the pairing goes both ways, *)
(* and the active key and CRS are the last completed ones, whatever late   *)
(* answers to older requests arrive.                                       *)
OneGenerationAtATime ==
    /\ \A id \in KeyIds :
           /\ id < keyCounter => id \in isRequestDone
           /\ id <= keyCounter =>
                  /\ keygenIdPairs[id] \in PrepIds
                  /\ keygenIdPairs[keygenIdPairs[id]] = id
           /\ id \in isRequestDone => keygenIdPairs[id] \in isRequestDone
           /\ id \in isRequestDone => id <= activeKeyId
    /\ \A id \in CrsIds :
           /\ id < crsCounter => id \in isRequestDone
           /\ id \in isRequestDone => id <= activeCrsId
    /\ activeKeyId # 0 => activeKeyId \in isRequestDone
    /\ activeCrsId # 0 => activeCrsId \in isRequestDone

(* A signer counts once per request, even if it now sends from elsewhere:  *)
(* as many senders are listed over all the digests as signers answered.    *)
GenerationAnswersCounted ==
    \A id \in GenIds :
        Cardinality(UNION {{<<d, i>> : i \in DOMAIN consensusTxSenderAddresses[id][d]} :
                               d \in GenDigests})
            = Cardinality(kmsHasSignedForResponse[id])

(* The event that activates a key or a CRS names a node that is registered *)
(* when it is emitted, so that there is a storage to fetch it from.        *)
ActivationNamesANode ==
    \A id \in (KeyIds \cup CrsIds) \cap isRequestDone : activations[id] # {}

(* A request completes by the threshold for generation in force, over one  *)
(* digest, and an operation of the owner never completes anything.         *)
GeneratedByThreshold ==
    [][\A id \in isRequestDone' \ isRequestDone :
         LET list == consensusTxSenderAddresses'[id][consensusDigest'[id]]
         IN  /\ Len(list) >= kmsThresholds.kmsGen
             /\ Len(list) <= Cardinality(kmsHasSignedForResponse'[id])
             /\ UNCHANGED configVars]_vars

GenerationDecision == INSTANCE OneShotDecision
    WITH Request   <- GenIds,
         Outcome   <- GenDigests,
         NoOutcome <- ZeroDigest,
         outcome   <- consensusDigest

(* Every request gets one result for ever: an activated key keeps the      *)
(* digest the coprocessors checked their download against.                 *)
GeneratedOnce == GenerationDecision!Spec

(* "Make sure the crsId corresponds to a generated CRS generation          *)
(* request", and the same for the other two kinds of answer: every answer  *)
(* that is recorded is one to a request of its kind.                       *)
AnswersOnlyToRequests ==
    \A id \in GenIds :
        /\ consensusTxSenderAddresses[id][PrepDigest] # <<>> => RequestedPrep(id)
        /\ \A c \in Contents :
               /\ consensusTxSenderAddresses[id][<<"keygen", c>>] # <<>> => RequestedKey(id)
               /\ consensusTxSenderAddresses[id][<<"crsgen", c>>] # <<>> => RequestedCrs(id)
============================================================================
