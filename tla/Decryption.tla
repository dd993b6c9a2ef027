----------------------------- MODULE Decryption -----------------------------
(***************************************************************************)
(* The Decryption contract, composed with the two contracts it consults:   *)
(* MultichainACL for the rights on the handles and CiphertextCommits for   *)
(* the material behind them.  A request is emitted to the KMS with the     *)
(* materials of that moment; the KMS nodes answer with signatures over the *)
(* same plaintext (public decryption, by digest) or with one share each    *)
(* (user decryption, by number of shares).                                 *)
(*                                                                         *)
(* The fee each request pays is a token transfer that either succeeds or   *)
(* reverts the request; a reverted request is not a step.                  *)
(***************************************************************************)
EXTENDS CiphertextCommits, MultichainACL, KMSRequestCounters

CONSTANTS
    KeyIdOf,               \* the key a material is encrypted under
    BitSize,               \* the bits a handle's plaintext takes
    MaxDecryptionRequestBits,
    HandleLists,           \* the handle lists users may ask to decrypt
    UserRequests,          \* the user decryption requests users may sign
    MaxDurationDays,
    MaxContractAddresses,
    Timestamps,            \* block timestamps, in days
    DecryptDigests,        \* digests of the answers to a public decryption
    NoDecryptDigest,
    MaxPublicRequests,     \* bounds on the two counters
    MaxUserRequests

ASSUME DecryptionAssumption ==
    /\ KeyIdOf \in [Materials -> Nat]
    /\ BitSize \in [Handles -> Nat]
    /\ HandleLists \subseteq Seq(Handles)
    /\ UserRequests \subseteq
           [pairs : Seq(Handles \X Accounts), contracts : SUBSET Accounts,
            user : Accounts, signer : Accounts, start : Nat, days : Nat]
    /\ NoDecryptDigest \notin DecryptDigests
    /\ MaxPublicRequests \in 0 .. IdSpan - 1 /\ MaxUserRequests \in 0 .. IdSpan - 1

PublicIds == PublicDecryptBase + 1 .. PublicDecryptBase + MaxPublicRequests
UserIds   == UserDecryptBase + 1 .. UserDecryptBase + MaxUserRequests
DecryptionIds == PublicIds \cup UserIds

VARIABLES
    publicDecryptionCounter,
    userDecryptionCounter,
    requests,                      \* per id, what its event told the KMS
    kmsNodeAlreadySigned,          \* per id
    verifiedPublicDecryptSignatures, \* per public id and digest, in order
    consensusTxSenderAddresses,    \* per id and digest, in order
    decryptionDone,
    decryptionConsensusDigest

answerVars ==
    <<kmsNodeAlreadySigned, verifiedPublicDecryptSignatures,
      consensusTxSenderAddresses, decryptionDone, decryptionConsensusDigest>>
decryptionVars ==
    <<publicDecryptionCounter, userDecryptionCounter, requests, answerVars>>
vars == <<configVars, ciphertextVars, aclVars, decryptionVars>>

NoRequest == [handles |-> <<>>, materials |-> <<>>, accounts |-> {}]

DecryptionInit ==
    /\ publicDecryptionCounter = PublicDecryptBase
    /\ userDecryptionCounter = UserDecryptBase
    /\ requests = [id \in DecryptionIds |-> NoRequest]
    /\ kmsNodeAlreadySigned = [id \in DecryptionIds |-> {}]
    /\ verifiedPublicDecryptSignatures =
           [id \in PublicIds |-> [d \in DecryptDigests |-> <<>>]]
    /\ consensusTxSenderAddresses =
           [id \in DecryptionIds |-> [d \in DecryptDigests \cup {NoDecryptDigest} |-> <<>>]]
    /\ decryptionDone = {}
    /\ decryptionConsensusDigest = [id \in DecryptionIds |-> NoDecryptDigest]

Init == ConfigInit /\ CiphertextCommitsInit /\ MultichainACLInit /\ DecryptionInit

----------------------------------------------------------------------------
(* Requests.                                                               *)

TotalBits(list) ==
    LET bits[i \in 0 .. Len(list)] == IF i = 0 THEN 0 ELSE bits[i - 1] + BitSize[list[i]]
    IN  bits[Len(list)]

(* Mutant: handles under several keys go through.                          *)
MaterialsUnderAnyKey(list) == Entries(list) \subseteq isCiphertextMaterialAdded

(* The materials of the handles, all under the key of the first one.  A    *)
(* handle without a material reverts the request.                          *)
MaterialsReady(list) ==
    /\ Entries(list) \subseteq isCiphertextMaterialAdded
    /\ \A i \in DOMAIN list :
           KeyIdOf[ciphertextMaterials[list[i]]] = KeyIdOf[ciphertextMaterials[list[1]]]

MaterialsOf(list) == [i \in DOMAIN list |-> ciphertextMaterials[list[i]]]

PublicDecryptionRequest(list) ==
    /\ ~paused["Decryption"]
    /\ list # <<>>
    /\ \A i \in DOMAIN list : <<list[i], Public>> \in isAllowed
    /\ TotalBits(list) <= MaxDecryptionRequestBits
    /\ MaterialsReady(list)
    /\ publicDecryptionCounter' = publicDecryptionCounter + 1
    /\ publicDecryptionCounter' \in PublicIds
    /\ requests' =
           [requests EXCEPT ![publicDecryptionCounter'] =
               [handles |-> list, materials |-> MaterialsOf(list), accounts |-> {}]]
    /\ UNCHANGED <<userDecryptionCounter, answerVars>>

(* A request is valid from its start for a number of days, at most a year. *)
ValidityHolds(req, now) ==
    /\ req.days \in 1 .. MaxDurationDays
    /\ req.start <= now
    /\ now <= req.start + req.days

UserHandles(req) == [i \in DOMAIN req.pairs |-> req.pairs[i][1]]

UserDecryptionRequest(req, now) ==
    /\ ~paused["Decryption"]
    /\ Cardinality(req.contracts) \in 1 .. MaxContractAddresses
    /\ ValidityHolds(req, now)
    /\ req.user \notin req.contracts
    /\ req.pairs # <<>>
    /\ \A i \in DOMAIN req.pairs :
           /\ <<req.pairs[i][1], req.user>> \in isAllowed
           /\ req.pairs[i] \in isAllowed
           /\ req.pairs[i][2] \in req.contracts
    /\ TotalBits(UserHandles(req)) <= MaxDecryptionRequestBits
    /\ req.signer = req.user
    /\ MaterialsReady(UserHandles(req))
    /\ userDecryptionCounter' = userDecryptionCounter + 1
    /\ userDecryptionCounter' \in UserIds
    /\ requests' =
           [requests EXCEPT ![userDecryptionCounter'] =
               [handles   |-> UserHandles(req),
                materials |-> MaterialsOf(UserHandles(req)),
                accounts  |-> {req.user} \cup {req.pairs[i][2] : i \in DOMAIN req.pairs}]]
    /\ UNCHANGED <<publicDecryptionCounter, answerVars>>

----------------------------------------------------------------------------
(* Answers of the KMS nodes.                                               *)

(* Mutants: a signer may answer again; a consensus may be replaced.        *)
ValidateRepeatedSignature(id, signer, sender) ==
    /\ IsTxSender(kmsNodes, sender)
    /\ SignerMatchesTxSender(kmsNodes, signer, sender)
    /\ kmsNodeAlreadySigned' = [kmsNodeAlreadySigned EXCEPT ![id] = @ \cup {signer}]
AlwaysOpen(id) == TRUE

StillOpen(id) == id \notin decryptionDone

ValidateSignature(id, signer, sender) ==
    /\ IsTxSender(kmsNodes, sender)
    /\ SignerMatchesTxSender(kmsNodes, signer, sender)
    /\ signer \notin kmsNodeAlreadySigned[id]
    /\ kmsNodeAlreadySigned' = [kmsNodeAlreadySigned EXCEPT ![id] = @ \cup {signer}]

PublicDecryptionResponse(id, digest, signer, sender) ==
    /\ PublicDecryptBase < id /\ id <= publicDecryptionCounter
    /\ ValidateSignature(id, signer, sender)
    /\ verifiedPublicDecryptSignatures' =
           [verifiedPublicDecryptSignatures EXCEPT ![id][digest] = Append(@, signer)]
    /\ consensusTxSenderAddresses' =
           [consensusTxSenderAddresses EXCEPT ![id][digest] = Append(@, sender)]
    /\ IF /\ StillOpen(id)
          /\ Len(verifiedPublicDecryptSignatures'[id][digest])
                 >= kmsThresholds.publicDecryption
       THEN /\ decryptionDone' = decryptionDone \cup {id}
            /\ decryptionConsensusDigest' =
                   [decryptionConsensusDigest EXCEPT ![id] = digest]
       ELSE UNCHANGED <<decryptionDone, decryptionConsensusDigest>>
    /\ UNCHANGED <<publicDecryptionCounter, userDecryptionCounter, requests>>

(* Each share has a digest of its own, so the senders are gathered under   *)
(* the zero digest.                                                        *)
UserDecryptionResponse(id, signer, sender) ==
    /\ UserDecryptBase < id /\ id <= userDecryptionCounter
    /\ ValidateSignature(id, signer, sender)
    /\ consensusTxSenderAddresses' =
           [consensusTxSenderAddresses EXCEPT ![id][NoDecryptDigest] = Append(@, sender)]
    /\ IF /\ StillOpen(id)
          /\ Len(consensusTxSenderAddresses'[id][NoDecryptDigest])
                 >= kmsThresholds.userDecryption
       THEN decryptionDone' = decryptionDone \cup {id}
       ELSE UNCHANGED decryptionDone
    /\ UNCHANGED <<publicDecryptionCounter, userDecryptionCounter, requests,
                   verifiedPublicDecryptSignatures, decryptionConsensusDigest>>

DecryptionNext ==
    /\ \/ \E list \in HandleLists : PublicDecryptionRequest(list)
       \/ \E req \in UserRequests, now \in Timestamps : UserDecryptionRequest(req, now)
       \/ \E id \in PublicIds, d \in DecryptDigests, signer, sender \in Address :
              PublicDecryptionResponse(id, d, signer, sender)
       \/ \E id \in UserIds, signer, sender \in Address :
              UserDecryptionResponse(id, signer, sender)
    /\ UNCHANGED <<configVars, ciphertextVars, aclVars>>

Next ==
    \/ DecryptionNext
    \/ CiphertextCommitsNext /\ UNCHANGED <<aclVars, decryptionVars>>
    \/ MultichainACLNext /\ UNCHANGED <<ciphertextVars, decryptionVars>>
    \/ ConfigNext /\ UNCHANGED <<ciphertextVars, aclVars, decryptionVars>>

Spec == Init /\ [][Next]_vars

----------------------------------------------------------------------------
(* What relayers poll before they send a request.                          *)
IsPublicDecryptionReady(list) ==
    \A i \in DOMAIN list :
        <<list[i], Public>> \in isAllowed /\ list[i] \in isCiphertextMaterialAdded

Requested(id) ==
    \/ PublicDecryptBase < id /\ id <= publicDecryptionCounter
    \/ UserDecryptBase < id /\ id <= userDecryptionCounter

(* What the KMS was told in the event of a request stays true for as long  *)
(* as nodes answer it: the handles are allowed (to everyone, or to the     *)
(* user and to the contracts), the materials are those of the handles, and *)
(* one key decrypts them all.                                              *)
RequestsStayAuthorised ==
    \A id \in DecryptionIds :
        /\ Requested(id) <=> requests[id] # NoRequest
        /\ Requested(id) =>
             LET r == requests[id]
             IN  /\ r.materials = MaterialsOf(r.handles)
                 /\ \A i, j \in DOMAIN r.materials :
                        KeyIdOf[r.materials[i]] = KeyIdOf[r.materials[j]]
                 /\ id \in PublicIds => IsPublicDecryptionReady(r.handles)
                 /\ id \in UserIds =>
                        \E u \in r.accounts : \A i \in DOMAIN r.handles :
                            /\ <<r.handles[i], u>> \in isAllowed
                            /\ \E c \in r.accounts \ {u} : <<r.handles[i], c>> \in isAllowed

(* Each KMS signer is counted once per request, for one plaintext; no      *)
(* request that was not made is ever answered.                             *)
AnswersCounted ==
    \A id \in DecryptionIds :
        /\ kmsNodeAlreadySigned[id] # {} => Requested(id)
        /\ id \in UserIds =>
               /\ Len(consensusTxSenderAddresses[id][NoDecryptDigest])
                      = Cardinality(kmsNodeAlreadySigned[id])
               /\ decryptionConsensusDigest[id] = NoDecryptDigest
        /\ id \in PublicIds =>
               /\ UNION {Entries(verifiedPublicDecryptSignatures[id][d]) : d \in DecryptDigests}
                      = kmsNodeAlreadySigned[id]
               /\ \A d, e \in DecryptDigests :
                      LET ds == verifiedPublicDecryptSignatures[id][d]
                          es == verifiedPublicDecryptSignatures[id][e]
                      IN  \A i \in DOMAIN ds, j \in DOMAIN es :
                              ds[i] = es[j] => d = e /\ i = j

(* A decryption is done by no fewer nodes than the threshold of its kind   *)
(* in force asks for: signers of one plaintext, or shares.                 *)
DoneByThreshold ==
    [][\A id \in decryptionDone' \ decryptionDone :
         IF id \in PublicIds
         THEN Cardinality(Entries(verifiedPublicDecryptSignatures'[id]
                                      [decryptionConsensusDigest'[id]]))
                  >= kmsThresholds.publicDecryption
         ELSE Cardinality(kmsNodeAlreadySigned'[id]) >= kmsThresholds.userDecryption]_vars

DecryptionOutcome ==
    [id \in DecryptionIds |->
        IF id \in decryptionDone THEN <<"done", decryptionConsensusDigest[id]>>
        ELSE <<"pending", NoDecryptDigest>>]

DecryptionDecision == INSTANCE OneShotDecision
    WITH Request   <- DecryptionIds,
         Outcome   <- {"done"} \X (DecryptDigests \cup {NoDecryptDigest}),
         NoOutcome <- <<"pending", NoDecryptDigest>>,
         outcome   <- DecryptionOutcome

(* A decryption is completed once, with one plaintext, for good.           *)
DecryptedOnce == DecryptionDecision!Spec
============================================================================
