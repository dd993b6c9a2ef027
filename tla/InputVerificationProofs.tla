---------------------- MODULE InputVerificationProofs ----------------------
(***************************************************************************)
(* Proofs about the InputVerification contract, for any set of addresses,  *)
(* any operator lists and thresholds the owner may submit, and any number  *)
(* of requests.                                                            *)
(*                                                                         *)
(* None of the safety properties is inductive alone.  What makes them so   *)
(* is that the contract's two bookkeeping sets, the signers that verified  *)
(* and those that rejected, cover what the signature lists and the counter *)
(* hold: a signer in a list is in the first set, so the check of the two   *)
(* sets keeps it out of every other list.                                  *)
(***************************************************************************)
EXTENDS InputVerification, GatewayConfigProofs

(* Every signature counted towards a digest is of a signer the contract    *)
(* remembers as having verified.                                           *)
SignaturesRecorded ==
    \A id \in ZkProofIds, d \in Digests :
        \A i \in DOMAIN zkProofSignatures[id][d] :
            zkProofSignatures[id][d][i] \in signerVerifiedZKPoK[id]

VerifiersDoNotReject ==
    \A id \in ZkProofIds : signerVerifiedZKPoK[id] \cap signerRejectedZKPoK[id] = {}

RejectionsFinite == \A id \in ZkProofIds : IsFiniteSet(signerRejectedZKPoK[id])

DigestOfVerified ==
    \A id \in ZkProofIds : id \in verifiedZKProofs => verifyProofConsensusDigest[id] \in Digests

IInv ==
    /\ TypeOK
    /\ ThresholdsReachable
    /\ SignaturesRecorded
    /\ VerifiersDoNotReject
    /\ RejectionsFinite
    /\ DigestOfVerified
    /\ OneResponsePerSigner
    /\ RejectionsCounted
    /\ VerifyRejectExclusive

----------------------------------------------------------------------------

(* The storage of a freshly initialised contract is well typed.            *)
LEMMA InitType == Init => TypeOK
<1> SUFFICES ASSUME Init PROVE TypeOK
  OBVIOUS
<1> USE DigestAssumption
<1>1. ConfigTypeOK
  BY ConfigInitOK DEF Init
<1>2. InputVerificationInit
  BY DEF Init
<1>3. <<>> \in Seq(Address)
  OBVIOUS
<1> QED
  BY <1>1, <1>2, <1>3 DEF InputVerificationInit, TypeOK

(* Every call keeps the storage well typed and the thresholds reachable.   *)
LEMMA NextType ==
    ASSUME TypeOK, ThresholdsReachable, [Next]_vars
    PROVE  TypeOK' /\ ThresholdsReachable'
<1> USE DEF TypeOK
<1>1. CASE ConfigNext /\ UNCHANGED inputVerificationVars
  BY <1>1, ConfigNextOK DEF inputVerificationVars, verifyVars, rejectVars
<1>2. ASSUME NEW chain \in HostChains, VerifyProofRequest(chain)
      PROVE  TypeOK' /\ ThresholdsReachable'
  BY <1>2, DigestAssumption
     DEF VerifyProofRequest, configVars, coprocessorVars, kmsVars, verifyVars, rejectVars,
         ConfigTypeOK, ThresholdsReachable, ValidCoprocessorThreshold, ValidKmsThresholds,
         ValidMpcThreshold, ValidConsensusThreshold
<1>3. ASSUME NEW id \in ZkProofIds, NEW d \in Digests,
             NEW signer \in Address, NEW sender \in Address,
             VerifyProofResponse(id, d, signer, sender)
      PROVE  TypeOK' /\ ThresholdsReachable'
  <2> USE <1>3
  <2>1. ConfigTypeOK' /\ ThresholdsReachable' /\ zkProofIdCounter' = zkProofIdCounter
    BY DEF VerifyProofResponse, configVars, coprocessorVars, kmsVars,
         ConfigTypeOK, ThresholdsReachable, ValidCoprocessorThreshold, ValidKmsThresholds,
         ValidMpcThreshold, ValidConsensusThreshold
  <2>2. zkProofSignatures' \in [ZkProofIds -> [Digests -> Seq(Address)]]
    BY DEF VerifyProofResponse
  <2>3. verifyProofConsensusTxSenders' \in [ZkProofIds -> [Digests -> Seq(Address)]]
    BY DEF VerifyProofResponse
  <2>4. signerVerifiedZKPoK' \in [ZkProofIds -> SUBSET Address]
    BY DEF VerifyProofResponse
  <2>5. id \in 1 .. zkProofIdCounter
    BY DEF VerifyProofResponse, Requested
  <2>6. verifiedZKProofs' \subseteq 1 .. zkProofIdCounter
    BY <2>5 DEF VerifyProofResponse
  <2>7. verifyProofConsensusDigest' \in [ZkProofIds -> Digests \cup {NoDigest}]
    BY DEF VerifyProofResponse
  <2>8. UNCHANGED rejectVars
    BY DEF VerifyProofResponse
  <2> QED
    BY <2>1, <2>2, <2>3, <2>4, <2>6, <2>7, <2>8 DEF rejectVars
<1>4. ASSUME NEW id \in ZkProofIds, NEW sender \in Address,
             RejectProofResponse(id, sender)
      PROVE  TypeOK' /\ ThresholdsReachable'
  <2> USE <1>4
  <2>1. ConfigTypeOK' /\ ThresholdsReachable' /\ zkProofIdCounter' = zkProofIdCounter
    BY DEF RejectProofResponse, configVars, coprocessorVars, kmsVars,
         ConfigTypeOK, ThresholdsReachable, ValidCoprocessorThreshold, ValidKmsThresholds,
         ValidMpcThreshold, ValidConsensusThreshold
  <2>2. SignerOf(coprocessors, sender) \in Address
    BY SignerOfRegistered DEF RejectProofResponse, ConfigTypeOK
  <2>3. signerRejectedZKPoK' \in [ZkProofIds -> SUBSET Address]
    BY <2>2 DEF RejectProofResponse
  <2>4. rejectedProofResponseCounter' \in [ZkProofIds -> Nat]
    BY DEF RejectProofResponse
  <2>5. rejectProofConsensusTxSenders' \in [ZkProofIds -> Seq(Address)]
    BY DEF RejectProofResponse
  <2>6. rejectedZKProofs' \subseteq 1 .. zkProofIdCounter
    BY DEF RejectProofResponse, Requested
  <2>7. UNCHANGED verifyVars
    BY DEF RejectProofResponse
  <2> QED
    BY <2>1, <2>3, <2>4, <2>5, <2>6, <2>7 DEF verifyVars
<1>5. CASE UNCHANGED vars
  BY <1>5 DEF vars, configVars, coprocessorVars, kmsVars, inputVerificationVars,
         verifyVars, rejectVars, ConfigTypeOK, ThresholdsReachable,
         ValidCoprocessorThreshold, ValidKmsThresholds,
         ValidMpcThreshold, ValidConsensusThreshold
<1> QED
  BY <1>1, <1>2, <1>3, <1>4, <1>5 DEF Next, InputVerificationNext

(* The contract's storage is always well typed, and no threshold in force  *)
(* ever exceeds the number of operators it is counted over.                *)
THEOREM TypeCorrect == Spec => [](TypeOK /\ ThresholdsReachable)
<1>1. Init => TypeOK /\ ThresholdsReachable
  BY InitType, ConfigInitOK DEF Init
<1>2. TypeOK /\ ThresholdsReachable /\ [Next]_vars => (TypeOK /\ ThresholdsReachable)'
  BY NextType
<1> QED
  BY <1>1, <1>2, PTL DEF Spec

----------------------------------------------------------------------------
(* What an answer does to the signature lists: one signer at the end of    *)
(* one list.                                                               *)
LEMMA SignatureAppended ==
    ASSUME TypeOK,
           NEW id \in ZkProofIds, NEW d \in Digests,
           NEW signer \in Address, NEW sender \in Address,
           VerifyProofResponse(id, d, signer, sender)
    PROVE  /\ Len(zkProofSignatures'[id][d]) = Len(zkProofSignatures[id][d]) + 1
           /\ \A p \in ZkProofIds, e \in Digests :
                 \A i \in DOMAIN zkProofSignatures'[p][e] :
                    \/ /\ i \in DOMAIN zkProofSignatures[p][e]
                       /\ zkProofSignatures'[p][e][i] = zkProofSignatures[p][e][i]
                    \/ /\ p = id /\ e = d /\ i = Len(zkProofSignatures[id][d]) + 1
                       /\ zkProofSignatures'[p][e][i] = signer
<1> DEFINE old == zkProofSignatures[id][d]
<1>1. old \in Seq(Address)
  BY DEF TypeOK
<1>2. zkProofSignatures'[id][d] = Append(old, signer)
  BY DEF VerifyProofResponse, TypeOK
<1>3. \A p \in ZkProofIds, e \in Digests :
          ~(p = id /\ e = d) => zkProofSignatures'[p][e] = zkProofSignatures[p][e]
  BY DEF VerifyProofResponse, TypeOK
<1>4. /\ Len(Append(old, signer)) = Len(old) + 1
      /\ DOMAIN Append(old, signer) = 1 .. Len(old) + 1
      /\ \A i \in 1 .. Len(old) : Append(old, signer)[i] = old[i]
      /\ Append(old, signer)[Len(old) + 1] = signer
      /\ DOMAIN old = 1 .. Len(old)
      /\ Len(old) \in Nat
  BY <1>1
<1>5. \A i \in 1 .. Len(old) + 1 : i \in 1 .. Len(old) \/ i = Len(old) + 1
  BY <1>4
<1> QED
  BY <1>2, <1>3, <1>4, <1>5

(* verifyProofRequest only moves the counter up.                           *)
LEMMA RequestKeeps ==
    ASSUME IInv, NEW chain \in HostChains, VerifyProofRequest(chain)
    PROVE  /\ SignaturesRecorded' /\ VerifiersDoNotReject' /\ RejectionsFinite'
           /\ DigestOfVerified' /\ OneResponsePerSigner' /\ RejectionsCounted'
           /\ VerifyRejectExclusive'
BY DEF VerifyProofRequest, verifyVars, rejectVars, IInv, SignaturesRecorded,
       VerifiersDoNotReject, RejectionsFinite, DigestOfVerified, OneResponsePerSigner,
       RejectionsCounted, VerifyRejectExclusive

(* verifyProofResponse: the signer it adds is in neither of the two sets   *)
(* of signers before, so it is in no list of signatures.                   *)
LEMMA ResponseKeeps ==
    ASSUME IInv,
           NEW id \in ZkProofIds, NEW d \in Digests,
           NEW signer \in Address, NEW sender \in Address,
           VerifyProofResponse(id, d, signer, sender)
    PROVE  /\ SignaturesRecorded' /\ VerifiersDoNotReject' /\ RejectionsFinite'
           /\ DigestOfVerified' /\ OneResponsePerSigner' /\ RejectionsCounted'
           /\ VerifyRejectExclusive'
<1>1. /\ signer \notin signerVerifiedZKPoK[id]
      /\ signer \notin signerRejectedZKPoK[id]
  BY DEF VerifyProofResponse, AlreadyResponded
<1>2. \A p \in ZkProofIds :
          signerVerifiedZKPoK'[p] = IF p = id THEN signerVerifiedZKPoK[p] \cup {signer}
                                    ELSE signerVerifiedZKPoK[p]
  BY DEF VerifyProofResponse, IInv, TypeOK
<1>3. UNCHANGED <<signerRejectedZKPoK, rejectedProofResponseCounter,
                  rejectProofConsensusTxSenders, rejectedZKProofs>>
  BY DEF VerifyProofResponse, rejectVars
<1>4. \A p \in ZkProofIds, e \in Digests :
          \A i \in DOMAIN zkProofSignatures'[p][e] :
             \/ /\ i \in DOMAIN zkProofSignatures[p][e]
                /\ zkProofSignatures'[p][e][i] = zkProofSignatures[p][e][i]
             \/ /\ p = id /\ e = d /\ i = Len(zkProofSignatures[id][d]) + 1
                /\ zkProofSignatures'[p][e][i] = signer
  BY SignatureAppended DEF IInv
<1>5. SignaturesRecorded'
  <2> SUFFICES ASSUME NEW p \in ZkProofIds, NEW e \in Digests,
                      NEW i \in DOMAIN zkProofSignatures'[p][e]
               PROVE  zkProofSignatures'[p][e][i] \in signerVerifiedZKPoK'[p]
    BY DEF SignaturesRecorded
  <2>1. CASE /\ i \in DOMAIN zkProofSignatures[p][e]
             /\ zkProofSignatures'[p][e][i] = zkProofSignatures[p][e][i]
    <3>1. zkProofSignatures[p][e][i] \in signerVerifiedZKPoK[p]
      BY <2>1, Zenon DEF SignaturesRecorded, IInv
    <3> QED
      BY <1>2, <2>1, <3>1
  <2>2. CASE p = id /\ zkProofSignatures'[p][e][i] = signer
    BY <1>2, <2>2
  <2> QED
    BY <1>4, <2>1, <2>2
<1>6. VerifiersDoNotReject'
  BY <1>1, <1>2, <1>3 DEF VerifiersDoNotReject, IInv
<1>7. RejectionsFinite' /\ RejectionsCounted'
  BY <1>3 DEF RejectionsFinite, RejectionsCounted, IInv
<1>8. DigestOfVerified'
  BY DEF VerifyProofResponse, DigestOfVerified, IInv, TypeOK
<1>9. VerifyRejectExclusive'
  BY <1>3 DEF VerifyProofResponse, Undecided, VerifyRejectExclusive, IInv
<1>10. OneResponsePerSigner'
  <2> SUFFICES ASSUME NEW p \in ZkProofIds, NEW a \in Address
               PROVE  /\ \A e, f \in Digests :
                            \A i \in DOMAIN zkProofSignatures'[p][e],
                               j \in DOMAIN zkProofSignatures'[p][f] :
                                  /\ zkProofSignatures'[p][e][i] = a
                                  /\ zkProofSignatures'[p][f][j] = a
                                  => e = f /\ i = j
                      /\ a \in signerRejectedZKPoK'[p] =>
                           \A e \in Digests : \A i \in DOMAIN zkProofSignatures'[p][e] :
                               zkProofSignatures'[p][e][i] # a
    BY DEF OneResponsePerSigner
  <2>1. \A e \in Digests : \A i \in DOMAIN zkProofSignatures[p][e] :
            p = id => zkProofSignatures[p][e][i] # signer
    BY <1>1 DEF IInv, SignaturesRecorded
  <2>2. ASSUME NEW e \in Digests, NEW f \in Digests,
               NEW i \in DOMAIN zkProofSignatures'[p][e],
               NEW j \in DOMAIN zkProofSignatures'[p][f],
               zkProofSignatures'[p][e][i] = a, zkProofSignatures'[p][f][j] = a
        PROVE  e = f /\ i = j
    BY <1>4, <2>1, <2>2 DEF IInv, OneResponsePerSigner
  <2>3. ASSUME a \in signerRejectedZKPoK'[p],
               NEW e \in Digests, NEW i \in DOMAIN zkProofSignatures'[p][e]
        PROVE  zkProofSignatures'[p][e][i] # a
    BY <1>1, <1>3, <1>4, <2>3 DEF IInv, OneResponsePerSigner
  <2> QED
    BY <2>2, <2>3
<1> QED
  BY <1>5, <1>6, <1>7, <1>8, <1>9, <1>10

(* rejectProofResponse: counter, list of senders and set of signers grow   *)
(* by one together, and the signer signed no digest.                       *)
LEMMA RejectionKeeps ==
    ASSUME IInv, NEW id \in ZkProofIds, NEW sender \in Address,
           RejectProofResponse(id, sender)
    PROVE  /\ SignaturesRecorded' /\ VerifiersDoNotReject' /\ RejectionsFinite'
           /\ DigestOfVerified' /\ OneResponsePerSigner' /\ RejectionsCounted'
           /\ VerifyRejectExclusive'
<1> DEFINE signer == SignerOf(coprocessors, sender)
<1>1. /\ signer \notin signerVerifiedZKPoK[id]
      /\ signer \notin signerRejectedZKPoK[id]
  BY DEF RejectProofResponse, AlreadyResponded
<1>2. UNCHANGED <<zkProofSignatures, signerVerifiedZKPoK, verifiedZKProofs,
                  verifyProofConsensusDigest>>
  BY DEF RejectProofResponse, verifyVars
<1>3. \A p \in ZkProofIds :
          /\ signerRejectedZKPoK'[p] = IF p = id THEN signerRejectedZKPoK[p] \cup {signer}
                                       ELSE signerRejectedZKPoK[p]
          /\ rejectedProofResponseCounter'[p] =
                 IF p = id THEN rejectedProofResponseCounter[p] + 1
                 ELSE rejectedProofResponseCounter[p]
          /\ rejectProofConsensusTxSenders'[p] =
                 IF p = id THEN Append(rejectProofConsensusTxSenders[p], sender)
                 ELSE rejectProofConsensusTxSenders[p]
  BY DEF RejectProofResponse, IInv, TypeOK
<1> HIDE DEF signer
<1>4. SignaturesRecorded' /\ DigestOfVerified'
  BY <1>2 DEF SignaturesRecorded, DigestOfVerified, IInv
<1>5. VerifiersDoNotReject'
  BY <1>1, <1>2, <1>3 DEF VerifiersDoNotReject, IInv
<1>6. RejectionsFinite' /\ RejectionsCounted'
  <2>1. /\ IsFiniteSet(signerRejectedZKPoK[id] \cup {signer})
        /\ Cardinality(signerRejectedZKPoK[id] \cup {signer})
              = Cardinality(signerRejectedZKPoK[id]) + 1
    BY <1>1, FS_AddElement DEF IInv, RejectionsFinite
  <2>2. Len(Append(rejectProofConsensusTxSenders[id], sender))
          = Len(rejectProofConsensusTxSenders[id]) + 1
    BY DEF IInv, TypeOK
  <2> QED
    BY <1>3, <2>1, <2>2 DEF IInv, RejectionsFinite, RejectionsCounted
<1>7. OneResponsePerSigner'
  <2>1. \A e \in Digests : \A i \in DOMAIN zkProofSignatures[id][e] :
            zkProofSignatures[id][e][i] # signer
    BY <1>1 DEF IInv, SignaturesRecorded
  <2>2. \A p \in ZkProofIds, a \in Address :
            a \in signerRejectedZKPoK'[p] =>
               a \in signerRejectedZKPoK[p] \/ (p = id /\ a = signer)
    BY <1>3
  <2>3. \A p \in ZkProofIds, a \in Address :
            a \in signerRejectedZKPoK'[p] =>
               \A e \in Digests : \A i \in DOMAIN zkProofSignatures[p][e] :
                   zkProofSignatures[p][e][i] # a
    BY <2>1, <2>2, Zenon DEF IInv, OneResponsePerSigner
  <2>4. \A p \in ZkProofIds, a \in Address :
            \A e, f \in Digests : \A i \in DOMAIN zkProofSignatures[p][e],
                                     j \in DOMAIN zkProofSignatures[p][f] :
               zkProofSignatures[p][e][i] = a /\ zkProofSignatures[p][f][j] = a
                   => e = f /\ i = j
    BY Zenon DEF IInv, OneResponsePerSigner
  <2>5. zkProofSignatures' = zkProofSignatures
    BY <1>2
  <2> SUFFICES ASSUME NEW p \in ZkProofIds, NEW a \in Address
               PROVE  /\ \A e, f \in Digests :
                            \A i \in DOMAIN zkProofSignatures'[p][e],
                               j \in DOMAIN zkProofSignatures'[p][f] :
                                  /\ zkProofSignatures'[p][e][i] = a
                                  /\ zkProofSignatures'[p][f][j] = a
                                  => e = f /\ i = j
                      /\ a \in signerRejectedZKPoK'[p] =>
                           \A e \in Digests : \A i \in DOMAIN zkProofSignatures'[p][e] :
                               zkProofSignatures'[p][e][i] # a
    BY DEF OneResponsePerSigner
  <2> QED
    BY <2>3, <2>4, <2>5
<1>8. VerifyRejectExclusive'
  BY <1>2 DEF RejectProofResponse, Undecided, VerifyRejectExclusive, IInv
<1> QED
  BY <1>4, <1>5, <1>6, <1>7, <1>8

(* No call to the contract or of the owner leaves the invariant.           *)
LEMMA Inductive == IInv /\ [Next]_vars => IInv'
<1> SUFFICES ASSUME IInv, [Next]_vars PROVE IInv'
  OBVIOUS
<1>1. TypeOK' /\ ThresholdsReachable'
  BY NextType DEF IInv
<1>2. CASE UNCHANGED inputVerificationVars
  BY <1>1, <1>2
     DEF IInv, inputVerificationVars, verifyVars, rejectVars, SignaturesRecorded,
         VerifiersDoNotReject, RejectionsFinite, DigestOfVerified, OneResponsePerSigner,
         RejectionsCounted, VerifyRejectExclusive
<1>3. ASSUME NEW chain \in HostChains, VerifyProofRequest(chain)
      PROVE  IInv'
  BY <1>1, <1>3, RequestKeeps DEF IInv
<1>4. ASSUME NEW id \in ZkProofIds, NEW d \in Digests,
             NEW signer \in Address, NEW sender \in Address,
             VerifyProofResponse(id, d, signer, sender)
      PROVE  IInv'
  BY <1>1, <1>4, ResponseKeeps DEF IInv
<1>5. ASSUME NEW id \in ZkProofIds, NEW sender \in Address,
             RejectProofResponse(id, sender)
      PROVE  IInv'
  BY <1>1, <1>5, RejectionKeeps DEF IInv
<1> QED
  BY <1>2, <1>3, <1>4, <1>5 DEF Next, InputVerificationNext, vars

(* A freshly initialised contract satisfies the invariant.                 *)
LEMMA InitInductive == Init => IInv
<1> SUFFICES ASSUME Init PROVE IInv
  OBVIOUS
<1>1. TypeOK /\ ThresholdsReachable
  BY InitType, ConfigInitOK DEF Init
<1>2. InputVerificationInit
  BY DEF Init
<1>3. SignaturesRecorded /\ OneResponsePerSigner
  BY <1>2 DEF InputVerificationInit, SignaturesRecorded, OneResponsePerSigner
<1>4. VerifiersDoNotReject /\ DigestOfVerified /\ VerifyRejectExclusive
  BY <1>2 DEF InputVerificationInit, VerifiersDoNotReject, DigestOfVerified,
              VerifyRejectExclusive
<1>5. RejectionsFinite /\ RejectionsCounted
  BY <1>2, FS_EmptySet DEF InputVerificationInit, RejectionsFinite, RejectionsCounted
<1> QED
  BY <1>1, <1>3, <1>4, <1>5 DEF IInv

(* The lists, sets, counters and decisions that the three functions of the *)
(* contract keep agree in every reachable state.                           *)
THEOREM InductiveInvariant == Spec => []IInv
BY InitInductive, Inductive, PTL DEF Spec

(* No signer is counted twice for a proof, for no digest and for no mix of *)
(* verification and rejection, across all reconfigurations.                *)
THEOREM ResponsesUnique == Spec => []OneResponsePerSigner
<1>1. IInv => OneResponsePerSigner
  BY DEF IInv
<1> QED
  BY <1>1, InductiveInvariant, PTL

(* Rejections are counted one per signer.                                  *)
THEOREM RejectionsUnique == Spec => []RejectionsCounted
<1>1. IInv => RejectionsCounted
  BY DEF IInv
<1> QED
  BY <1>1, InductiveInvariant, PTL

(* No proof is ever both verified and rejected.                            *)
THEOREM NeverBoth == Spec => []VerifyRejectExclusive
<1>1. IInv => VerifyRejectExclusive
  BY DEF IInv
<1> QED
  BY <1>1, InductiveInvariant, PTL

----------------------------------------------------------------------------
(* The signatures of one digest are those of as many distinct signers.     *)
SignersCounted ==
    \A id \in ZkProofIds, d \in Digests :
        Cardinality({zkProofSignatures[id][d][i] : i \in DOMAIN zkProofSignatures[id][d]})
            = Len(zkProofSignatures[id][d])

(* The length verifyProofResponse compares with the threshold is a number  *)
(* of distinct signers.                                                    *)
LEMMA SignersDistinct == IInv => SignersCounted
<1> SUFFICES ASSUME TypeOK, OneResponsePerSigner, NEW id \in ZkProofIds, NEW d \in Digests
             PROVE  Cardinality({zkProofSignatures[id][d][i] :
                                    i \in DOMAIN zkProofSignatures[id][d]})
                        = Len(zkProofSignatures[id][d])
  BY DEF IInv, SignersCounted
<1> DEFINE s == zkProofSignatures[id][d]
<1>1. s \in Seq(Address)
  BY DEF TypeOK
<1>2. \A a \in Address : \A i, j \in DOMAIN s : s[i] = a /\ s[j] = a => i = j
  <2> SUFFICES ASSUME NEW a \in Address, NEW i \in DOMAIN s, NEW j \in DOMAIN s,
                      s[i] = a, s[j] = a
               PROVE  i = j
    OBVIOUS
  <2>1. \A e, f \in Digests : \A k \in DOMAIN zkProofSignatures[id][e],
                                 l \in DOMAIN zkProofSignatures[id][f] :
            zkProofSignatures[id][e][k] = a /\ zkProofSignatures[id][f][l] = a
                => e = f /\ k = l
    BY DEF OneResponsePerSigner
  <2> QED
    BY <2>1
<1>3. \A i, j \in DOMAIN s : s[i] = s[j] => i = j
  <2> SUFFICES ASSUME NEW i \in DOMAIN s, NEW j \in DOMAIN s, s[i] = s[j]
               PROVE  i = j
    OBVIOUS
  <2>1. s[i] \in Address
    BY <1>1
  <2> QED
    BY <1>2, <2>1
<1> HIDE DEF s
<1>4. Cardinality({s[i] : i \in DOMAIN s}) = Len(s)
  BY <1>1, <1>3, DistinctEntries DEF Distinct
<1> QED
  BY <1>4 DEF s

(* The step that decides a proof, with what holds before and after it.     *)
LEMMA DecisionStep ==
    ASSUME IInv, RejectionsCounted', SignersCounted', Next, NEW id \in ZkProofIds
    PROVE  /\ id \in verifiedZKProofs' \ verifiedZKProofs =>
                LET d == verifyProofConsensusDigest'[id]
                IN  Cardinality({zkProofSignatures'[id][d][i] :
                                   i \in DOMAIN zkProofSignatures'[id][d]})
                        >= coprocessorThreshold
           /\ id \in rejectedZKProofs' \ rejectedZKProofs =>
                Cardinality(signerRejectedZKPoK'[id]) >= coprocessorThreshold
<1>1. ASSUME id \in verifiedZKProofs' \ verifiedZKProofs
      PROVE  LET d == verifyProofConsensusDigest'[id]
             IN  Cardinality({zkProofSignatures'[id][d][i] :
                                i \in DOMAIN zkProofSignatures'[id][d]})
                     >= coprocessorThreshold
  <2>1. PICK p \in ZkProofIds, d \in Digests, signer \in Address, sender \in Address :
            VerifyProofResponse(p, d, signer, sender)
    BY <1>1 DEF Next, InputVerificationNext, VerifyProofRequest,
                RejectProofResponse, verifyVars, inputVerificationVars
  <2>2. /\ p = id
        /\ verifyProofConsensusDigest'[id] = d
        /\ IsConsensusReached(Len(zkProofSignatures'[id][d]))
    BY <1>1, <2>1 DEF VerifyProofResponse, IInv, TypeOK
  <2> QED
    BY <2>2 DEF IsConsensusReached, SignersCounted
<1>2. ASSUME id \in rejectedZKProofs' \ rejectedZKProofs
      PROVE  Cardinality(signerRejectedZKPoK'[id]) >= coprocessorThreshold
  <2>1. PICK p \in ZkProofIds, sender \in Address : RejectProofResponse(p, sender)
    BY <1>2 DEF Next, InputVerificationNext, VerifyProofRequest, VerifyProofResponse,
                rejectVars, inputVerificationVars
  <2>2. p = id /\ rejectedProofResponseCounter'[id] >= coprocessorThreshold
    BY <1>2, <2>1 DEF RejectProofResponse, IsConsensusReached
  <2> QED
    BY <2>2 DEF RejectionsCounted
<1> QED
  BY <1>1, <1>2

(* A proof is decided only by a threshold of distinct signers that agree.  *)
THEOREM ThresholdMet == Spec => DecidedByThreshold
<1>1. IInv /\ RejectionsCounted' /\ SignersCounted' /\ [Next]_vars =>
        [\A id \in ZkProofIds :
           /\ id \in verifiedZKProofs' \ verifiedZKProofs =>
                LET d == verifyProofConsensusDigest'[id]
                IN  Cardinality({zkProofSignatures'[id][d][i] :
                                   i \in DOMAIN zkProofSignatures'[id][d]})
                        >= coprocessorThreshold
           /\ id \in rejectedZKProofs' \ rejectedZKProofs =>
                Cardinality(signerRejectedZKPoK'[id]) >= coprocessorThreshold]_vars
  BY DecisionStep
<1>2. IInv => SignersCounted /\ RejectionsCounted
  BY SignersDistinct DEF IInv
<1> QED
  BY <1>1, <1>2, InductiveInvariant, PTL DEF Spec, DecidedByThreshold

(* Every behaviour of the contract is a behaviour of the one-shot          *)
(* decision: the outcome a proof gets first is the one it keeps.           *)
THEOREM Refinement == Spec => DecidedOnce
<1>1. Init => Decision!Init
  BY DEF Init, InputVerificationInit, Decision!Init, Outcome
<1>2. IInv /\ [Next]_vars => [Decision!Next]_Outcome
  <2> SUFFICES ASSUME IInv, [Next]_vars PROVE [Decision!Next]_Outcome
    OBVIOUS
  <2>1. CASE UNCHANGED inputVerificationVars
    BY <2>1 DEF inputVerificationVars, verifyVars, rejectVars, Outcome
  <2>2. ASSUME NEW chain \in HostChains, VerifyProofRequest(chain)
        PROVE  [Decision!Next]_Outcome
    BY <2>2 DEF VerifyProofRequest, verifyVars, rejectVars, Outcome
  <2>3. ASSUME NEW id \in ZkProofIds, NEW d \in Digests,
               NEW signer \in Address, NEW sender \in Address,
               VerifyProofResponse(id, d, signer, sender)
        PROVE  [Decision!Next]_Outcome
    <3>1. CASE Undecided(id) /\ IsConsensusReached(Len(zkProofSignatures'[id][d]))
      <4>1. /\ verifiedZKProofs' = verifiedZKProofs \cup {id}
            /\ rejectedZKProofs' = rejectedZKProofs
            /\ verifyProofConsensusDigest' =
                  [verifyProofConsensusDigest EXCEPT ![id] = d]
        BY <2>3, <3>1 DEF VerifyProofResponse, rejectVars
      <4>2. Outcome[id] = <<"pending", NoDigest>>
        BY <3>1 DEF Outcome, Undecided
      <4>3. Outcome' = [Outcome EXCEPT ![id] = <<"verified", d>>]
        BY <3>1, <4>1 DEF Outcome, Undecided, IInv, TypeOK
      <4> QED
        BY <4>2, <4>3 DEF Decision!Next, Decision!Decide
    <3>2. CASE ~(Undecided(id) /\ IsConsensusReached(Len(zkProofSignatures'[id][d])))
      BY <2>3, <3>2 DEF VerifyProofResponse, rejectVars, Outcome
    <3> QED
      BY <3>1, <3>2
  <2>4. ASSUME NEW id \in ZkProofIds, NEW sender \in Address,
               RejectProofResponse(id, sender)
        PROVE  [Decision!Next]_Outcome
    <3>1. CASE Undecided(id) /\ IsConsensusReached(rejectedProofResponseCounter'[id])
      <4>1. /\ rejectedZKProofs' = rejectedZKProofs \cup {id}
            /\ verifiedZKProofs' = verifiedZKProofs
            /\ verifyProofConsensusDigest' = verifyProofConsensusDigest
        BY <2>4, <3>1 DEF RejectProofResponse, verifyVars
      <4>2. Outcome[id] = <<"pending", NoDigest>>
        BY <3>1 DEF Outcome, Undecided
      <4>3. Outcome' = [Outcome EXCEPT ![id] = <<"rejected", NoDigest>>]
        BY <3>1, <4>1 DEF Outcome, Undecided
      <4> QED
        BY <4>2, <4>3 DEF Decision!Next, Decision!Decide
    <3>2. CASE ~(Undecided(id) /\ IsConsensusReached(rejectedProofResponseCounter'[id]))
      BY <2>4, <3>2 DEF RejectProofResponse, verifyVars, Outcome
    <3> QED
      BY <3>1, <3>2
  <2> QED
    BY <2>1, <2>2, <2>3, <2>4 DEF Next, InputVerificationNext, vars
<1> QED
  BY <1>1, <1>2, InductiveInvariant, PTL DEF Spec, DecidedOnce, Decision!Spec

----------------------------------------------------------------------------
(* A list that continues another one.                                      *)
Extends(new, old) == Len(old) <= Len(new) /\ SubSeq(new, 1, Len(old)) = old

(* What the senders of a digest may become: the same list, or one longer   *)
(* by a sender at its end.                                                 *)
LEMMA SendersExtend ==
    ASSUME IInv, [Next]_vars, NEW id \in ZkProofIds, NEW d \in Digests
    PROVE  Extends(verifyProofConsensusTxSenders'[id][d], verifyProofConsensusTxSenders[id][d])
<1> DEFINE old == verifyProofConsensusTxSenders[id][d]
           new == verifyProofConsensusTxSenders'[id][d]
<1>1. old \in Seq(Address)
  BY DEF IInv, TypeOK
<1>2. new = old \/ \E sender \in Address : new = Append(old, sender)
  <2>1. CASE UNCHANGED verifyProofConsensusTxSenders
    BY <2>1
  <2>2. ASSUME NEW p \in ZkProofIds, NEW e \in Digests,
               NEW signer \in Address, NEW sender \in Address,
               VerifyProofResponse(p, e, signer, sender)
        PROVE  new = old \/ new = Append(old, sender)
    <3>1. verifyProofConsensusTxSenders \in [ZkProofIds -> [Digests -> Seq(Address)]]
      BY DEF IInv, TypeOK
    <3>2. verifyProofConsensusTxSenders' =
              [verifyProofConsensusTxSenders EXCEPT ![p][e] = Append(@, sender)]
      BY <2>2 DEF VerifyProofResponse
    <3>3. \/ verifyProofConsensusTxSenders'[id][d] = verifyProofConsensusTxSenders[id][d]
          \/ verifyProofConsensusTxSenders'[id][d]
                = Append(verifyProofConsensusTxSenders[id][d], sender)
      <4>1. CASE p = id /\ e = d
        BY <3>1, <3>2, <4>1, AppendedInside
      <4>2. CASE ~(p = id /\ e = d)
        BY <3>1, <3>2, <4>2, AppendedInside
      <4> QED
        BY <4>1, <4>2
    <3> QED
      BY <3>3
  <2> QED
    BY <2>1, <2>2 DEF Next, InputVerificationNext, VerifyProofRequest, RejectProofResponse,
                      vars, inputVerificationVars, verifyVars
<1> HIDE DEF old, new
<1>3. CASE new = old
  <2>1. SubSeq(old, 1, Len(old)) \in Seq(Address)
    BY <1>1
  <2>2. Len(SubSeq(old, 1, Len(old))) = Len(old)
    BY <1>1
  <2>3. \A i \in 1 .. Len(old) : SubSeq(old, 1, Len(old))[i] = old[i]
    BY <1>1
  <2>4. SubSeq(old, 1, Len(old)) = old
    BY <1>1, <2>1, <2>2, <2>3
  <2> QED
    BY <1>1, <1>3, <2>4 DEF Extends, old, new
<1>4. ASSUME NEW sender \in Address, new = Append(old, sender)
      PROVE  Extends(new, old)
  <2>1. Len(new) = Len(old) + 1 /\ Len(old) \in Nat
    BY <1>1, <1>4
  <2>2. SubSeq(new, 1, Len(old)) = old
    BY <1>1, <1>4
  <2> QED
    BY <2>1, <2>2 DEF Extends
<1> QED
  BY <1>2, <1>3, <1>4 DEF old, new

(* A verified proof keeps its digest, so its consensus senders are those   *)
(* of one digest before and after a call.                                  *)
LEMMA DigestStays ==
    ASSUME IInv, [Next]_vars, NEW id \in verifiedZKProofs
    PROVE  /\ id \in verifiedZKProofs'
           /\ id \in ZkProofIds
           /\ verifyProofConsensusDigest'[id] = verifyProofConsensusDigest[id]
           /\ verifyProofConsensusDigest[id] \in Digests
<1>1. id \in ZkProofIds
  <2>1. id \in 1 .. zkProofIdCounter /\ zkProofIdCounter \in 0 .. MaxProofRequests
    BY DEF IInv, TypeOK
  <2> QED
    BY <2>1, DigestAssumption DEF ZkProofIds
<1>2. verifyProofConsensusDigest[id] \in Digests
  BY <1>1 DEF IInv, DigestOfVerified
<1>3. CASE UNCHANGED <<verifiedZKProofs, verifyProofConsensusDigest>>
  BY <1>1, <1>2, <1>3
<1>4. ASSUME NEW p \in ZkProofIds, NEW e \in Digests,
             NEW signer \in Address, NEW sender \in Address,
             VerifyProofResponse(p, e, signer, sender)
      PROVE  /\ id \in verifiedZKProofs'
             /\ verifyProofConsensusDigest'[id] = verifyProofConsensusDigest[id]
  BY <1>1, <1>4 DEF VerifyProofResponse, Undecided, IInv, TypeOK
<1> QED
  BY <1>1, <1>2, <1>3, <1>4 DEF Next, InputVerificationNext, VerifyProofRequest, RejectProofResponse,
                    vars, inputVerificationVars, verifyVars

(* The senders a verified proof is attributed to only grow at the end,     *)
(* under any reconfiguration and any late answer.                          *)
THEOREM SendersOnlyGrow == Spec => ConsensusSendersOnlyGrow
<1>1. IInv /\ [Next]_vars =>
        [\A id \in verifiedZKProofs :
           LET old == GetVerifyProofConsensusTxSenders(id)
               new == GetVerifyProofConsensusTxSenders(id)'
           IN  Len(old) <= Len(new) /\ SubSeq(new, 1, Len(old)) = old]_vars
  <2> SUFFICES ASSUME IInv, [Next]_vars, NEW id \in verifiedZKProofs
               PROVE  Extends(GetVerifyProofConsensusTxSenders(id)',
                              GetVerifyProofConsensusTxSenders(id))
    BY DEF Extends
  <2> QED
    BY DigestStays, SendersExtend DEF GetVerifyProofConsensusTxSenders
<1> QED
  BY <1>1, InductiveInvariant, PTL DEF Spec, ConsensusSendersOnlyGrow
============================================================================
