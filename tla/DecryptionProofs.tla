-------------------------- MODULE DecryptionProofs --------------------------
(***************************************************************************)
(* Proofs about the Decryption contract, interleaved with every call to    *)
(* CiphertextCommits, MultichainACL and GatewayConfig, and before them     *)
(* proofs about the two contracts it reads, which the coprocessors report  *)
(* to: the materials of CiphertextCommits and the rights and delegations   *)
(* of MultichainACL.  All hold for any operator lists, any                 *)
(* reconfigurations between two calls, and any number of handles, rights   *)
(* and changes.                                                            *)
(*                                                                         *)
(* The lemmas on the two speak of one contract's own calls and of steps    *)
(* that leave it alone, so that the composition uses them as they are.     *)
(*                                                                         *)
(* That a request stays authorised rests on what the two contracts never   *)
(* do, withdraw a right or change a material, and on one fact about the    *)
(* requests themselves: their handles all had a material.  That the        *)
(* answers are counted rests on the set of signers kept per request, which *)
(* covers the lists of all its answers.                                    *)
(***************************************************************************)
EXTENDS Decryption, GatewayConfigProofs

----------------------------------------------------------------------------
(* CiphertextCommits.  The two properties of the contract together are     *)
(* inductive: the senders remembered per handle cover the lists of all its *)
(* materials, so that the check of the sender keeps it out of every list;  *)
(* and the material a handle gets is the one whose list just grew.         *)
CiphertextTypeOK ==
    /\ addCiphertextHashCounters \in [Handles -> [Materials -> Nat]]
    /\ coprocessorTxSenderAddresses \in [Handles -> [Materials -> Seq(Address)]]
    /\ alreadyAddedCoprocessorTxSenders \in [Handles -> SUBSET Address]
    /\ isCiphertextMaterialAdded \subseteq Handles
    /\ ciphertextMaterials \in [Handles -> Materials \cup {NoMaterial}]
    /\ ctHandleConsensusHash \in [Handles -> Materials \cup {NoMaterial}]

CommitsInv == CiphertextTypeOK /\ SubmissionsCounted /\ MaterialOfConsensus

(* A freshly initialised contract knows of no material and no sender.      *)
LEMMA CommitsInitInv == CiphertextCommitsInit => CommitsInv
<1> SUFFICES ASSUME CiphertextCommitsInit PROVE CommitsInv
  OBVIOUS
<1> USE DEF CiphertextCommitsInit
<1>1. CiphertextTypeOK
  <2>1. <<>> \in Seq(Address)
    OBVIOUS
  <2> QED
    BY <2>1 DEF CiphertextTypeOK
<1>2. SubmissionsCounted
  BY DEF SubmissionsCounted
<1>3. MaterialOfConsensus
  BY DEF MaterialOfConsensus
<1> QED
  BY <1>1, <1>2, <1>3 DEF CommitsInv

(* Nothing else writes the contract's storage.                             *)
LEMMA CommitsUnchanged == CommitsInv /\ UNCHANGED ciphertextVars => CommitsInv'
BY DEF CommitsInv, ciphertextVars, CiphertextTypeOK, SubmissionsCounted,
       MaterialOfConsensus, SnsCiphertextMaterial

(* addCiphertextMaterial, as one more sender in one list.                  *)
LEMMA SubmissionAdded ==
    ASSUME CiphertextTypeOK, NEW h \in Handles, NEW m \in Materials,
           NEW sender \in Address, AddCiphertextMaterial(h, m, sender)
    PROVE  /\ addCiphertextHashCounters' \in [Handles -> [Materials -> Nat]]
           /\ addCiphertextHashCounters'[h][m] = addCiphertextHashCounters[h][m] + 1
           /\ \A g \in Handles, n \in Materials :
                 ~(g = h /\ n = m) =>
                     addCiphertextHashCounters'[g][n] = addCiphertextHashCounters[g][n]
           /\ alreadyAddedCoprocessorTxSenders' \in [Handles -> SUBSET Address]
           /\ \A g \in Handles :
                 alreadyAddedCoprocessorTxSenders'[g] =
                    IF g = h THEN alreadyAddedCoprocessorTxSenders[g] \cup {sender}
                    ELSE alreadyAddedCoprocessorTxSenders[g]
<1>1. /\ addCiphertextHashCounters' = [addCiphertextHashCounters EXCEPT ![h][m] = @ + 1]
      /\ alreadyAddedCoprocessorTxSenders' =
            [alreadyAddedCoprocessorTxSenders EXCEPT ![h] = @ \cup {sender}]
  BY DEF AddCiphertextMaterial
<1>2. /\ addCiphertextHashCounters \in [Handles -> [Materials -> Nat]]
      /\ alreadyAddedCoprocessorTxSenders \in [Handles -> SUBSET Address]
  BY DEF CiphertextTypeOK
<1>3. addCiphertextHashCounters[h][m] + 1 \in Nat
  BY <1>2
<1>4. addCiphertextHashCounters' \in [Handles -> [Materials -> Nat]]
  BY <1>1, <1>2, <1>3
<1>5. /\ addCiphertextHashCounters'[h][m] = addCiphertextHashCounters[h][m] + 1
      /\ \A g \in Handles, n \in Materials :
            ~(g = h /\ n = m) =>
                addCiphertextHashCounters'[g][n] = addCiphertextHashCounters[g][n]
  BY <1>1, <1>2
<1>6. /\ alreadyAddedCoprocessorTxSenders' \in [Handles -> SUBSET Address]
      /\ \A g \in Handles :
            alreadyAddedCoprocessorTxSenders'[g] =
               IF g = h THEN alreadyAddedCoprocessorTxSenders[g] \cup {sender}
               ELSE alreadyAddedCoprocessorTxSenders[g]
  BY <1>1, <1>2
<1> QED
  BY <1>4, <1>5, <1>6

(* addCiphertextMaterial counts the sender once.                           *)
LEMMA SubmissionCountedKept ==
    ASSUME CiphertextTypeOK, SubmissionsCounted, NEW h \in Handles,
           NEW m \in Materials, NEW sender \in Address,
           AddCiphertextMaterial(h, m, sender)
    PROVE  SubmissionsCounted'
<1> DEFINE L(g, n) == coprocessorTxSenderAddresses[g][n]
           Ln(g, n) == coprocessorTxSenderAddresses'[g][n]
<1>1. \A g \in Handles, n \in Materials : L(g, n) \in Seq(Address)
  BY DEF CiphertextTypeOK
<1>2. coprocessorTxSenderAddresses' =
         [coprocessorTxSenderAddresses EXCEPT ![h][m] = Append(@, sender)]
  BY DEF AddCiphertextMaterial
<1>3. coprocessorTxSenderAddresses \in [Handles -> [Materials -> Seq(Address)]]
  BY DEF CiphertextTypeOK
<1>4. \A g \in Handles, n \in Materials : \A i \in DOMAIN Ln(g, n) :
         \/ i \in DOMAIN L(g, n) /\ Ln(g, n)[i] = L(g, n)[i]
         \/ g = h /\ n = m /\ i = Len(L(h, m)) + 1 /\ Ln(g, n)[i] = sender
  BY <1>2, <1>3, AppendedInside
<1>5. \A g \in Handles, n \in Materials : \A i \in DOMAIN L(g, n) :
         i \in DOMAIN Ln(g, n) /\ Ln(g, n)[i] = L(g, n)[i]
  BY <1>2, <1>3, AppendedInside
<1>6. /\ \E i \in DOMAIN Ln(h, m) : Ln(h, m)[i] = sender
      /\ Len(Ln(h, m)) = Len(L(h, m)) + 1
      /\ \A g \in Handles, n \in Materials : ~(g = h /\ n = m) => Ln(g, n) = L(g, n)
  BY <1>2, <1>3, AppendedInside
<1>7. \A n \in Materials : \A i \in DOMAIN L(h, n) : L(h, n)[i] # sender
  BY DEF AddCiphertextMaterial, AlreadyAdded, SubmissionsCounted
<1>8. \A g \in Handles :
         alreadyAddedCoprocessorTxSenders'[g] =
            IF g = h THEN alreadyAddedCoprocessorTxSenders[g] \cup {sender}
            ELSE alreadyAddedCoprocessorTxSenders[g]
  BY SubmissionAdded
<1>9. \A g \in Handles, n \in Materials :
         addCiphertextHashCounters'[g][n] = Len(Ln(g, n))
  <2>1. addCiphertextHashCounters'[h][m] = addCiphertextHashCounters[h][m] + 1
    BY SubmissionAdded
  <2>3. \A g \in Handles, n \in Materials :
           ~(g = h /\ n = m) =>
               addCiphertextHashCounters'[g][n] = addCiphertextHashCounters[g][n]
    BY SubmissionAdded
  <2>4. \A g \in Handles, n \in Materials :
           addCiphertextHashCounters[g][n] = Len(L(g, n))
    BY DEF SubmissionsCounted
  <2> HIDE DEF L, Ln
  <2>5. addCiphertextHashCounters'[h][m] = Len(Ln(h, m))
    BY <1>6, <2>1, <2>4
  <2> QED
    BY <1>6, <2>3, <2>4, <2>5
<1>10. \A g \in Handles, n, p \in Materials :
          \A i \in DOMAIN L(g, n), j \in DOMAIN L(g, p) :
             L(g, n)[i] = L(g, p)[j] => n = p /\ i = j
  BY DEF SubmissionsCounted
<1>11. \A g \in Handles, a \in Address :
          a \in alreadyAddedCoprocessorTxSenders[g] <=>
             \E n \in Materials : \E i \in DOMAIN L(g, n) : L(g, n)[i] = a
  BY DEF SubmissionsCounted
<1> HIDE DEF L
<1>12. ASSUME NEW g \in Handles, NEW n \in Materials, NEW p \in Materials,
              NEW i \in DOMAIN Ln(g, n), NEW j \in DOMAIN Ln(g, p),
              Ln(g, n)[i] = Ln(g, p)[j]
       PROVE  n = p /\ i = j
  <2> HIDE DEF Ln
  <2>1. \/ i \in DOMAIN L(g, n) /\ Ln(g, n)[i] = L(g, n)[i]
        \/ g = h /\ n = m /\ i = Len(L(h, m)) + 1 /\ Ln(g, n)[i] = sender
    BY <1>4
  <2>2. \/ j \in DOMAIN L(g, p) /\ Ln(g, p)[j] = L(g, p)[j]
        \/ g = h /\ p = m /\ j = Len(L(h, m)) + 1 /\ Ln(g, p)[j] = sender
    BY <1>4
  <2> QED
    BY <1>7, <1>10, <1>12, <2>1, <2>2, Zenon
<1>13. ASSUME NEW g \in Handles, NEW a \in Address
       PROVE  a \in alreadyAddedCoprocessorTxSenders'[g] <=>
                 \E n \in Materials : \E i \in DOMAIN Ln(g, n) : Ln(g, n)[i] = a
  <2> HIDE DEF Ln
  <2>1. ASSUME a \in alreadyAddedCoprocessorTxSenders'[g]
        PROVE  \E n \in Materials : \E i \in DOMAIN Ln(g, n) : Ln(g, n)[i] = a
    <3>1. a \in alreadyAddedCoprocessorTxSenders[g] \/ (g = h /\ a = sender)
      BY <1>8, <2>1
    <3>2. CASE a \in alreadyAddedCoprocessorTxSenders[g]
      <4>1. PICK n \in Materials : \E i \in DOMAIN L(g, n) : L(g, n)[i] = a
        BY <1>11, <3>2
      <4> QED
        BY <1>5, <4>1
    <3>3. CASE g = h /\ a = sender
      BY <1>6, <3>3
    <3> QED
      BY <3>1, <3>2, <3>3
  <2>2. ASSUME NEW n \in Materials, NEW i \in DOMAIN Ln(g, n), Ln(g, n)[i] = a
        PROVE  a \in alreadyAddedCoprocessorTxSenders'[g]
    <3>1. \/ i \in DOMAIN L(g, n) /\ L(g, n)[i] = a
          \/ g = h /\ a = sender
      BY <1>4, <2>2
    <3>2. a \in alreadyAddedCoprocessorTxSenders[g] \/ (g = h /\ a = sender)
      BY <1>11, <3>1
    <3> QED
      BY <1>8, <3>2
  <2> QED
    BY <2>1, <2>2
<1> QED
  BY <1>9, <1>12, <1>13 DEF SubmissionsCounted

(* A handle gets its material with the last submission its threshold       *)
(* needs, together with the hash the senders are listed under.             *)
LEMMA MaterialKept ==
    ASSUME CommitsInv, NEW h \in Handles, NEW m \in Materials, NEW sender \in Address,
           AddCiphertextMaterial(h, m, sender)
    PROVE  CiphertextTypeOK' /\ MaterialOfConsensus'
<1>1. /\ coprocessorTxSenderAddresses' \in [Handles -> [Materials -> Seq(Address)]]
      /\ \A g \in Handles, n \in Materials :
            ~(g = h /\ n = m) => coprocessorTxSenderAddresses'[g][n]
                                   = coprocessorTxSenderAddresses[g][n]
      /\ Len(coprocessorTxSenderAddresses'[h][m])
            = Len(coprocessorTxSenderAddresses[h][m]) + 1
  <2>1. /\ coprocessorTxSenderAddresses \in [Handles -> [Materials -> Seq(Address)]]
        /\ coprocessorTxSenderAddresses' =
              [coprocessorTxSenderAddresses EXCEPT ![h][m] = Append(@, sender)]
    BY DEF CommitsInv, CiphertextTypeOK, AddCiphertextMaterial
  <2> QED
    BY <2>1, AppendedInside
<1>2. coprocessorTxSenderAddresses'[h][m] # <<>>
  BY <1>1 DEF CommitsInv, CiphertextTypeOK
<1>3. CiphertextTypeOK'
  <2>1. /\ ciphertextMaterials' \in [Handles -> Materials \cup {NoMaterial}]
        /\ ctHandleConsensusHash' \in [Handles -> Materials \cup {NoMaterial}]
        /\ isCiphertextMaterialAdded' \subseteq Handles
    BY DEF CommitsInv, CiphertextTypeOK, AddCiphertextMaterial, SetMaterial
  <2> QED
    BY <1>1, <2>1, SubmissionAdded DEF CommitsInv, CiphertextTypeOK
<1>4. ASSUME NEW g \in Handles
      PROVE  IF g \in isCiphertextMaterialAdded'
             THEN /\ ciphertextMaterials'[g] \in Materials
                  /\ ctHandleConsensusHash'[g] = ciphertextMaterials'[g]
                  /\ coprocessorTxSenderAddresses'[g][ctHandleConsensusHash'[g]] # <<>>
             ELSE /\ ciphertextMaterials'[g] = NoMaterial
                  /\ ctHandleConsensusHash'[g] = NoMaterial
  <2>1. IF g \in isCiphertextMaterialAdded
        THEN /\ ciphertextMaterials[g] \in Materials
             /\ ctHandleConsensusHash[g] = ciphertextMaterials[g]
             /\ coprocessorTxSenderAddresses[g][ctHandleConsensusHash[g]] # <<>>
        ELSE /\ ciphertextMaterials[g] = NoMaterial
             /\ ctHandleConsensusHash[g] = NoMaterial
    BY DEF CommitsInv, MaterialOfConsensus, SnsCiphertextMaterial
  <2>2. \A n \in Materials : coprocessorTxSenderAddresses[g][n] # <<>> =>
                               coprocessorTxSenderAddresses'[g][n] # <<>>
    BY <1>1, <1>2
  <2>3. CASE g = h /\ ReachesConsensus(h, m)
    BY <1>2, <2>3 DEF AddCiphertextMaterial, SetMaterial, CommitsInv, CiphertextTypeOK
  <2>4. CASE ~(g = h /\ ReachesConsensus(h, m))
    <3>1. /\ g \in isCiphertextMaterialAdded' <=> g \in isCiphertextMaterialAdded
          /\ ciphertextMaterials'[g] = ciphertextMaterials[g]
          /\ ctHandleConsensusHash'[g] = ctHandleConsensusHash[g]
      BY <2>4 DEF AddCiphertextMaterial, SetMaterial, CommitsInv, CiphertextTypeOK
    <3> QED
      BY <2>1, <2>2, <3>1
  <2> QED
    BY <2>3, <2>4
<1>5. MaterialOfConsensus'
  BY <1>4 DEF MaterialOfConsensus, SnsCiphertextMaterial
<1> QED
  BY <1>3, <1>5

(* Every call to the contract keeps the invariant.                         *)
LEMMA CommitsStepInv == CommitsInv /\ CiphertextCommitsNext => CommitsInv'
<1> SUFFICES ASSUME CommitsInv, NEW h \in Handles, NEW m \in Materials,
                    NEW sender \in Address, AddCiphertextMaterial(h, m, sender)
             PROVE  CommitsInv'
  BY DEF CiphertextCommitsNext
<1>1. SubmissionsCounted'
  BY SubmissionCountedKept DEF CommitsInv
<1>2. CiphertextTypeOK' /\ MaterialOfConsensus'
  BY MaterialKept
<1> QED
  BY <1>1, <1>2 DEF CommitsInv

(* What the contract and the registry keep together.                       *)
LEMMA CommitsInductive ==
    RegistryOK /\ CommitsInv /\ [CommitsNext]_<<configVars, ciphertextVars>>
        => (RegistryOK /\ CommitsInv)'
<1> SUFFICES ASSUME RegistryOK, CommitsInv,
                    [CommitsNext]_<<configVars, ciphertextVars>>
             PROVE  RegistryOK' /\ CommitsInv'
  OBVIOUS
<1>1. CASE CiphertextCommitsNext
  BY <1>1, CommitsStepInv, RegistryStep DEF CiphertextCommitsNext
<1>2. CASE (CoprocessorConfigNext \/ AddHostChain) /\ UNCHANGED ciphertextVars
  BY <1>2, CommitsUnchanged, RegistryStep DEF ConfigNext
<1>3. CASE UNCHANGED <<configVars, ciphertextVars>>
  BY <1>3, CommitsUnchanged, RegistryStep
<1> QED
  BY <1>1, <1>2, <1>3 DEF CommitsNext

(* Counters, lists and decisions of addCiphertextMaterial agree in every   *)
(* reachable state, under thresholds that can be met.                      *)
THEOREM CommitsInvariant == CommitsSpec => [](RegistryOK /\ CommitsInv)
<1>1. CommitsInit => RegistryOK /\ CommitsInv
  BY RegistryInit, CommitsInitInv DEF CommitsInit
<1> QED
  BY <1>1, CommitsInductive, PTL DEF CommitsSpec

(* Whatever the submissions and the reconfigurations between them, what is *)
(* compared with the threshold is a number of distinct senders of one      *)
(* material, and no sender supports two materials of a handle.             *)
THEOREM SubmissionsUnique == CommitsSpec => []SubmissionsCounted
<1>1. CommitsInv => SubmissionsCounted
  BY DEF CommitsInv
<1> QED
  BY <1>1, CommitsInvariant, PTL

(* A handle reported as ready has a material, and senders to fetch it      *)
(* from.                                                                   *)
THEOREM MaterialHasSenders == CommitsSpec => []MaterialOfConsensus
<1>1. CommitsInv => MaterialOfConsensus
  BY DEF CommitsInv
<1> QED
  BY <1>1, CommitsInvariant, PTL

(* A call changes the material of no handle that has one.                  *)
LEMMA MaterialsFixed ==
    ASSUME CommitsInv, CiphertextCommitsNext
    PROVE  /\ isCiphertextMaterialAdded \subseteq isCiphertextMaterialAdded'
           /\ \A h \in isCiphertextMaterialAdded :
                 ciphertextMaterials'[h] = ciphertextMaterials[h]
BY DEF CiphertextCommitsNext, AddCiphertextMaterial, SetMaterial, ReachesConsensus,
       CommitsInv, CiphertextTypeOK

(* Every behaviour of the contract is one of the one-shot decision.        *)
THEOREM MaterialRefinement == CommitsSpec => MaterialSetOnce
<1>1. CommitsInit => CiphertextDecision!Init
  BY DEF CommitsInit, CiphertextCommitsInit, CiphertextDecision!Init, CiphertextOutcome
<1>2. CommitsInv /\ [CommitsNext]_<<configVars, ciphertextVars>>
         => [CiphertextDecision!Next]_CiphertextOutcome
  <2> SUFFICES ASSUME CommitsInv, NEW h \in Handles, NEW m \in Materials,
                      NEW sender \in Address, AddCiphertextMaterial(h, m, sender)
               PROVE  [CiphertextDecision!Next]_CiphertextOutcome
    BY DEF CommitsNext, CiphertextCommitsNext, ciphertextVars, CiphertextOutcome
  <2>1. CASE ReachesConsensus(h, m)
    <3>1. ciphertextMaterials[h] = NoMaterial
      BY <2>1 DEF ReachesConsensus, CommitsInv, MaterialOfConsensus
    <3>2. ciphertextMaterials' = [ciphertextMaterials EXCEPT ![h] = m]
      BY <2>1 DEF AddCiphertextMaterial, SetMaterial
    <3> QED
      BY <3>1, <3>2 DEF CiphertextDecision!Next, CiphertextDecision!Decide,
                        CiphertextOutcome
  <2>2. CASE ~ReachesConsensus(h, m)
    BY <2>2 DEF AddCiphertextMaterial, CiphertextOutcome
  <2> QED
    BY <2>1, <2>2
<1> QED
  BY <1>1, <1>2, CommitsInvariant, PTL
     DEF CommitsSpec, MaterialSetOnce, CiphertextDecision!Spec

----------------------------------------------------------------------------
(* MultichainACL.  The lists of votes are free of repetition, the two      *)
(* lists of a change have no sender in common, and the sets and counters   *)
(* kept beside the lists of a right say the same as the lists.             *)
AclTypeOK ==
    /\ allowCounters \in [Rights -> Nat]
    /\ allowCoprocessors \in [Rights -> SUBSET Address]
    /\ allowConsensusTxSenders \in [Rights -> Seq(Address)]
    /\ isAllowed \subseteq Rights
    /\ delegateUserDecryptionTxSenders \in [Changes -> Seq(Address)]
    /\ revokeUserDecryptionTxSenders \in [Changes -> Seq(Address)]
    /\ delegatedOrRevoked \subseteq Changes
    /\ userDecryptionDelegations \in [Delegations -> [counter : Nat, expiration : Nat]]

RightVotesDistinct ==
    \A r \in Rights :
        /\ Distinct(allowConsensusTxSenders[r])
        /\ Len(allowConsensusTxSenders[r]) = allowCounters[r]
        /\ Entries(allowConsensusTxSenders[r]) = allowCoprocessors[r]

ChangeVotesDistinct ==
    \A c \in Changes :
        /\ Distinct(delegateUserDecryptionTxSenders[c])
        /\ Distinct(revokeUserDecryptionTxSenders[c])
        /\ Entries(delegateUserDecryptionTxSenders[c])
              \cap Entries(revokeUserDecryptionTxSenders[c]) = {}

AclInv ==
    /\ AclTypeOK
    /\ RightVotesDistinct
    /\ ChangeVotesDistinct
    /\ LatestChangeStands

(* One more vote is one more entry, and keeps the votes distinct.          *)
LEMMA VoteAppended ==
    ASSUME NEW s \in Seq(Address), NEW x \in Address, Distinct(s), x \notin Entries(s)
    PROVE  /\ Append(s, x) \in Seq(Address)
           /\ Distinct(Append(s, x))
           /\ Entries(Append(s, x)) = Entries(s) \cup {x}
           /\ Len(Append(s, x)) = Len(s) + 1
<1>1. \A i \in DOMAIN s : s[i] # x
  BY DEF Entries
<1>2. Distinct(Append(s, x))
  BY <1>1, AppendDistinct
<1>3. Entries(Append(s, x)) \subseteq Entries(s) \cup {x}
  <2> SUFFICES ASSUME NEW i \in DOMAIN Append(s, x)
               PROVE  Append(s, x)[i] \in Entries(s) \cup {x}
    BY DEF Entries
  <2>1. \/ i \in DOMAIN s /\ Append(s, x)[i] = s[i]
        \/ Append(s, x)[i] = x
    BY Appended
  <2> QED
    BY <2>1 DEF Entries
<1>4. Entries(s) \cup {x} \subseteq Entries(Append(s, x))
  <2>1. ASSUME NEW i \in DOMAIN s PROVE s[i] \in Entries(Append(s, x))
    <3>1. i \in DOMAIN Append(s, x) /\ Append(s, x)[i] = s[i]
      BY Appended
    <3> QED
      BY <3>1 DEF Entries
  <2>2. x \in Entries(Append(s, x))
    <3>1. Len(s) + 1 \in DOMAIN Append(s, x) /\ Append(s, x)[Len(s) + 1] = x
      BY Appended
    <3> QED
      BY <3>1 DEF Entries
  <2> QED
    BY <2>1, <2>2 DEF Entries
<1> QED
  BY <1>2, <1>3, <1>4

(* Two lists without repetition and without a common entry make one.       *)
LEMMA ConcatDistinct ==
    ASSUME NEW s \in Seq(Address), NEW t \in Seq(Address),
           Distinct(s), Distinct(t), Entries(s) \cap Entries(t) = {}
    PROVE  Distinct(s \o t) /\ s \o t \in Seq(Address)
<1>1. /\ s \o t \in Seq(Address) /\ Len(s \o t) = Len(s) + Len(t)
      /\ DOMAIN s = 1 .. Len(s) /\ DOMAIN t = 1 .. Len(t)
      /\ DOMAIN (s \o t) = 1 .. Len(s) + Len(t)
      /\ Len(s) \in Nat /\ Len(t) \in Nat
      /\ \A i \in 1 .. Len(s) + Len(t) :
            (s \o t)[i] = IF i <= Len(s) THEN s[i] ELSE t[i - Len(s)]
  BY ConcatProperties
<1> SUFFICES ASSUME NEW i \in 1 .. Len(s) + Len(t), NEW j \in 1 .. Len(s) + Len(t),
                    (s \o t)[i] = (s \o t)[j]
             PROVE  i = j
  BY <1>1 DEF Distinct
<1>2. \A k \in 1 .. Len(s), l \in 1 .. Len(t) : s[k] # t[l]
  BY <1>1 DEF Entries
<1>3. CASE i <= Len(s) /\ j <= Len(s)
  BY <1>1, <1>3 DEF Distinct
<1>4. CASE ~(i <= Len(s)) /\ ~(j <= Len(s))
  <2>1. i - Len(s) \in DOMAIN t /\ j - Len(s) \in DOMAIN t
    BY <1>1, <1>4
  <2>2. t[i - Len(s)] = t[j - Len(s)]
    BY <1>1, <1>4
  <2>3. i - Len(s) = j - Len(s)
    BY <2>1, <2>2 DEF Distinct
  <2> QED
    BY <1>1, <2>3
<1>5. CASE i <= Len(s) /\ ~(j <= Len(s))
  BY <1>1, <1>2, <1>5
<1>6. CASE ~(i <= Len(s)) /\ j <= Len(s)
  BY <1>1, <1>2, <1>6
<1> QED
  BY <1>3, <1>4, <1>5, <1>6

(* So the counters and the lengths compared with the threshold are numbers *)
(* of distinct senders.                                                    *)
LEMMA AclVotesCounted == AclInv => VotesCounted
<1> SUFFICES ASSUME AclInv PROVE VotesCounted
  OBVIOUS
<1>1. ASSUME NEW r \in Rights
      PROVE  /\ allowCounters[r] = Cardinality(allowCoprocessors[r])
             /\ Len(allowConsensusTxSenders[r]) = allowCounters[r]
             /\ Entries(allowConsensusTxSenders[r]) = allowCoprocessors[r]
  <2>1. allowConsensusTxSenders[r] \in Seq(Address)
    BY DEF AclInv, AclTypeOK
  <2>2. Cardinality(Entries(allowConsensusTxSenders[r]))
          = Len(allowConsensusTxSenders[r])
    BY <2>1, DistinctEntries DEF AclInv, RightVotesDistinct, Entries
  <2> QED
    BY <2>2 DEF AclInv, RightVotesDistinct
<1>2. ASSUME NEW c \in Changes
      PROVE  LET votes == delegateUserDecryptionTxSenders[c]
                            \o revokeUserDecryptionTxSenders[c]
             IN  Cardinality(Entries(votes)) = Len(votes)
  <2> DEFINE votes == delegateUserDecryptionTxSenders[c]
                        \o revokeUserDecryptionTxSenders[c]
  <2>1. Distinct(votes) /\ votes \in Seq(Address)
    BY ConcatDistinct DEF AclInv, AclTypeOK, ChangeVotesDistinct
  <2> HIDE DEF votes
  <2>2. Cardinality(Entries(votes)) = Len(votes)
    BY <2>1, DistinctEntries DEF Entries
  <2> QED
    BY <2>2 DEF votes
<1> QED
  BY <1>1, <1>2 DEF VotesCounted

(* A freshly initialised contract has neither votes nor decisions.         *)
LEMMA AclInitInv == MultichainACLInit => AclInv
<1> SUFFICES ASSUME MultichainACLInit PROVE AclInv
  OBVIOUS
<1> USE DEF MultichainACLInit
<1>1. AclTypeOK
  <2>1. <<>> \in Seq(Address) /\ 0 \in Nat
    OBVIOUS
  <2> QED
    BY <2>1 DEF AclTypeOK
<1>2. RightVotesDistinct /\ ChangeVotesDistinct
  BY DEF RightVotesDistinct, ChangeVotesDistinct, Distinct, Entries
<1>3. LatestChangeStands
  BY DEF LatestChangeStands
<1> QED
  BY <1>1, <1>2, <1>3 DEF AclInv

(* Nothing else writes the contract's storage.                             *)
LEMMA AclUnchanged == AclInv /\ UNCHANGED aclVars => AclInv'
BY DEF AclInv, aclVars, allowVars, delegationVars, AclTypeOK, RightVotesDistinct,
       ChangeVotesDistinct, LatestChangeStands

(* allowPublicDecrypt and allowAccount record a sender that did not vote   *)
(* on the right yet.                                                       *)
LEMMA AllowInv ==
    ASSUME AclInv, NEW r \in Rights, NEW sender \in Address, Allow(r, sender)
    PROVE  AclInv'
<1> DEFINE votes == allowConsensusTxSenders[r]
<1>1. votes \in Seq(Address) /\ Distinct(votes) /\ sender \notin Entries(votes)
  BY DEF AclInv, AclTypeOK, RightVotesDistinct, Allow, AlreadyAllowed
<1>2. /\ Append(votes, sender) \in Seq(Address)
      /\ Distinct(Append(votes, sender))
      /\ Entries(Append(votes, sender)) = Entries(votes) \cup {sender}
      /\ Len(Append(votes, sender)) = Len(votes) + 1
  BY <1>1, VoteAppended
<1>3. \A q \in Rights :
         /\ allowConsensusTxSenders'[q] =
               IF q = r THEN Append(votes, sender) ELSE allowConsensusTxSenders[q]
         /\ allowCounters'[q] =
               IF q = r THEN allowCounters[q] + 1 ELSE allowCounters[q]
         /\ allowCoprocessors'[q] =
               IF q = r THEN allowCoprocessors[q] \cup {sender} ELSE allowCoprocessors[q]
  BY DEF Allow, AclInv, AclTypeOK
<1>4. AclTypeOK'
  <2>1. /\ allowConsensusTxSenders' \in [Rights -> Seq(Address)]
        /\ allowCounters' \in [Rights -> Nat]
        /\ allowCoprocessors' \in [Rights -> SUBSET Address]
    BY <1>2 DEF Allow, AclInv, AclTypeOK
  <2>2. isAllowed' \subseteq Rights
    BY DEF Allow, AclInv, AclTypeOK
  <2>3. UNCHANGED delegationVars
    BY DEF Allow
  <2> QED
    BY <2>1, <2>2, <2>3 DEF delegationVars, AclInv, AclTypeOK
<1>5. RightVotesDistinct'
  <2> SUFFICES ASSUME NEW q \in Rights
               PROVE  /\ Distinct(allowConsensusTxSenders'[q])
                      /\ Len(allowConsensusTxSenders'[q]) = allowCounters'[q]
                      /\ Entries(allowConsensusTxSenders'[q]) = allowCoprocessors'[q]
    BY DEF RightVotesDistinct
  <2>1. /\ Distinct(allowConsensusTxSenders[q])
        /\ Len(allowConsensusTxSenders[q]) = allowCounters[q]
        /\ Entries(allowConsensusTxSenders[q]) = allowCoprocessors[q]
    BY DEF AclInv, RightVotesDistinct
  <2>2. CASE q = r
    BY <1>2, <1>3, <2>1, <2>2
  <2>3. CASE q # r
    BY <1>3, <2>1, <2>3
  <2> QED
    BY <2>2, <2>3
<1>6. ChangeVotesDistinct' /\ LatestChangeStands'
  BY DEF Allow, delegationVars, AclInv, ChangeVotesDistinct, LatestChangeStands
<1> QED
  BY <1>4, <1>5, <1>6 DEF AclInv

(* A change that reaches its consensus replaces an older one, or its call  *)
(* reverts: whichever vote completes it, the delegation keeps its latest   *)
(* change.                                                                 *)
LEMMA ChangeApplied ==
    ASSUME AclInv, NEW c \in Changes, NEW votes, NEW expiration \in {0, c.expiration},
           ApplyOnConsensus(c, votes, expiration)
    PROVE  /\ LatestChangeStands'
           /\ delegatedOrRevoked' \subseteq Changes
           /\ userDecryptionDelegations'
                 \in [Delegations -> [counter : Nat, expiration : Nat]]
           /\ \A d \in Delegations :
                 userDecryptionDelegations'[d] # userDecryptionDelegations[d] =>
                     userDecryptionDelegations'[d].counter
                         > userDecryptionDelegations[d].counter
<1>1. /\ c.delegation \in Delegations /\ c.counter \in Nat /\ expiration \in Nat
      /\ \A b \in Changes : b.counter \in Nat
  <2>1. \A b \in Changes : /\ b.delegation \in Delegations
                            /\ b.counter \in DelegationCounters
                            /\ b.expiration \in ExpirationDates
    BY DEF Changes
  <2>2. \A n \in DelegationCounters \cup ExpirationDates : n \in Nat
    BY AclAssumption
  <2>3. c.expiration \in Nat /\ 0 \in Nat
    BY <2>1, <2>2
  <2> QED
    BY <2>1, <2>2, <2>3
<1>2. /\ delegatedOrRevoked \subseteq Changes
      /\ userDecryptionDelegations \in [Delegations -> [counter : Nat, expiration : Nat]]
  BY DEF AclInv, AclTypeOK
<1>3. CASE ~(c \notin delegatedOrRevoked /\ votes >= coprocessorThreshold)
  BY <1>2, <1>3 DEF ApplyOnConsensus, AclInv, LatestChangeStands
<1>4. CASE c \notin delegatedOrRevoked /\ votes >= coprocessorThreshold
  <2>1. /\ c.counter > userDecryptionDelegations[c.delegation].counter
        /\ userDecryptionDelegations' =
              [userDecryptionDelegations EXCEPT
                  ![c.delegation] = [counter |-> c.counter, expiration |-> expiration]]
        /\ delegatedOrRevoked' = delegatedOrRevoked \cup {c}
    BY <1>4 DEF ApplyOnConsensus
  <2>2. userDecryptionDelegations'[c.delegation]
           = [counter |-> c.counter, expiration |-> expiration]
    BY <1>1, <1>2, <2>1
  <2>3. \A d \in Delegations : d # c.delegation =>
           userDecryptionDelegations'[d] = userDecryptionDelegations[d]
    BY <1>2, <2>1
  <2>4. LatestChangeStands'
    <3> SUFFICES ASSUME NEW d \in Delegations
                 PROVE  LET decided == {b \in delegatedOrRevoked' : b.delegation = d}
                            current == userDecryptionDelegations'[d]
                        IN  /\ \A b \in decided : b.counter <= current.counter
                            /\ \A a, b \in decided : a.counter = b.counter => a = b
                            /\ current.counter > 0 =>
                                  \E b \in decided :
                                      /\ b.counter = current.counter
                                      /\ current.expiration \in {0, b.expiration}
      BY DEF LatestChangeStands
    <3>1. LET decided == {b \in delegatedOrRevoked : b.delegation = d}
              current == userDecryptionDelegations[d]
          IN  /\ \A b \in decided : b.counter <= current.counter
              /\ \A a, b \in decided : a.counter = b.counter => a = b
              /\ current.counter > 0 =>
                    \E b \in decided : /\ b.counter = current.counter
                                       /\ current.expiration \in {0, b.expiration}
      BY DEF AclInv, LatestChangeStands
    <3>2. CASE d = c.delegation
      <4>1. \A b \in delegatedOrRevoked :
               b.delegation = d => b.counter < c.counter
        BY <1>1, <1>2, <2>1, <3>1, <3>2
      <4>2. \A b \in delegatedOrRevoked' :
               b.delegation = d => b = c \/ (b \in delegatedOrRevoked /\ b.counter < c.counter)
        BY <2>1, <4>1
      <4>3. c \in delegatedOrRevoked' /\ c.delegation = d
        BY <2>1, <3>2
      <4>4. \A b \in delegatedOrRevoked' : b.counter \in Nat
        BY <1>1, <1>2, <2>1
      <4> QED
        BY <1>1, <2>2, <3>1, <3>2, <4>2, <4>3, <4>4
    <3>3. CASE d # c.delegation
      <4>1. {b \in delegatedOrRevoked' : b.delegation = d}
               = {b \in delegatedOrRevoked : b.delegation = d}
        BY <2>1, <3>3
      <4> QED
        BY <2>3, <3>1, <3>3, <4>1
    <3> QED
      BY <3>2, <3>3
  <2>5. \A d \in Delegations :
           userDecryptionDelegations'[d] # userDecryptionDelegations[d] =>
               userDecryptionDelegations'[d].counter > userDecryptionDelegations[d].counter
    BY <2>1, <2>2, <2>3
  <2> QED
    BY <1>1, <1>2, <2>1, <2>4, <2>5
<1> QED
  BY <1>3, <1>4

(* delegateUserDecryption: the sender is in neither list of the change.    *)
LEMMA DelegateInv ==
    ASSUME AclInv, NEW c \in Changes, NEW sender \in Address,
           DelegateUserDecryption(c, sender)
    PROVE  AclInv'
<1> DEFINE votes == delegateUserDecryptionTxSenders[c]
<1>1. /\ votes \in Seq(Address) /\ Distinct(votes) /\ sender \notin Entries(votes)
      /\ sender \notin Entries(revokeUserDecryptionTxSenders[c])
  BY DEF AclInv, AclTypeOK, ChangeVotesDistinct, DelegateUserDecryption,
         AlreadyDelegatedOrRevoked
<1>2. /\ Append(votes, sender) \in Seq(Address)
      /\ Distinct(Append(votes, sender))
      /\ Entries(Append(votes, sender)) = Entries(votes) \cup {sender}
  BY <1>1, VoteAppended
<1>3. /\ delegateUserDecryptionTxSenders' =
            [delegateUserDecryptionTxSenders EXCEPT ![c] = Append(votes, sender)]
      /\ UNCHANGED <<revokeUserDecryptionTxSenders, allowVars>>
  BY DEF DelegateUserDecryption
<1>4. \A b \in Changes :
         delegateUserDecryptionTxSenders'[b] =
             IF b = c THEN Append(votes, sender) ELSE delegateUserDecryptionTxSenders[b]
  BY <1>3 DEF AclInv, AclTypeOK
<1>5. /\ LatestChangeStands'
      /\ delegatedOrRevoked' \subseteq Changes
      /\ userDecryptionDelegations'
            \in [Delegations -> [counter : Nat, expiration : Nat]]
  BY ChangeApplied DEF DelegateUserDecryption
<1>6. AclTypeOK'
  <2>1. delegateUserDecryptionTxSenders' \in [Changes -> Seq(Address)]
    BY <1>2, <1>3 DEF AclInv, AclTypeOK
  <2> QED
    BY <1>3, <1>5, <2>1 DEF allowVars, AclInv, AclTypeOK
<1>7. RightVotesDistinct'
  BY <1>3 DEF allowVars, AclInv, RightVotesDistinct
<1>8. ChangeVotesDistinct'
  <2> SUFFICES ASSUME NEW b \in Changes
               PROVE  /\ Distinct(delegateUserDecryptionTxSenders'[b])
                      /\ Distinct(revokeUserDecryptionTxSenders'[b])
                      /\ Entries(delegateUserDecryptionTxSenders'[b])
                            \cap Entries(revokeUserDecryptionTxSenders'[b]) = {}
    BY DEF ChangeVotesDistinct
  <2>1. /\ Distinct(delegateUserDecryptionTxSenders[b])
        /\ Distinct(revokeUserDecryptionTxSenders[b])
        /\ Entries(delegateUserDecryptionTxSenders[b])
              \cap Entries(revokeUserDecryptionTxSenders[b]) = {}
    BY DEF AclInv, ChangeVotesDistinct
  <2>2. CASE b = c
    BY <1>1, <1>2, <1>3, <1>4, <2>1, <2>2
  <2>3. CASE b # c
    BY <1>3, <1>4, <2>1, <2>3
  <2> QED
    BY <2>2, <2>3
<1> QED
  BY <1>5, <1>6, <1>7, <1>8 DEF AclInv

(* revokeUserDecryptionDelegation, the same with the other list.           *)
LEMMA RevokeInv ==
    ASSUME AclInv, NEW c \in Changes, NEW sender \in Address,
           RevokeUserDecryptionDelegation(c, sender)
    PROVE  AclInv'
<1> DEFINE votes == revokeUserDecryptionTxSenders[c]
<1>1. /\ votes \in Seq(Address) /\ Distinct(votes) /\ sender \notin Entries(votes)
      /\ sender \notin Entries(delegateUserDecryptionTxSenders[c])
  BY DEF AclInv, AclTypeOK, ChangeVotesDistinct, RevokeUserDecryptionDelegation,
         AlreadyDelegatedOrRevoked
<1>2. /\ Append(votes, sender) \in Seq(Address)
      /\ Distinct(Append(votes, sender))
      /\ Entries(Append(votes, sender)) = Entries(votes) \cup {sender}
  BY <1>1, VoteAppended
<1>3. /\ revokeUserDecryptionTxSenders' =
            [revokeUserDecryptionTxSenders EXCEPT ![c] = Append(votes, sender)]
      /\ UNCHANGED <<delegateUserDecryptionTxSenders, allowVars>>
  BY DEF RevokeUserDecryptionDelegation
<1>4. \A b \in Changes :
         revokeUserDecryptionTxSenders'[b] =
             IF b = c THEN Append(votes, sender) ELSE revokeUserDecryptionTxSenders[b]
  BY <1>3 DEF AclInv, AclTypeOK
<1>5. /\ LatestChangeStands'
      /\ delegatedOrRevoked' \subseteq Changes
      /\ userDecryptionDelegations'
            \in [Delegations -> [counter : Nat, expiration : Nat]]
  BY ChangeApplied DEF RevokeUserDecryptionDelegation
<1>6. AclTypeOK'
  <2>1. revokeUserDecryptionTxSenders' \in [Changes -> Seq(Address)]
    BY <1>2, <1>3 DEF AclInv, AclTypeOK
  <2> QED
    BY <1>3, <1>5, <2>1 DEF allowVars, AclInv, AclTypeOK
<1>7. RightVotesDistinct'
  BY <1>3 DEF allowVars, AclInv, RightVotesDistinct
<1>8. ChangeVotesDistinct'
  <2> SUFFICES ASSUME NEW b \in Changes
               PROVE  /\ Distinct(delegateUserDecryptionTxSenders'[b])
                      /\ Distinct(revokeUserDecryptionTxSenders'[b])
                      /\ Entries(delegateUserDecryptionTxSenders'[b])
                            \cap Entries(revokeUserDecryptionTxSenders'[b]) = {}
    BY DEF ChangeVotesDistinct
  <2>1. /\ Distinct(delegateUserDecryptionTxSenders[b])
        /\ Distinct(revokeUserDecryptionTxSenders[b])
        /\ Entries(delegateUserDecryptionTxSenders[b])
              \cap Entries(revokeUserDecryptionTxSenders[b]) = {}
    BY DEF AclInv, ChangeVotesDistinct
  <2>2. CASE b = c
    BY <1>1, <1>2, <1>3, <1>4, <2>1, <2>2
  <2>3. CASE b # c
    BY <1>3, <1>4, <2>1, <2>3
  <2> QED
    BY <2>2, <2>3
<1> QED
  BY <1>5, <1>6, <1>7, <1>8 DEF AclInv

(* Every call to the contract is one of three.                             *)
LEMMA AclCases ==
    ASSUME MultichainACLNext
    PROVE  \/ \E r \in Rights, sender \in Address : Allow(r, sender)
           \/ \E c \in Changes, sender \in Address : DelegateUserDecryption(c, sender)
           \/ \E c \in Changes, sender \in Address :
                  RevokeUserDecryptionDelegation(c, sender)
BY DEF MultichainACLNext, AllowNext, DelegationNext, AllowPublicDecrypt, AllowAccount,
       Rights

(* Every call to the contract keeps the invariant.                         *)
LEMMA AclStepInv == AclInv /\ MultichainACLNext => AclInv'
BY AclCases, AllowInv, DelegateInv, RevokeInv

(* What the contract and the registry keep together.                       *)
LEMMA AclInductive ==
    RegistryOK /\ AclInv /\ [AclNext]_<<configVars, aclVars>> => (RegistryOK /\ AclInv)'
<1> SUFFICES ASSUME RegistryOK, AclInv, [AclNext]_<<configVars, aclVars>>
             PROVE  RegistryOK' /\ AclInv'
  OBVIOUS
<1>1. CASE MultichainACLNext
  BY <1>1, AclStepInv, RegistryStep DEF MultichainACLNext
<1>2. CASE (CoprocessorConfigNext \/ AddHostChain) /\ UNCHANGED aclVars
  BY <1>2, AclUnchanged, RegistryStep DEF ConfigNext
<1>3. CASE UNCHANGED <<configVars, aclVars>>
  BY <1>3, AclUnchanged, RegistryStep
<1> QED
  BY <1>1, <1>2, <1>3 DEF AclNext

(* Lists, sets, counters and decisions of the contract agree in every      *)
(* reachable state, under thresholds that can be met.                      *)
THEOREM AclInvariant == AclSpec => [](RegistryOK /\ AclInv)
<1>1. AclInit => RegistryOK /\ AclInv
  BY RegistryInit, AclInitInv DEF AclInit
<1> QED
  BY <1>1, AclInductive, PTL DEF AclSpec

(* No coprocessor's vote on a right or on a change counts twice, in no     *)
(* order of votes, revocations and reconfigurations.                       *)
THEOREM VotesUnique == AclSpec => []VotesCounted
BY AclInvariant, AclVotesCounted, PTL

(* Votes on different changes of a delegation may complete in any order:   *)
(* the delegation stands where its latest decided change put it.           *)
THEOREM LatestChange == AclSpec => []LatestChangeStands
<1>1. AclInv => LatestChangeStands
  BY DEF AclInv
<1> QED
  BY <1>1, AclInvariant, PTL

(* A call withdraws no right, grants one only to a threshold of distinct   *)
(* senders, and moves a delegation only to a later change.                 *)
LEMMA AclStepRights ==
    ASSUME AclInv, VotesCounted', MultichainACLNext
    PROVE  /\ isAllowed \subseteq isAllowed'
           /\ \A r \in isAllowed' \ isAllowed :
                 Cardinality(Entries(allowConsensusTxSenders'[r])) >= coprocessorThreshold
           /\ \A d \in Delegations :
                 userDecryptionDelegations'[d] # userDecryptionDelegations[d] =>
                     userDecryptionDelegations'[d].counter
                         > userDecryptionDelegations[d].counter
<1>1. ASSUME NEW r \in Rights, NEW sender \in Address, Allow(r, sender)
      PROVE  /\ isAllowed \subseteq isAllowed'
             /\ \A q \in isAllowed' \ isAllowed :
                   Cardinality(Entries(allowConsensusTxSenders'[q]))
                       >= coprocessorThreshold
             /\ userDecryptionDelegations' = userDecryptionDelegations
  <2>1. /\ isAllowed' = IF allowCounters'[r] >= coprocessorThreshold
                        THEN isAllowed \cup {r} ELSE isAllowed
        /\ userDecryptionDelegations' = userDecryptionDelegations
    BY <1>1 DEF Allow, delegationVars
  <2>2. Cardinality(Entries(allowConsensusTxSenders'[r])) = allowCounters'[r]
    BY DEF VotesCounted
  <2> QED
    BY <2>1, <2>2
<1>2. ASSUME NEW c \in Changes, NEW sender \in Address,
             DelegateUserDecryption(c, sender) \/ RevokeUserDecryptionDelegation(c, sender)
      PROVE  /\ isAllowed' = isAllowed
             /\ \A d \in Delegations :
                   userDecryptionDelegations'[d] # userDecryptionDelegations[d] =>
                       userDecryptionDelegations'[d].counter
                           > userDecryptionDelegations[d].counter
  BY <1>2, ChangeApplied
     DEF DelegateUserDecryption, RevokeUserDecryptionDelegation, allowVars
<1> QED
  BY <1>1, <1>2, AclCases

(* Rights are never withdrawn, and are granted only by a threshold of      *)
(* distinct senders; delegations only move to later changes.               *)
THEOREM RightsByConsensus == AclSpec => RightsOnlyByConsensus
<1>1. AclInv /\ VotesCounted' /\ [AclNext]_<<configVars, aclVars>> =>
        [/\ isAllowed \subseteq isAllowed'
         /\ \A r \in isAllowed' \ isAllowed :
               Cardinality(Entries(allowConsensusTxSenders'[r])) >= coprocessorThreshold
         /\ \A d \in Delegations :
               userDecryptionDelegations'[d] # userDecryptionDelegations[d] =>
                   userDecryptionDelegations'[d].counter
                       > userDecryptionDelegations[d].counter]_<<configVars, aclVars>>
  <2> SUFFICES ASSUME AclInv, VotesCounted', AclNext
               PROVE  /\ isAllowed \subseteq isAllowed'
                      /\ \A r \in isAllowed' \ isAllowed :
                            Cardinality(Entries(allowConsensusTxSenders'[r]))
                                >= coprocessorThreshold
                      /\ \A d \in Delegations :
                            userDecryptionDelegations'[d] # userDecryptionDelegations[d] =>
                                userDecryptionDelegations'[d].counter
                                    > userDecryptionDelegations[d].counter
    OBVIOUS
  <2>1. CASE MultichainACLNext
    BY <2>1, AclStepRights
  <2>2. CASE UNCHANGED aclVars
    BY <2>2 DEF aclVars, allowVars, delegationVars
  <2> QED
    BY <2>1, <2>2 DEF AclNext
<1> QED
  BY <1>1, AclInvariant, AclVotesCounted, PTL DEF AclSpec, RightsOnlyByConsensus

----------------------------------------------------------------------------
(* Decryption.  What its storage and the events of its requests hold.      *)
DecryptionTypeOK ==
    /\ publicDecryptionCounter
           \in PublicDecryptBase .. PublicDecryptBase + MaxPublicRequests
    /\ userDecryptionCounter \in UserDecryptBase .. UserDecryptBase + MaxUserRequests
    /\ requests \in [DecryptionIds ->
                        [handles : Seq(Handles), materials : Seq(Materials),
                         accounts : SUBSET Accounts]]
    /\ kmsNodeAlreadySigned \in [DecryptionIds -> SUBSET Address]
    /\ verifiedPublicDecryptSignatures
           \in [PublicIds -> [DecryptDigests -> Seq(Address)]]
    /\ consensusTxSenderAddresses
           \in [DecryptionIds -> [DecryptDigests \cup {NoDecryptDigest} -> Seq(Address)]]
    /\ decryptionDone \subseteq DecryptionIds
    /\ decryptionConsensusDigest \in [DecryptionIds -> DecryptDigests \cup {NoDecryptDigest}]

(* What RequestsStayAuthorised says of the event r of one request, under   *)
(* the given materials and rights.                                         *)
Authorised(id, r, materials, added, allowed) ==
    /\ r.materials = [i \in DOMAIN r.handles |-> materials[r.handles[i]]]
    /\ \A i, j \in DOMAIN r.materials : KeyIdOf[r.materials[i]] = KeyIdOf[r.materials[j]]
    /\ id \in PublicIds =>
           \A i \in DOMAIN r.handles :
               <<r.handles[i], Public>> \in allowed /\ r.handles[i] \in added
    /\ id \in UserIds =>
           \E u \in r.accounts : \A i \in DOMAIN r.handles :
               /\ <<r.handles[i], u>> \in allowed
               /\ \E c \in r.accounts \ {u} : <<r.handles[i], c>> \in allowed

(* The handles of a request had their materials when it was made.          *)
RequestsHaveMaterials ==
    \A id \in DecryptionIds :
        Requested(id) => Entries(requests[id].handles) \subseteq isCiphertextMaterialAdded

RequestsInv == RequestsHaveMaterials /\ RequestsStayAuthorised

SignersFinite == \A id \in DecryptionIds : IsFiniteSet(kmsNodeAlreadySigned[id])

AnswersInv == SignersFinite /\ AnswersCounted

IInv ==
    /\ RegistryOK
    /\ CommitsInv
    /\ AclInv
    /\ DecryptionTypeOK
    /\ RequestsInv
    /\ AnswersInv

----------------------------------------------------------------------------
(* Identifiers of public and of user decryptions never meet.               *)
LEMMA IdsDisjoint ==
    /\ PublicIds \subseteq Nat /\ UserIds \subseteq Nat
    /\ \A id \in PublicIds : PublicDecryptBase < id /\ id < UserDecryptBase
    /\ \A id \in UserIds : UserDecryptBase < id
    /\ PublicIds \cap UserIds = {}
<1>1. IdSpan \in Nat /\ MaxPublicRequests \in 0 .. IdSpan - 1
                    /\ MaxUserRequests \in 0 .. IdSpan - 1
  BY DecryptionAssumption, IdSpanAssumption
<1>2. PublicDecryptBase = IdSpan /\ UserDecryptBase = IdSpan + IdSpan
  BY <1>1 DEF PublicDecryptBase, UserDecryptBase
<1>3. \A id \in PublicIds : id \in Nat /\ PublicDecryptBase < id /\ id < UserDecryptBase
  BY <1>1, <1>2 DEF PublicIds
<1>4. \A id \in UserIds : id \in Nat /\ UserDecryptBase < id
  BY <1>1, <1>2 DEF UserIds
<1>5. ASSUME NEW id \in PublicIds, id \in UserIds PROVE FALSE
  <2>1. id \in Nat /\ id < UserDecryptBase /\ UserDecryptBase < id /\ UserDecryptBase \in Nat
    BY <1>1, <1>2, <1>3, <1>4, <1>5
  <2> QED
    BY <2>1
<1> QED
  BY <1>3, <1>4, <1>5

(* Each of the two counters tells which identifiers of its kind were used. *)
LEMMA RequestedIds ==
    ASSUME DecryptionTypeOK
    PROVE  /\ \A id \in PublicIds : Requested(id) <=> id <= publicDecryptionCounter
           /\ \A id \in UserIds : Requested(id) <=> id <= userDecryptionCounter
<1>1. IdSpan \in Nat /\ MaxPublicRequests \in 0 .. IdSpan - 1
                    /\ MaxUserRequests \in 0 .. IdSpan - 1
  BY DecryptionAssumption, IdSpanAssumption
<1>2. PublicDecryptBase = IdSpan /\ UserDecryptBase = IdSpan + IdSpan
  BY <1>1 DEF PublicDecryptBase, UserDecryptBase
<1>3. /\ publicDecryptionCounter \in Int /\ publicDecryptionCounter < UserDecryptBase
      /\ userDecryptionCounter \in Int
  BY <1>1, <1>2 DEF DecryptionTypeOK
<1>4. ASSUME NEW id \in PublicIds PROVE Requested(id) <=> id <= publicDecryptionCounter
  <2>1. id \in Nat /\ PublicDecryptBase < id /\ ~(UserDecryptBase < id)
    BY <1>1, <1>2, IdsDisjoint
  <2> QED
    BY <2>1 DEF Requested
<1>5. ASSUME NEW id \in UserIds PROVE Requested(id) <=> id <= userDecryptionCounter
  <2>1. id \in Nat /\ UserDecryptBase < id /\ ~(id <= publicDecryptionCounter)
    BY <1>1, <1>2, <1>3, IdsDisjoint
  <2> QED
    BY <2>1 DEF Requested
<1> QED
  BY <1>4, <1>5

----------------------------------------------------------------------------
(* The calls of the other contracts.                                       *)

(* Rights are only added.                                                  *)
LEMMA RightsKept == MultichainACLNext => isAllowed \subseteq isAllowed'
<1> SUFFICES ASSUME MultichainACLNext PROVE isAllowed \subseteq isAllowed'
  OBVIOUS
<1>1. ASSUME NEW r \in Rights, NEW sender \in Address, Allow(r, sender)
      PROVE  isAllowed \subseteq isAllowed'
  BY <1>1 DEF Allow
<1>2. ASSUME NEW c \in Changes, NEW sender \in Address,
             DelegateUserDecryption(c, sender) \/ RevokeUserDecryptionDelegation(c, sender)
      PROVE  isAllowed \subseteq isAllowed'
  BY <1>2 DEF DelegateUserDecryption, RevokeUserDecryptionDelegation, allowVars
<1> QED
  BY <1>1, <1>2, AclCases

(* The property, request by request, before and after a step.              *)
LEMMA AuthorisedEach ==
    /\ RequestsStayAuthorised <=>
          \A id \in DecryptionIds :
             /\ Requested(id) <=> requests[id] # NoRequest
             /\ Requested(id) => Authorised(id, requests[id], ciphertextMaterials,
                                            isCiphertextMaterialAdded, isAllowed)
    /\ RequestsStayAuthorised' <=>
          \A id \in DecryptionIds :
             /\ Requested(id)' <=> requests'[id] # NoRequest
             /\ Requested(id)' => Authorised(id, requests'[id], ciphertextMaterials',
                                             isCiphertextMaterialAdded', isAllowed')
BY DEF RequestsStayAuthorised, Authorised, MaterialsOf, IsPublicDecryptionReady

(* What a request needs is monotone in the rights and the materials.       *)
LEMMA AuthorisedMonotone ==
    ASSUME NEW id \in DecryptionIds, NEW r, NEW materials, NEW added, NEW allowed,
           NEW newMaterials, NEW newAdded, NEW newAllowed,
           Authorised(id, r, materials, added, allowed),
           Entries(r.handles) \subseteq added,
           added \subseteq newAdded, allowed \subseteq newAllowed,
           \A h \in added : newMaterials[h] = materials[h]
    PROVE  Authorised(id, r, newMaterials, newAdded, newAllowed)
<1>1. \A i \in DOMAIN r.handles : newMaterials[r.handles[i]] = materials[r.handles[i]]
  BY DEF Entries
<1>2. r.materials = [i \in DOMAIN r.handles |-> newMaterials[r.handles[i]]]
  BY <1>1 DEF Authorised
<1> QED
  BY <1>2 DEF Authorised

(* So no call to another contract takes from a request what it needs.      *)
LEMMA RequestStays ==
    ASSUME RequestsInv,
           UNCHANGED <<publicDecryptionCounter, userDecryptionCounter, requests>>,
           isAllowed \subseteq isAllowed',
           isCiphertextMaterialAdded \subseteq isCiphertextMaterialAdded',
           \A h \in isCiphertextMaterialAdded : ciphertextMaterials'[h] = ciphertextMaterials[h]
    PROVE  RequestsInv'
<1>1. \A id \in DecryptionIds : Requested(id)' <=> Requested(id)
  BY DEF Requested
<1>2. RequestsHaveMaterials'
  BY <1>1 DEF RequestsHaveMaterials, RequestsInv
<1>3. ASSUME NEW id \in DecryptionIds
      PROVE  /\ Requested(id)' <=> requests'[id] # NoRequest
             /\ Requested(id)' => Authorised(id, requests'[id], ciphertextMaterials',
                                             isCiphertextMaterialAdded', isAllowed')
  <2>1. /\ Requested(id) <=> requests[id] # NoRequest
        /\ Requested(id) => Authorised(id, requests[id], ciphertextMaterials,
                                       isCiphertextMaterialAdded, isAllowed)
    BY AuthorisedEach DEF RequestsInv
  <2>2. Requested(id) => Entries(requests[id].handles) \subseteq isCiphertextMaterialAdded
    BY DEF RequestsInv, RequestsHaveMaterials
  <2>3. Requested(id) => Authorised(id, requests[id], ciphertextMaterials',
                                    isCiphertextMaterialAdded', isAllowed')
    BY <2>1, <2>2, AuthorisedMonotone
  <2> QED
    BY <1>1, <2>1, <2>3
<1> QED
  BY <1>2, <1>3, AuthorisedEach DEF RequestsInv

(* The answers are those of before when no node answers.                   *)
LEMMA AnswersStay ==
    ASSUME AnswersInv, UNCHANGED answerVars,
           \A id \in DecryptionIds : Requested(id) => Requested(id)'
    PROVE  AnswersInv'
<1>1. SignersFinite'
  BY DEF AnswersInv, SignersFinite, answerVars
<1>2. AnswersCounted'
  BY DEF AnswersInv, AnswersCounted, answerVars
<1> QED
  BY <1>1, <1>2 DEF AnswersInv

----------------------------------------------------------------------------
(* Requests.                                                               *)

(* A request under a fresh identifier, authorised when it is made.         *)
LEMMA RequestAdded ==
    ASSUME DecryptionTypeOK, RequestsInv, AnswersInv, NEW id \in DecryptionIds, NEW r,
           r # NoRequest,
           Entries(r.handles) \subseteq isCiphertextMaterialAdded,
           Authorised(id, r, ciphertextMaterials, isCiphertextMaterialAdded, isAllowed),
           requests' = [requests EXCEPT ![id] = r],
           \A k \in DecryptionIds : Requested(k)' <=> Requested(k) \/ k = id,
           UNCHANGED <<ciphertextVars, aclVars, answerVars>>
    PROVE  RequestsInv' /\ AnswersInv'
<1>1. \A k \in DecryptionIds : requests'[k] = IF k = id THEN r ELSE requests[k]
  BY DEF DecryptionTypeOK
<1>2. UNCHANGED <<ciphertextMaterials, isCiphertextMaterialAdded, isAllowed>>
  BY DEF ciphertextVars, aclVars, allowVars
<1>3. RequestsHaveMaterials'
  BY <1>1, <1>2 DEF RequestsInv, RequestsHaveMaterials
<1>4. RequestsStayAuthorised'
  BY <1>1, <1>2, AuthorisedEach DEF RequestsInv
<1>5. AnswersInv'
  BY AnswersStay
<1> QED
  BY <1>3, <1>4, <1>5 DEF RequestsInv

(* The materials the contract looks up for the handles of a request.       *)
LEMMA MaterialsLookup ==
    ASSUME CommitsInv, NEW list \in Seq(Handles), MaterialsReady(list)
    PROVE  /\ MaterialsOf(list) \in Seq(Materials)
           /\ Entries(list) \subseteq isCiphertextMaterialAdded
           /\ \A i, j \in DOMAIN MaterialsOf(list) :
                 KeyIdOf[MaterialsOf(list)[i]] = KeyIdOf[MaterialsOf(list)[j]]
<1>1. Entries(list) \subseteq isCiphertextMaterialAdded
  BY DEF MaterialsReady
<1>2. \A i \in DOMAIN list : ciphertextMaterials[list[i]] \in Materials
  BY <1>1 DEF Entries, CommitsInv, CiphertextTypeOK, MaterialOfConsensus
<1>3. DOMAIN list = 1 .. Len(list) /\ Len(list) \in Nat
  OBVIOUS
<1>4. MaterialsOf(list) \in [1 .. Len(list) -> Materials]
  BY <1>2, <1>3 DEF MaterialsOf
<1>5. MaterialsOf(list) \in Seq(Materials)
  BY <1>3, <1>4, SeqDef
<1>6. \A i, j \in DOMAIN MaterialsOf(list) :
         KeyIdOf[MaterialsOf(list)[i]] = KeyIdOf[MaterialsOf(list)[j]]
  <2>1. \A i \in DOMAIN list : KeyIdOf[ciphertextMaterials[list[i]]]
                                  = KeyIdOf[ciphertextMaterials[list[1]]]
    BY DEF MaterialsReady
  <2>2. \A i \in DOMAIN list : KeyIdOf[MaterialsOf(list)[i]]
                                  = KeyIdOf[ciphertextMaterials[list[1]]]
    BY <2>1 DEF MaterialsOf
  <2>3. DOMAIN MaterialsOf(list) = DOMAIN list
    BY DEF MaterialsOf
  <2> QED
    BY <2>2, <2>3, Zenon
<1> QED
  BY <1>1, <1>5, <1>6

(* publicDecryptionRequest.                                                *)
LEMMA PublicRequestInv ==
    ASSUME IInv, NEW list \in HandleLists, PublicDecryptionRequest(list),
           UNCHANGED <<configVars, ciphertextVars, aclVars>>
    PROVE  DecryptionTypeOK' /\ RequestsInv' /\ AnswersInv'
<1> DEFINE id == publicDecryptionCounter'
           r == [handles |-> list, materials |-> MaterialsOf(list), accounts |-> {}]
<1>1. list \in Seq(Handles) /\ list # <<>>
  BY DecryptionAssumption DEF PublicDecryptionRequest
<1>2. /\ id = publicDecryptionCounter + 1 /\ id \in PublicIds
      /\ requests' = [requests EXCEPT ![id] = r]
      /\ UNCHANGED <<userDecryptionCounter, answerVars>>
      /\ MaterialsReady(list)
      /\ \A i \in DOMAIN list : <<list[i], Public>> \in isAllowed
  BY DEF PublicDecryptionRequest
<1>3. /\ MaterialsOf(list) \in Seq(Materials)
      /\ Entries(list) \subseteq isCiphertextMaterialAdded
      /\ \A i, j \in DOMAIN MaterialsOf(list) :
            KeyIdOf[MaterialsOf(list)[i]] = KeyIdOf[MaterialsOf(list)[j]]
  BY <1>1, <1>2, MaterialsLookup DEF IInv
<1>4. id \in DecryptionIds /\ id \notin UserIds
  BY <1>2, IdsDisjoint DEF DecryptionIds
<1>5. DecryptionTypeOK'
  <2>1. publicDecryptionCounter'
           \in PublicDecryptBase .. PublicDecryptBase + MaxPublicRequests
    BY <1>2, DecryptionAssumption, IdSpanAssumption DEF PublicIds, PublicDecryptBase
  <2>2. r \in [handles : Seq(Handles), materials : Seq(Materials), accounts : SUBSET Accounts]
    BY <1>1, <1>3
  <2>3. requests' \in [DecryptionIds ->
                          [handles : Seq(Handles), materials : Seq(Materials),
                           accounts : SUBSET Accounts]]
    BY <1>2, <2>2 DEF IInv, DecryptionTypeOK
  <2> QED
    BY <1>2, <2>1, <2>3 DEF IInv, DecryptionTypeOK, answerVars
<1>6. \A k \in DecryptionIds : Requested(k)' <=> Requested(k) \/ k = id
  <2>1. publicDecryptionCounter \in Int /\ PublicDecryptBase \in Int
    BY DecryptionAssumption, IdSpanAssumption DEF IInv, DecryptionTypeOK, PublicDecryptBase
  <2>2. \A k \in DecryptionIds : k \in Nat
    BY IdsDisjoint DEF DecryptionIds
  <2>3. PublicDecryptBase < id
    BY <1>2, IdsDisjoint
  <2> QED
    BY <1>2, <2>1, <2>2, <2>3 DEF Requested
<1>7. Authorised(id, r, ciphertextMaterials, isCiphertextMaterialAdded, isAllowed)
  <2>1. \A i \in DOMAIN list : list[i] \in isCiphertextMaterialAdded
    BY <1>3 DEF Entries
  <2>2. r.handles = list /\ r.materials = MaterialsOf(list)
    OBVIOUS
  <2> HIDE DEF r, id
  <2>3. r.materials = [i \in DOMAIN r.handles |-> ciphertextMaterials[r.handles[i]]]
    BY <2>2 DEF MaterialsOf
  <2> QED
    BY <1>2, <1>3, <1>4, <2>1, <2>2, <2>3 DEF Authorised
<1>8. r # NoRequest
  <2>1. r.handles # NoRequest.handles
    BY <1>1 DEF NoRequest
  <2> QED
    BY <2>1
<1>9. Entries(r.handles) \subseteq isCiphertextMaterialAdded
  BY <1>3
<1>10. UNCHANGED <<ciphertextVars, aclVars, answerVars>>
  BY <1>2
<1> HIDE DEF r, id
<1>11. RequestsInv' /\ AnswersInv'
  BY <1>2, <1>4, <1>6, <1>7, <1>8, <1>9, <1>10, RequestAdded DEF IInv
<1> QED
  BY <1>5, <1>11

(* userDecryptionRequest: the user and, for every handle, a contract that  *)
(* is not the user are allowed to use it.                                  *)
LEMMA UserRequestInv ==
    ASSUME IInv, NEW req \in UserRequests, NEW now, UserDecryptionRequest(req, now),
           UNCHANGED <<configVars, ciphertextVars, aclVars>>
    PROVE  DecryptionTypeOK' /\ RequestsInv' /\ AnswersInv'
<1> DEFINE id == userDecryptionCounter'
           list == UserHandles(req)
           r == [handles |-> list, materials |-> MaterialsOf(list),
                 accounts |-> {req.user} \cup {req.pairs[i][2] : i \in DOMAIN req.pairs}]
<1>1. /\ req.pairs \in Seq(Handles \X Accounts) /\ req.user \in Accounts
      /\ req.pairs # <<>>
  BY DecryptionAssumption DEF UserDecryptionRequest
<1>2. /\ id = userDecryptionCounter + 1 /\ id \in UserIds
      /\ requests' = [requests EXCEPT ![id] = r]
      /\ UNCHANGED <<publicDecryptionCounter, answerVars>>
      /\ MaterialsReady(list)
      /\ req.user \notin req.contracts
      /\ \A i \in DOMAIN req.pairs : /\ <<req.pairs[i][1], req.user>> \in isAllowed
                                     /\ req.pairs[i] \in isAllowed
                                     /\ req.pairs[i][2] \in req.contracts
  BY DEF UserDecryptionRequest
<1>3. /\ DOMAIN req.pairs = 1 .. Len(req.pairs) /\ Len(req.pairs) \in Nat
      /\ \A i \in DOMAIN req.pairs : req.pairs[i] \in Handles \X Accounts
  BY <1>1, ElementOfSeq
<1>4. \A i \in DOMAIN req.pairs : /\ req.pairs[i][1] \in Handles
                                 /\ req.pairs[i][2] \in Accounts
                                 /\ req.pairs[i] = <<req.pairs[i][1], req.pairs[i][2]>>
  BY <1>3
<1>5. DOMAIN list = DOMAIN req.pairs /\ \A i \in DOMAIN list : list[i] = req.pairs[i][1]
  BY DEF UserHandles
<1>6. list \in Seq(Handles)
  <2>1. list \in [1 .. Len(req.pairs) -> Handles]
    BY <1>3, <1>4 DEF UserHandles
  <2> QED
    BY <1>3, <2>1, SeqDef
<1> HIDE DEF list
<1>7. /\ MaterialsOf(list) \in Seq(Materials)
      /\ Entries(list) \subseteq isCiphertextMaterialAdded
      /\ \A i, j \in DOMAIN MaterialsOf(list) :
            KeyIdOf[MaterialsOf(list)[i]] = KeyIdOf[MaterialsOf(list)[j]]
  BY <1>2, <1>6, MaterialsLookup DEF IInv
<1>8. id \in DecryptionIds /\ id \notin PublicIds
  BY <1>2, IdsDisjoint DEF DecryptionIds
<1>9. DecryptionTypeOK'
  <2>1. userDecryptionCounter' \in UserDecryptBase .. UserDecryptBase + MaxUserRequests
    BY <1>2, DecryptionAssumption, IdSpanAssumption DEF UserIds, UserDecryptBase
  <2>2. {req.user} \cup {req.pairs[i][2] : i \in DOMAIN req.pairs} \subseteq Accounts
    BY <1>1, <1>4
  <2>3. r \in [handles : Seq(Handles), materials : Seq(Materials), accounts : SUBSET Accounts]
    BY <1>6, <1>7, <2>2
  <2>4. requests' \in [DecryptionIds ->
                          [handles : Seq(Handles), materials : Seq(Materials),
                           accounts : SUBSET Accounts]]
    BY <1>2, <2>3 DEF IInv, DecryptionTypeOK
  <2> QED
    BY <1>2, <2>1, <2>4 DEF IInv, DecryptionTypeOK, answerVars
<1>10. \A k \in DecryptionIds : Requested(k)' <=> Requested(k) \/ k = id
  <2>1. userDecryptionCounter \in Int /\ UserDecryptBase \in Int
    BY DecryptionAssumption, IdSpanAssumption DEF IInv, DecryptionTypeOK, UserDecryptBase
  <2>2. \A k \in DecryptionIds : k \in Nat
    BY IdsDisjoint DEF DecryptionIds
  <2>3. UserDecryptBase < id
    BY <1>2, IdsDisjoint
  <2> QED
    BY <1>2, <2>1, <2>2, <2>3 DEF Requested
<1>11. Authorised(id, r, ciphertextMaterials, isCiphertextMaterialAdded, isAllowed)
  <2>1. /\ r.handles = list /\ r.materials = MaterialsOf(list)
        /\ req.user \in r.accounts
        /\ \A i \in DOMAIN req.pairs : req.pairs[i][2] \in r.accounts
    OBVIOUS
  <2> HIDE DEF r, id
  <2>2. r.materials = [i \in DOMAIN r.handles |-> ciphertextMaterials[r.handles[i]]]
    BY <2>1 DEF MaterialsOf
  <2>3. ASSUME NEW i \in DOMAIN list
        PROVE  /\ <<list[i], req.user>> \in isAllowed
               /\ \E c \in r.accounts \ {req.user} : <<list[i], c>> \in isAllowed
    <3>1. i \in DOMAIN req.pairs /\ list[i] = req.pairs[i][1]
      BY <1>5
    <3>2. /\ req.pairs[i][2] \in r.accounts \ {req.user}
          /\ <<list[i], req.pairs[i][2]>> \in isAllowed
      BY <1>2, <1>4, <2>1, <3>1
    <3> QED
      BY <1>2, <3>1, <3>2
  <2> QED
    BY <1>2, <1>7, <1>8, <2>1, <2>2, <2>3 DEF Authorised
<1>12. r # NoRequest
  <2>1. r.accounts # NoRequest.accounts
    BY DEF NoRequest
  <2> QED
    BY <2>1
<1>13. Entries(r.handles) \subseteq isCiphertextMaterialAdded
  BY <1>7
<1>14. UNCHANGED <<ciphertextVars, aclVars, answerVars>>
  BY <1>2
<1> HIDE DEF r, id
<1>15. RequestsInv' /\ AnswersInv'
  BY <1>2, <1>8, <1>10, <1>11, <1>12, <1>13, <1>14, RequestAdded DEF IInv
<1> QED
  BY <1>9, <1>15

----------------------------------------------------------------------------
(* Answers.                                                                *)

(* A node's signature is remembered for the request it answers.            *)
LEMMA SignerRemembered ==
    ASSUME DecryptionTypeOK, SignersFinite, NEW id \in DecryptionIds,
           NEW signer \in Address, NEW sender, ValidateSignature(id, signer, sender)
    PROVE  /\ signer \notin kmsNodeAlreadySigned[id]
           /\ kmsNodeAlreadySigned' \in [DecryptionIds -> SUBSET Address]
           /\ \A k \in DecryptionIds :
                 kmsNodeAlreadySigned'[k] =
                    IF k = id THEN kmsNodeAlreadySigned[k] \cup {signer}
                    ELSE kmsNodeAlreadySigned[k]
           /\ SignersFinite'
           /\ Cardinality(kmsNodeAlreadySigned'[id])
                 = Cardinality(kmsNodeAlreadySigned[id]) + 1
<1>1. /\ signer \notin kmsNodeAlreadySigned[id]
      /\ kmsNodeAlreadySigned' =
            [kmsNodeAlreadySigned EXCEPT ![id] = @ \cup {signer}]
      /\ kmsNodeAlreadySigned \in [DecryptionIds -> SUBSET Address]
  BY DEF ValidateSignature, DecryptionTypeOK
<1>2. /\ kmsNodeAlreadySigned' \in [DecryptionIds -> SUBSET Address]
      /\ \A k \in DecryptionIds :
            kmsNodeAlreadySigned'[k] =
               IF k = id THEN kmsNodeAlreadySigned[k] \cup {signer}
               ELSE kmsNodeAlreadySigned[k]
  BY <1>1
<1>3. /\ IsFiniteSet(kmsNodeAlreadySigned[id] \cup {signer})
      /\ Cardinality(kmsNodeAlreadySigned[id] \cup {signer})
            = Cardinality(kmsNodeAlreadySigned[id]) + 1
  BY <1>1, FS_AddElement DEF SignersFinite
<1> QED
  BY <1>1, <1>2, <1>3 DEF SignersFinite

(* publicDecryptionResponse puts the signer in one list, and it was in     *)
(* none of the request's lists before.                                     *)
LEMMA PublicResponseInv ==
    ASSUME IInv, NEW id \in PublicIds, NEW d \in DecryptDigests,
           NEW signer \in Address, NEW sender \in Address,
           PublicDecryptionResponse(id, d, signer, sender)
    PROVE  DecryptionTypeOK' /\ AnswersInv'
<1> DEFINE L(k, e) == verifiedPublicDecryptSignatures[k][e]
           Ln(k, e) == verifiedPublicDecryptSignatures'[k][e]
<1>1. id \in DecryptionIds /\ id \notin UserIds /\ Requested(id)
  BY IdsDisjoint DEF DecryptionIds, PublicDecryptionResponse, Requested
<1>2. /\ signer \notin kmsNodeAlreadySigned[id]
      /\ kmsNodeAlreadySigned' \in [DecryptionIds -> SUBSET Address]
      /\ \A k \in DecryptionIds :
            kmsNodeAlreadySigned'[k] =
               IF k = id THEN kmsNodeAlreadySigned[k] \cup {signer}
               ELSE kmsNodeAlreadySigned[k]
      /\ SignersFinite'
  BY <1>1, SignerRemembered DEF PublicDecryptionResponse, IInv, AnswersInv
<1>3. /\ verifiedPublicDecryptSignatures
            \in [PublicIds -> [DecryptDigests -> Seq(Address)]]
      /\ verifiedPublicDecryptSignatures' =
            [verifiedPublicDecryptSignatures EXCEPT ![id][d] = Append(@, signer)]
  BY DEF PublicDecryptionResponse, IInv, DecryptionTypeOK
<1>4. verifiedPublicDecryptSignatures' \in [PublicIds -> [DecryptDigests -> Seq(Address)]]
  BY <1>3, AppendedInside
<1>5. \A k \in PublicIds, e \in DecryptDigests : \A i \in DOMAIN Ln(k, e) :
         \/ i \in DOMAIN L(k, e) /\ Ln(k, e)[i] = L(k, e)[i]
         \/ k = id /\ e = d /\ i = Len(L(id, d)) + 1 /\ Ln(k, e)[i] = signer
  BY <1>3, AppendedInside
<1>6. \A k \in PublicIds, e \in DecryptDigests : \A i \in DOMAIN L(k, e) :
         i \in DOMAIN Ln(k, e) /\ Ln(k, e)[i] = L(k, e)[i]
  BY <1>3, AppendedInside
<1>7. \E i \in DOMAIN Ln(id, d) : Ln(id, d)[i] = signer
  BY <1>3, AppendedInside
<1>8. /\ consensusTxSenderAddresses'
            \in [DecryptionIds -> [DecryptDigests \cup {NoDecryptDigest} -> Seq(Address)]]
      /\ \A k \in DecryptionIds, e \in DecryptDigests \cup {NoDecryptDigest} :
            ~(k = id /\ e = d) =>
                consensusTxSenderAddresses'[k][e] = consensusTxSenderAddresses[k][e]
  <2>1. /\ consensusTxSenderAddresses
              \in [DecryptionIds -> [DecryptDigests \cup {NoDecryptDigest} -> Seq(Address)]]
        /\ consensusTxSenderAddresses' =
              [consensusTxSenderAddresses EXCEPT ![id][d] = Append(@, sender)]
    BY DEF PublicDecryptionResponse, IInv, DecryptionTypeOK
  <2> DEFINE D == DecryptDigests \cup {NoDecryptDigest}
  <2>2. d \in D /\ consensusTxSenderAddresses \in [DecryptionIds -> [D -> Seq(Address)]]
    BY <2>1
  <2> SUFFICES /\ consensusTxSenderAddresses' \in [DecryptionIds -> [D -> Seq(Address)]]
               /\ \A k \in DecryptionIds, e \in D :
                     ~(k = id /\ e = d) =>
                         consensusTxSenderAddresses'[k][e] = consensusTxSenderAddresses[k][e]
    OBVIOUS
  <2> HIDE DEF D
  <2> QED
    BY <1>1, <2>1, <2>2, AppendedInside
<1>9. DecryptionTypeOK'
  <2>1. \/ /\ decryptionDone' = decryptionDone \cup {id}
           /\ decryptionConsensusDigest' = [decryptionConsensusDigest EXCEPT ![id] = d]
        \/ UNCHANGED <<decryptionDone, decryptionConsensusDigest>>
    BY DEF PublicDecryptionResponse
  <2>3. /\ decryptionDone' \subseteq DecryptionIds
        /\ decryptionConsensusDigest'
              \in [DecryptionIds -> DecryptDigests \cup {NoDecryptDigest}]
    BY <1>1, <2>1 DEF IInv, DecryptionTypeOK
  <2>2. UNCHANGED <<publicDecryptionCounter, userDecryptionCounter, requests>>
    BY DEF PublicDecryptionResponse
  <2> QED
    BY <1>2, <1>4, <1>8, <2>2, <2>3 DEF IInv, DecryptionTypeOK
<1>10. \A k \in DecryptionIds : Requested(k)' <=> Requested(k)
  BY DEF PublicDecryptionResponse, Requested
<1>11. ASSUME NEW k \in DecryptionIds, kmsNodeAlreadySigned'[k] # {}
       PROVE  Requested(k)'
  BY <1>1, <1>2, <1>10, <1>11 DEF IInv, AnswersInv, AnswersCounted
<1>12. ASSUME NEW k \in UserIds
       PROVE  /\ Len(consensusTxSenderAddresses'[k][NoDecryptDigest])
                    = Cardinality(kmsNodeAlreadySigned'[k])
              /\ decryptionConsensusDigest'[k] = NoDecryptDigest
  <2>1. k \in DecryptionIds /\ k # id
    BY <1>1 DEF DecryptionIds
  <2>2. decryptionConsensusDigest'[k] = decryptionConsensusDigest[k]
    BY <2>1 DEF PublicDecryptionResponse, IInv, DecryptionTypeOK
  <2>3. /\ consensusTxSenderAddresses'[k][NoDecryptDigest]
              = consensusTxSenderAddresses[k][NoDecryptDigest]
        /\ kmsNodeAlreadySigned'[k] = kmsNodeAlreadySigned[k]
    BY <1>2, <1>8, <2>1
  <2> QED
    BY <2>1, <2>2, <2>3 DEF IInv, AnswersInv, AnswersCounted
<1>13. ASSUME NEW k \in PublicIds
       PROVE  /\ UNION {Entries(L(k, e)) : e \in DecryptDigests} = kmsNodeAlreadySigned[k]
              /\ \A e, f \in DecryptDigests : \A i \in DOMAIN L(k, e), j \in DOMAIN L(k, f) :
                    L(k, e)[i] = L(k, f)[j] => e = f /\ i = j
  <2>1. k \in DecryptionIds
    BY DEF DecryptionIds
  <2> QED
    BY <2>1 DEF IInv, AnswersInv, AnswersCounted
<1>14. \A e \in DecryptDigests : \A i \in DOMAIN L(id, e) : L(id, e)[i] # signer
  BY <1>2, <1>13 DEF Entries
<1> HIDE DEF L
<1>15. ASSUME NEW k \in PublicIds
       PROVE  UNION {Entries(Ln(k, e)) : e \in DecryptDigests} = kmsNodeAlreadySigned'[k]
  <2> HIDE DEF Ln
  <2>1. k \in DecryptionIds
    BY DEF DecryptionIds
  <2>2. ASSUME NEW e \in DecryptDigests, NEW i \in DOMAIN Ln(k, e)
        PROVE  Ln(k, e)[i] \in kmsNodeAlreadySigned'[k]
    <3>1. CASE i \in DOMAIN L(k, e) /\ Ln(k, e)[i] = L(k, e)[i]
      <4>1. L(k, e)[i] \in kmsNodeAlreadySigned[k]
        BY <1>13, <3>1 DEF Entries
      <4> QED
        BY <1>2, <2>1, <3>1, <4>1
    <3>2. CASE k = id /\ Ln(k, e)[i] = signer
      BY <1>2, <2>1, <3>2
    <3> QED
      BY <1>5, <3>1, <3>2
  <2>3. ASSUME NEW a \in kmsNodeAlreadySigned'[k]
        PROVE  \E e \in DecryptDigests : \E i \in DOMAIN Ln(k, e) : Ln(k, e)[i] = a
    <3>1. a \in kmsNodeAlreadySigned[k] \/ (k = id /\ a = signer)
      BY <1>2, <2>1
    <3>2. CASE a \in kmsNodeAlreadySigned[k]
      <4>1. \E e \in DecryptDigests : \E i \in DOMAIN L(k, e) : L(k, e)[i] = a
        BY <1>13, <3>2 DEF Entries
      <4> QED
        BY <1>6, <4>1
    <3>3. CASE k = id /\ a = signer
      BY <1>7, <3>3
    <3> QED
      BY <3>1, <3>2, <3>3
  <2> QED
    BY <2>2, <2>3 DEF Entries
<1>16. ASSUME NEW k \in PublicIds, NEW e \in DecryptDigests, NEW f \in DecryptDigests,
              NEW i \in DOMAIN Ln(k, e), NEW j \in DOMAIN Ln(k, f),
              Ln(k, e)[i] = Ln(k, f)[j]
       PROVE  e = f /\ i = j
  <2> HIDE DEF Ln
  <2>1. \/ i \in DOMAIN L(k, e) /\ Ln(k, e)[i] = L(k, e)[i]
        \/ k = id /\ e = d /\ i = Len(L(id, d)) + 1 /\ Ln(k, e)[i] = signer
    BY <1>5
  <2>2. \/ j \in DOMAIN L(k, f) /\ Ln(k, f)[j] = L(k, f)[j]
        \/ k = id /\ f = d /\ j = Len(L(id, d)) + 1 /\ Ln(k, f)[j] = signer
    BY <1>5
  <2>3. \A g, h \in DecryptDigests : \A m \in DOMAIN L(k, g), n \in DOMAIN L(k, h) :
           L(k, g)[m] = L(k, h)[n] => g = h /\ m = n
    BY <1>13
  <2>4. CASE /\ i \in DOMAIN L(k, e) /\ Ln(k, e)[i] = L(k, e)[i]
             /\ j \in DOMAIN L(k, f) /\ Ln(k, f)[j] = L(k, f)[j]
    <3>1. L(k, e)[i] = L(k, f)[j]
      BY <1>16, <2>4
    <3> QED
      BY <2>3, <2>4, <3>1
  <2>5. CASE Ln(k, e)[i] = signer /\ k = id
    BY <1>14, <1>16, <2>1, <2>2, <2>5
  <2>6. CASE Ln(k, f)[j] = signer /\ k = id
    BY <1>14, <1>16, <2>1, <2>2, <2>6
  <2> QED
    BY <2>1, <2>2, <2>4, <2>5, <2>6
<1>17. AnswersCounted'
  BY <1>11, <1>12, <1>15, <1>16 DEF AnswersCounted
<1> QED
  BY <1>2, <1>9, <1>17 DEF AnswersInv

(* userDecryptionResponse: one more share, one more signer.                *)
LEMMA UserResponseInv ==
    ASSUME IInv, NEW id \in UserIds, NEW signer \in Address, NEW sender \in Address,
           UserDecryptionResponse(id, signer, sender)
    PROVE  DecryptionTypeOK' /\ AnswersInv'
<1>1. id \in DecryptionIds /\ id \notin PublicIds /\ Requested(id)
  BY IdsDisjoint DEF DecryptionIds, UserDecryptionResponse, Requested
<1>2. /\ kmsNodeAlreadySigned' \in [DecryptionIds -> SUBSET Address]
      /\ \A k \in DecryptionIds :
            kmsNodeAlreadySigned'[k] =
               IF k = id THEN kmsNodeAlreadySigned[k] \cup {signer}
               ELSE kmsNodeAlreadySigned[k]
      /\ SignersFinite'
      /\ Cardinality(kmsNodeAlreadySigned'[id]) = Cardinality(kmsNodeAlreadySigned[id]) + 1
  BY <1>1, SignerRemembered DEF UserDecryptionResponse, IInv, AnswersInv
<1>3. /\ consensusTxSenderAddresses'
            \in [DecryptionIds -> [DecryptDigests \cup {NoDecryptDigest} -> Seq(Address)]]
      /\ \A k \in DecryptionIds, e \in DecryptDigests \cup {NoDecryptDigest} :
            ~(k = id /\ e = NoDecryptDigest) =>
                consensusTxSenderAddresses'[k][e] = consensusTxSenderAddresses[k][e]
      /\ Len(consensusTxSenderAddresses'[id][NoDecryptDigest])
            = Len(consensusTxSenderAddresses[id][NoDecryptDigest]) + 1
  <2>1. /\ consensusTxSenderAddresses
              \in [DecryptionIds -> [DecryptDigests \cup {NoDecryptDigest} -> Seq(Address)]]
        /\ consensusTxSenderAddresses' =
              [consensusTxSenderAddresses EXCEPT ![id][NoDecryptDigest] = Append(@, sender)]
    BY DEF UserDecryptionResponse, IInv, DecryptionTypeOK
  <2> DEFINE D == DecryptDigests \cup {NoDecryptDigest}
  <2>2. /\ NoDecryptDigest \in D
        /\ consensusTxSenderAddresses \in [DecryptionIds -> [D -> Seq(Address)]]
    BY <2>1
  <2> SUFFICES /\ consensusTxSenderAddresses' \in [DecryptionIds -> [D -> Seq(Address)]]
               /\ \A k \in DecryptionIds, e \in D :
                     ~(k = id /\ e = NoDecryptDigest) =>
                         consensusTxSenderAddresses'[k][e] = consensusTxSenderAddresses[k][e]
               /\ Len(consensusTxSenderAddresses'[id][NoDecryptDigest])
                     = Len(consensusTxSenderAddresses[id][NoDecryptDigest]) + 1
    OBVIOUS
  <2> HIDE DEF D
  <2> QED
    BY <1>1, <2>1, <2>2, AppendedInside
<1>4. UNCHANGED <<publicDecryptionCounter, userDecryptionCounter, requests,
                  verifiedPublicDecryptSignatures, decryptionConsensusDigest>>
  BY DEF UserDecryptionResponse
<1>5. DecryptionTypeOK'
  <2>1. decryptionDone' \subseteq DecryptionIds
    BY <1>1 DEF UserDecryptionResponse, IInv, DecryptionTypeOK
  <2> QED
    BY <1>2, <1>3, <1>4, <2>1 DEF IInv, DecryptionTypeOK
<1>6. \A k \in DecryptionIds : Requested(k)' <=> Requested(k)
  BY <1>4 DEF Requested
<1>7. ASSUME NEW k \in DecryptionIds, kmsNodeAlreadySigned'[k] # {}
      PROVE  Requested(k)'
  BY <1>1, <1>2, <1>6, <1>7 DEF IInv, AnswersInv, AnswersCounted
<1>8. ASSUME NEW k \in UserIds
      PROVE  /\ Len(consensusTxSenderAddresses'[k][NoDecryptDigest])
                   = Cardinality(kmsNodeAlreadySigned'[k])
             /\ decryptionConsensusDigest'[k] = NoDecryptDigest
  <2>1. k \in DecryptionIds
    BY DEF DecryptionIds
  <2>2. /\ Len(consensusTxSenderAddresses[k][NoDecryptDigest])
              = Cardinality(kmsNodeAlreadySigned[k])
        /\ decryptionConsensusDigest[k] = NoDecryptDigest
    BY <2>1 DEF IInv, AnswersInv, AnswersCounted
  <2>3. CASE k = id
    BY <1>2, <1>3, <1>4, <2>2, <2>3
  <2>4. CASE k # id
    <3>1. consensusTxSenderAddresses'[k][NoDecryptDigest]
             = consensusTxSenderAddresses[k][NoDecryptDigest]
      BY <1>3, <2>1, <2>4
    <3>2. kmsNodeAlreadySigned'[k] = kmsNodeAlreadySigned[k]
      BY <1>2, <2>1, <2>4
    <3> QED
      BY <1>4, <2>2, <3>1, <3>2
  <2> QED
    BY <2>3, <2>4
<1>9. \A k \in PublicIds : k \in DecryptionIds /\ k # id
  BY <1>1 DEF DecryptionIds
<1>10. \A k \in PublicIds : kmsNodeAlreadySigned'[k] = kmsNodeAlreadySigned[k]
  BY <1>2, <1>9
<1>11. AnswersCounted'
  BY <1>4, <1>7, <1>8, <1>9, <1>10 DEF IInv, AnswersInv, AnswersCounted
<1> QED
  BY <1>2, <1>5, <1>11 DEF AnswersInv

----------------------------------------------------------------------------
(* A node's answer leaves the requests and the other contracts alone.      *)
LEMMA AnswerKeepsRequests ==
    ASSUME IInv, UNCHANGED <<configVars, ciphertextVars, aclVars>>,
           UNCHANGED <<publicDecryptionCounter, userDecryptionCounter, requests>>
    PROVE  RequestsInv'
BY RequestStays DEF IInv, ciphertextVars, aclVars, allowVars

(* Every call to the Decryption contract keeps the invariant.              *)
LEMMA DecryptionStepInv ==
    ASSUME IInv, DecryptionNext
    PROVE  DecryptionTypeOK' /\ RequestsInv' /\ AnswersInv'
<1>1. UNCHANGED <<configVars, ciphertextVars, aclVars>>
  BY DEF DecryptionNext
<1>2. ASSUME NEW list \in HandleLists, PublicDecryptionRequest(list)
      PROVE  DecryptionTypeOK' /\ RequestsInv' /\ AnswersInv'
  BY <1>1, <1>2, PublicRequestInv
<1>3. ASSUME NEW req \in UserRequests, NEW now \in Timestamps, UserDecryptionRequest(req, now)
      PROVE  DecryptionTypeOK' /\ RequestsInv' /\ AnswersInv'
  BY <1>1, <1>3, UserRequestInv
<1>4. ASSUME NEW id \in PublicIds, NEW d \in DecryptDigests, NEW signer \in Address,
             NEW sender \in Address, PublicDecryptionResponse(id, d, signer, sender)
      PROVE  DecryptionTypeOK' /\ RequestsInv' /\ AnswersInv'
  <2>1. UNCHANGED <<publicDecryptionCounter, userDecryptionCounter, requests>>
    BY <1>4 DEF PublicDecryptionResponse
  <2> QED
    BY <1>1, <1>4, <2>1, PublicResponseInv, AnswerKeepsRequests
<1>5. ASSUME NEW id \in UserIds, NEW signer \in Address, NEW sender \in Address,
             UserDecryptionResponse(id, signer, sender)
      PROVE  DecryptionTypeOK' /\ RequestsInv' /\ AnswersInv'
  <2>1. UNCHANGED <<publicDecryptionCounter, userDecryptionCounter, requests>>
    BY <1>5 DEF UserDecryptionResponse
  <2> QED
    BY <1>1, <1>5, <2>1, UserResponseInv, AnswerKeepsRequests
<1> QED
  BY <1>2, <1>3, <1>4, <1>5 DEF DecryptionNext

(* Calls to the other contracts leave the Decryption contract's storage    *)
(* alone and take nothing from its requests.                               *)
LEMMA OtherStepInv ==
    ASSUME IInv, UNCHANGED decryptionVars,
           isAllowed \subseteq isAllowed',
           isCiphertextMaterialAdded \subseteq isCiphertextMaterialAdded',
           \A h \in isCiphertextMaterialAdded : ciphertextMaterials'[h] = ciphertextMaterials[h]
    PROVE  DecryptionTypeOK' /\ RequestsInv' /\ AnswersInv'
<1>1. DecryptionTypeOK'
  BY DEF IInv, DecryptionTypeOK, decryptionVars, answerVars
<1>2. RequestsInv'
  BY RequestStays DEF IInv, decryptionVars
<1>3. AnswersInv'
  <2>1. \A id \in DecryptionIds : Requested(id) => Requested(id)'
    BY DEF Requested, decryptionVars
  <2> QED
    BY <2>1, AnswersStay DEF IInv, decryptionVars
<1> QED
  BY <1>1, <1>2, <1>3

(* No step of the composed contracts leaves the invariant.                 *)
LEMMA Inductive == IInv /\ [Next]_vars => IInv'
<1> SUFFICES ASSUME IInv, [Next]_vars PROVE IInv'
  OBVIOUS
<1>1. CASE DecryptionNext
  <2>1. UNCHANGED <<configVars, ciphertextVars, aclVars>>
    BY <1>1 DEF DecryptionNext
  <2> QED
    BY <1>1, <2>1, DecryptionStepInv, RegistryStep, CommitsUnchanged, AclUnchanged DEF IInv
<1>2. CASE CiphertextCommitsNext /\ UNCHANGED <<aclVars, decryptionVars>>
  <2>1. UNCHANGED configVars /\ isAllowed' = isAllowed
    BY <1>2 DEF CiphertextCommitsNext, aclVars, allowVars
  <2>2. DecryptionTypeOK' /\ RequestsInv' /\ AnswersInv'
    BY <1>2, <2>1, MaterialsFixed, OtherStepInv DEF IInv
  <2> QED
    BY <1>2, <2>1, <2>2, CommitsStepInv, RegistryStep, AclUnchanged DEF IInv
<1>3. CASE MultichainACLNext /\ UNCHANGED <<ciphertextVars, decryptionVars>>
  <2>1. UNCHANGED <<configVars, isCiphertextMaterialAdded, ciphertextMaterials>>
    BY <1>3 DEF MultichainACLNext, ciphertextVars
  <2>2. DecryptionTypeOK' /\ RequestsInv' /\ AnswersInv'
    BY <1>3, <2>1, RightsKept, OtherStepInv
  <2> QED
    BY <1>3, <2>1, <2>2, AclStepInv, RegistryStep, CommitsUnchanged DEF IInv
<1>4. CASE /\ ConfigNext \/ UNCHANGED configVars
           /\ UNCHANGED <<ciphertextVars, aclVars, decryptionVars>>
  <2>1. UNCHANGED <<isAllowed, isCiphertextMaterialAdded, ciphertextMaterials>>
    BY <1>4 DEF aclVars, allowVars, ciphertextVars
  <2>2. DecryptionTypeOK' /\ RequestsInv' /\ AnswersInv'
    BY <1>4, <2>1, OtherStepInv
  <2> QED
    BY <1>4, <2>2, RegistryStep, CommitsUnchanged, AclUnchanged DEF IInv
<1> QED
  BY <1>1, <1>2, <1>3, <1>4 DEF Next, vars

(* A freshly deployed gateway has made no request and got no answer.       *)
LEMMA InitInductive == Init => IInv
<1> SUFFICES ASSUME Init PROVE IInv
  OBVIOUS
<1>1. RegistryOK /\ CommitsInv /\ AclInv
  BY RegistryInit, CommitsInitInv, AclInitInv DEF Init
<1>2. DecryptionInit
  BY DEF Init
<1>3. /\ IdSpan \in Nat /\ MaxPublicRequests \in Nat /\ MaxUserRequests \in Nat
  BY DecryptionAssumption, IdSpanAssumption
<1>4. DecryptionTypeOK
  <2>1. /\ publicDecryptionCounter
              \in PublicDecryptBase .. PublicDecryptBase + MaxPublicRequests
        /\ userDecryptionCounter \in UserDecryptBase .. UserDecryptBase + MaxUserRequests
    BY <1>2, <1>3 DEF DecryptionInit, PublicDecryptBase, UserDecryptBase
  <2>2. NoRequest \in [handles : Seq(Handles), materials : Seq(Materials),
                       accounts : SUBSET Accounts]
    <3>1. <<>> \in Seq(Handles) /\ <<>> \in Seq(Materials) /\ {} \in SUBSET Accounts
      OBVIOUS
    <3> QED
      BY <3>1 DEF NoRequest
  <2>3. <<>> \in Seq(Address)
    OBVIOUS
  <2>4. requests \in [DecryptionIds ->
                        [handles : Seq(Handles), materials : Seq(Materials),
                         accounts : SUBSET Accounts]]
    BY <1>2, <2>2 DEF DecryptionInit
  <2>5. verifiedPublicDecryptSignatures \in [PublicIds -> [DecryptDigests -> Seq(Address)]]
    BY <1>2, <2>3 DEF DecryptionInit
  <2>6. consensusTxSenderAddresses
           \in [DecryptionIds -> [DecryptDigests \cup {NoDecryptDigest} -> Seq(Address)]]
    BY <1>2, <2>3 DEF DecryptionInit
  <2> QED
    BY <1>2, <2>1, <2>4, <2>5, <2>6 DEF DecryptionInit, DecryptionTypeOK
<1>5. \A id \in DecryptionIds : ~Requested(id)
  <2>1. publicDecryptionCounter = PublicDecryptBase /\ userDecryptionCounter = UserDecryptBase
    BY <1>2 DEF DecryptionInit
  <2>2. PublicDecryptBase \in Int /\ UserDecryptBase \in Int
    BY <1>3 DEF PublicDecryptBase, UserDecryptBase
  <2>3. \A id \in DecryptionIds : id \in Int
    BY IdsDisjoint DEF DecryptionIds
  <2> QED
    BY <2>1, <2>2, <2>3 DEF Requested
<1>6. RequestsInv
  <2>1. \A id \in DecryptionIds : requests[id] = NoRequest
    BY <1>2 DEF DecryptionInit
  <2> QED
    BY <1>5, <2>1 DEF RequestsInv, RequestsHaveMaterials, RequestsStayAuthorised
<1>7. AnswersInv
  <2>1. \A id \in DecryptionIds :
           /\ kmsNodeAlreadySigned[id] = {}
           /\ consensusTxSenderAddresses[id][NoDecryptDigest] = <<>>
           /\ decryptionConsensusDigest[id] = NoDecryptDigest
    BY <1>2 DEF DecryptionInit
  <2>2. \A id \in PublicIds, d \in DecryptDigests :
           verifiedPublicDecryptSignatures[id][d] = <<>>
    BY <1>2 DEF DecryptionInit
  <2>3. IsFiniteSet({}) /\ Cardinality({}) = 0 /\ Len(<<>>) = 0
    BY FS_EmptySet
  <2>4. \A id \in PublicIds : UNION {Entries(verifiedPublicDecryptSignatures[id][d]) :
                                        d \in DecryptDigests} = {}
    BY <2>2 DEF Entries
  <2>5. \A id \in PublicIds : \A d, e \in DecryptDigests :
           \A i \in DOMAIN verifiedPublicDecryptSignatures[id][d] : FALSE
    BY <2>2
  <2> QED
    BY <2>1, <2>3, <2>4, <2>5 DEF AnswersInv, SignersFinite, AnswersCounted
<1> QED
  BY <1>1, <1>4, <1>6, <1>7 DEF IInv

(* Requests, answers, rights, materials and thresholds agree in every      *)
(* reachable state of the four contracts.                                  *)
THEOREM DecryptionInvariant == Spec => []IInv
BY InitInductive, Inductive, PTL DEF Spec

(* No threshold the KMS nodes answer under exceeds their number.           *)
THEOREM ThresholdsAlwaysReachable == Spec => []ThresholdsReachable
<1>1. IInv => ThresholdsReachable
  BY DEF IInv, RegistryOK
<1> QED
  BY <1>1, DecryptionInvariant, PTL

(* What the KMS was told of a request stays true for as long as nodes may  *)
(* answer it.                                                              *)
THEOREM RequestsAuthorised == Spec => []RequestsStayAuthorised
<1>1. IInv => RequestsStayAuthorised
  BY DEF IInv, RequestsInv
<1> QED
  BY <1>1, DecryptionInvariant, PTL

(* No signer counts twice for a request, through all rotations of nodes.   *)
THEOREM AnswersUnique == Spec => []AnswersCounted
<1>1. IInv => AnswersCounted
  BY DEF IInv, AnswersInv
<1> QED
  BY <1>1, DecryptionInvariant, PTL

----------------------------------------------------------------------------
(* What the contract compares with a threshold counts distinct signers.    *)
LengthsCountSigners ==
    /\ \A id \in PublicIds, d \in DecryptDigests :
           Cardinality(Entries(verifiedPublicDecryptSignatures[id][d]))
               = Len(verifiedPublicDecryptSignatures[id][d])
    /\ \A id \in UserIds :
           Cardinality(kmsNodeAlreadySigned[id])
               = Len(consensusTxSenderAddresses[id][NoDecryptDigest])

(* The lists hold no signer twice, so their lengths count signers.         *)
LEMMA SignersCounted == IInv => LengthsCountSigners
<1> SUFFICES ASSUME IInv PROVE LengthsCountSigners
  OBVIOUS
<1>1. ASSUME NEW id \in PublicIds, NEW d \in DecryptDigests
      PROVE  Cardinality(Entries(verifiedPublicDecryptSignatures[id][d]))
                 = Len(verifiedPublicDecryptSignatures[id][d])
  <2> DEFINE s == verifiedPublicDecryptSignatures[id][d]
  <2>1. s \in Seq(Address)
    BY DEF IInv, DecryptionTypeOK
  <2>2. id \in DecryptionIds
    BY DEF DecryptionIds
  <2>3. \A i, j \in DOMAIN s : s[i] = s[j] => i = j
    BY <2>2 DEF IInv, AnswersInv, AnswersCounted
  <2> HIDE DEF s
  <2>4. Cardinality(Entries(s)) = Len(s)
    BY <2>1, <2>3, DistinctEntries DEF Entries, Distinct
  <2> QED
    BY <2>4 DEF s
<1>2. \A id \in UserIds :
         Cardinality(kmsNodeAlreadySigned[id])
             = Len(consensusTxSenderAddresses[id][NoDecryptDigest])
  BY DEF IInv, AnswersInv, AnswersCounted, DecryptionIds
<1> QED
  BY <1>1, <1>2 DEF LengthsCountSigners

(* The answer that completes a decryption is the one that meets the        *)
(* threshold in force.                                                     *)
LEMMA CompletionStep ==
    ASSUME IInv, LengthsCountSigners', Next, NEW id \in decryptionDone' \ decryptionDone
    PROVE  IF id \in PublicIds
           THEN Cardinality(Entries(verifiedPublicDecryptSignatures'[id]
                                        [decryptionConsensusDigest'[id]]))
                    >= kmsThresholds.publicDecryption
           ELSE Cardinality(kmsNodeAlreadySigned'[id]) >= kmsThresholds.userDecryption
<1>1. DecryptionNext
  BY DEF Next, decryptionVars, answerVars
<1>2. ASSUME NEW k \in PublicIds, NEW d \in DecryptDigests, NEW signer \in Address,
             NEW sender \in Address, PublicDecryptionResponse(k, d, signer, sender)
      PROVE  /\ id \in PublicIds
             /\ Cardinality(Entries(verifiedPublicDecryptSignatures'[id]
                                        [decryptionConsensusDigest'[id]]))
                    >= kmsThresholds.publicDecryption
  <2>1. /\ decryptionDone' = decryptionDone \cup {k}
        /\ decryptionConsensusDigest' = [decryptionConsensusDigest EXCEPT ![k] = d]
        /\ Len(verifiedPublicDecryptSignatures'[k][d]) >= kmsThresholds.publicDecryption
    BY <1>2 DEF PublicDecryptionResponse
  <2>2. id = k /\ k \in DecryptionIds
    BY <2>1 DEF DecryptionIds
  <2>3. decryptionConsensusDigest'[id] = d
    BY <2>1, <2>2 DEF IInv, DecryptionTypeOK
  <2>4. Cardinality(Entries(verifiedPublicDecryptSignatures'[k][d]))
           = Len(verifiedPublicDecryptSignatures'[k][d])
    BY DEF LengthsCountSigners
  <2> QED
    BY <2>1, <2>2, <2>3, <2>4
<1>3. ASSUME NEW k \in UserIds, NEW signer \in Address, NEW sender \in Address,
             UserDecryptionResponse(k, signer, sender)
      PROVE  /\ id \notin PublicIds
             /\ Cardinality(kmsNodeAlreadySigned'[id]) >= kmsThresholds.userDecryption
  <2>1. /\ decryptionDone' = decryptionDone \cup {k}
        /\ Len(consensusTxSenderAddresses'[k][NoDecryptDigest])
              >= kmsThresholds.userDecryption
    BY <1>3 DEF UserDecryptionResponse
  <2>2. id = k /\ id \notin PublicIds
    BY <2>1, IdsDisjoint
  <2>3. Cardinality(kmsNodeAlreadySigned'[k])
           = Len(consensusTxSenderAddresses'[k][NoDecryptDigest])
    BY DEF LengthsCountSigners
  <2> QED
    BY <2>1, <2>2, <2>3
<1>4. ~(\E list \in HandleLists : PublicDecryptionRequest(list))
  BY DEF PublicDecryptionRequest, answerVars
<1>5. ~(\E req \in UserRequests, now \in Timestamps : UserDecryptionRequest(req, now))
  BY DEF UserDecryptionRequest, answerVars
<1> QED
  BY <1>1, <1>2, <1>3, <1>4, <1>5 DEF DecryptionNext

(* A decryption is done by a threshold of distinct signers of the answer   *)
(* the contract reports, or by a threshold of shares.                      *)
THEOREM CompletedByThreshold == Spec => DoneByThreshold
<1>1. IInv /\ LengthsCountSigners' /\ [Next]_vars =>
        [\A id \in decryptionDone' \ decryptionDone :
           IF id \in PublicIds
           THEN Cardinality(Entries(verifiedPublicDecryptSignatures'[id]
                                        [decryptionConsensusDigest'[id]]))
                    >= kmsThresholds.publicDecryption
           ELSE Cardinality(kmsNodeAlreadySigned'[id]) >= kmsThresholds.userDecryption]_vars
  BY CompletionStep
<1> QED
  BY <1>1, SignersCounted, DecryptionInvariant, PTL DEF Spec, DoneByThreshold

(* Every behaviour of the four contracts is one of the one-shot decision:  *)
(* late answers, other plaintexts and rotated nodes change no outcome.     *)
THEOREM DecryptionRefinement == Spec => DecryptedOnce
<1>1. Init => DecryptionDecision!Init
  BY DEF Init, DecryptionInit, DecryptionDecision!Init, DecryptionOutcome
<1>2. IInv /\ [Next]_vars => [DecryptionDecision!Next]_DecryptionOutcome
  <2> SUFFICES ASSUME IInv, [Next]_vars,
                      ~(UNCHANGED <<decryptionDone, decryptionConsensusDigest>>)
               PROVE  DecryptionDecision!Next
    BY DEF DecryptionOutcome
  <2>1. DecryptionNext
    BY DEF Next, vars, decryptionVars, answerVars
  <2>2. ASSUME NEW id \in PublicIds, NEW d \in DecryptDigests, NEW signer \in Address,
               NEW sender \in Address, PublicDecryptionResponse(id, d, signer, sender)
        PROVE  DecryptionDecision!Next
    <3>1. /\ id \notin decryptionDone
          /\ decryptionDone' = decryptionDone \cup {id}
          /\ decryptionConsensusDigest' = [decryptionConsensusDigest EXCEPT ![id] = d]
      BY <2>2 DEF PublicDecryptionResponse, StillOpen
    <3>2. id \in DecryptionIds
      BY DEF DecryptionIds
    <3>3. DecryptionOutcome[id] = <<"pending", NoDecryptDigest>>
      BY <3>1, <3>2 DEF DecryptionOutcome
    <3>4. DecryptionOutcome' = [DecryptionOutcome EXCEPT ![id] = <<"done", d>>]
      BY <3>1, <3>2 DEF DecryptionOutcome, IInv, DecryptionTypeOK
    <3>5. <<"done", d>> \in {"done"} \X (DecryptDigests \cup {NoDecryptDigest})
      OBVIOUS
    <3> QED
      BY <3>2, <3>3, <3>4, <3>5 DEF DecryptionDecision!Next, DecryptionDecision!Decide
  <2>3. ASSUME NEW id \in UserIds, NEW signer \in Address, NEW sender \in Address,
               UserDecryptionResponse(id, signer, sender)
        PROVE  DecryptionDecision!Next
    <3>1. /\ id \notin decryptionDone
          /\ decryptionDone' = decryptionDone \cup {id}
          /\ decryptionConsensusDigest' = decryptionConsensusDigest
      BY <2>3 DEF UserDecryptionResponse, StillOpen
    <3>2. id \in DecryptionIds
      BY DEF DecryptionIds
    <3>3. DecryptionOutcome[id] = <<"pending", NoDecryptDigest>>
      BY <3>1, <3>2 DEF DecryptionOutcome
    <3>4. DecryptionOutcome' =
             [DecryptionOutcome EXCEPT ![id] = <<"done", decryptionConsensusDigest[id]>>]
      BY <3>1, <3>2 DEF DecryptionOutcome
    <3>5. <<"done", decryptionConsensusDigest[id]>>
             \in {"done"} \X (DecryptDigests \cup {NoDecryptDigest})
      BY <3>2 DEF IInv, DecryptionTypeOK
    <3> QED
      BY <3>2, <3>3, <3>4, <3>5 DEF DecryptionDecision!Next, DecryptionDecision!Decide
  <2>4. ~(\E list \in HandleLists : PublicDecryptionRequest(list))
    BY DEF PublicDecryptionRequest, answerVars
  <2>5. ~(\E req \in UserRequests, now \in Timestamps : UserDecryptionRequest(req, now))
    BY DEF UserDecryptionRequest, answerVars
  <2> QED
    BY <2>1, <2>2, <2>3, <2>4, <2>5 DEF DecryptionNext
<1> QED
  BY <1>1, <1>2, DecryptionInvariant, PTL
     DEF Spec, DecryptedOnce, DecryptionDecision!Spec
=============================================================================
