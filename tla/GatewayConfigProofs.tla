------------------------ MODULE GatewayConfigProofs ------------------------
(***************************************************************************)
(* The facts about the operator registry that the proofs of the contracts  *)
(* reading it rest on.                                                     *)
(***************************************************************************)
EXTENDS GatewayConfig, FiniteSetTheorems, SequenceTheorems, FunctionTheorems, TLAPS

(* The initializer sets up a well-typed registry whose thresholds can all  *)
(* be met.                                                                 *)
LEMMA ConfigInitOK ==
    ASSUME ConfigInit
    PROVE  ConfigTypeOK /\ ThresholdsReachable
<1> USE DEF ConfigInit
<1>1. coprocessors \in Seq(Operator) /\ kmsNodes \in Seq(Operator)
  BY OperatorListsAssumption
<1>2. coprocessorThreshold \in Nat /\ kmsThresholds \in KmsThresholds
  BY ThresholdsAssumption
<1>3. hostChains \subseteq HostChains /\ paused \in [PausableContracts -> BOOLEAN]
  OBVIOUS
<1> QED
  BY <1>1, <1>2, <1>3 DEF ConfigTypeOK, ThresholdsReachable

(* Every call of the owner or of a pauser keeps the registry well typed    *)
(* and every threshold between its bounds: the setters of one threshold    *)
(* and the updates of a whole list each re-check what they leave behind.   *)
LEMMA ConfigNextOK ==
    ASSUME ConfigTypeOK, ThresholdsReachable, ConfigNext
    PROVE  ConfigTypeOK' /\ ThresholdsReachable'
<1> USE DEF ConfigTypeOK, ThresholdsReachable, ValidKmsThresholds,
            configVars, coprocessorVars, kmsVars
<1>1. CASE UpdateCoprocessors
  BY <1>1, OperatorListsAssumption, ThresholdsAssumption
     DEF UpdateCoprocessors, SetCoprocessors
<1>2. CASE UpdateCoprocessorThreshold
  BY <1>2, ThresholdsAssumption DEF UpdateCoprocessorThreshold
<1>3. CASE UpdateKmsNodes
  BY <1>3, OperatorListsAssumption, ThresholdsAssumption
     DEF UpdateKmsNodes, SetKmsNodes
<1>4. CASE UpdateMpcThreshold
  BY <1>4, ThresholdsAssumption DEF UpdateMpcThreshold, KmsThresholds
<1>5. CASE UpdatePublicDecryptionThreshold
  BY <1>5, ThresholdsAssumption DEF UpdatePublicDecryptionThreshold, KmsThresholds
<1>6. CASE UpdateUserDecryptionThreshold
  BY <1>6, ThresholdsAssumption DEF UpdateUserDecryptionThreshold, KmsThresholds
<1>7. CASE UpdateKmsGenThreshold
  BY <1>7, ThresholdsAssumption DEF UpdateKmsGenThreshold, KmsThresholds
<1>8. CASE AddHostChain
  BY <1>8 DEF AddHostChain
<1>9. CASE PauseNext
  BY <1>9 DEF PauseNext, Pause, Unpause, PauseAllGatewayContracts,
              UnpauseAllGatewayContracts, SetPaused, PausableContracts
<1> QED
  BY <1>1, <1>2, <1>3, <1>4, <1>5, <1>6, <1>7, <1>8, <1>9
     DEF ConfigNext, CoprocessorConfigNext, KmsConfigNext

(* What a contract reads of the registry when it counts operators.         *)
RegistryOK == ConfigTypeOK /\ ThresholdsReachable

(* The registry of a freshly deployed gateway can be counted with.         *)
LEMMA RegistryInit == ConfigInit => RegistryOK
BY ConfigInitOK DEF RegistryOK

(* Reconfigurations leave a registry that can be counted with.             *)
LEMMA RegistryStep == RegistryOK /\ [ConfigNext]_configVars => RegistryOK'
<1>1. RegistryOK /\ ConfigNext => RegistryOK'
  BY ConfigNextOK DEF RegistryOK
<1>2. RegistryOK /\ UNCHANGED configVars => RegistryOK'
  BY DEF RegistryOK, configVars, coprocessorVars, kmsVars, ConfigTypeOK,
         ThresholdsReachable, ValidCoprocessorThreshold, ValidKmsThresholds,
         ValidMpcThreshold, ValidConsensusThreshold
<1> QED
  BY <1>1, <1>2

(* A registered sender has a registered signer: the mapping read for it    *)
(* holds the last entry written for it, which is in the list.              *)
LEMMA SignerOfRegistered ==
    ASSUME NEW list \in Seq(Operator), NEW a, IsTxSender(list, a)
    PROVE  SignerOf(list, a) \in Address /\ IsSigner(list, SignerOf(list, a))
<1> DEFINE n == Len(list)
           Later == {n - i : i \in {j \in 1 .. n : list[j].txSender = a}}
<1>1. Later \subseteq Nat /\ Later # {}
  BY DEF IsTxSender
<1>2. PICK m \in Later : \A k \in Later : ~(k < m)
  <2>1. PICK m \in Later : \A k \in Later : ~(<<k, m>> \in OpToRel(<, Nat))
    BY <1>1, NatLessThanWellFounded, WFMin, Zenon
  <2>2. \A k, l \in Nat : k < l => <<k, l>> \in OpToRel(<, Nat)
    BY DEF OpToRel
  <2> QED
    BY <1>1, <2>1, <2>2
<1>3. PICK i \in 1 .. n : list[i].txSender = a /\ m = n - i
  OBVIOUS
<1>4. \A j \in 1 .. n : list[j].txSender = a => j <= i
  <2> SUFFICES ASSUME NEW j \in 1 .. n, list[j].txSender = a
               PROVE  j <= i
    OBVIOUS
  <2>1. n - j \in Later
    OBVIOUS
  <2>2. ~(n - j < n - i)
    BY <1>2, <1>3, <2>1
  <2> QED
    BY <2>2
<1>5. LastEntry(list, a) \in DOMAIN list
  BY <1>3, <1>4 DEF LastEntry
<1>6. list[LastEntry(list, a)] \in Operator
  BY <1>5, ElementOfSeq
<1>7. SignerOf(list, a) \in Address
  BY <1>6 DEF SignerOf, Operator
<1>8. IsSigner(list, SignerOf(list, a))
  BY <1>5, Zenon DEF SignerOf, IsSigner
<1> QED
  BY <1>7, <1>8

----------------------------------------------------------------------------
(* The contracts keep the responders of a request in lists that only grow  *)
(* at their end, and compare the lengths of those lists with thresholds.   *)

(* What a list of responders holds after one more response.                *)
LEMMA Appended ==
    ASSUME NEW S, NEW s \in Seq(S), NEW x \in S
    PROVE  /\ Append(s, x) \in Seq(S)
           /\ Len(Append(s, x)) = Len(s) + 1
           /\ \A i \in DOMAIN s : /\ i \in DOMAIN Append(s, x)
                                  /\ Append(s, x)[i] = s[i]
           /\ \A i \in DOMAIN Append(s, x) :
                 \/ i \in DOMAIN s /\ Append(s, x)[i] = s[i]
                 \/ i = Len(s) + 1 /\ Append(s, x)[i] = x
           /\ Len(s) + 1 \in DOMAIN Append(s, x)
           /\ Append(s, x)[Len(s) + 1] = x
<1>1. /\ Append(s, x) \in Seq(S) /\ Len(Append(s, x)) = Len(s) + 1
      /\ DOMAIN Append(s, x) = 1 .. Len(s) + 1
      /\ \A i \in 1 .. Len(s) : Append(s, x)[i] = s[i]
      /\ Append(s, x)[Len(s) + 1] = x
      /\ DOMAIN s = 1 .. Len(s)
      /\ Len(s) \in Nat
  OBVIOUS
<1>2. \A i \in 1 .. Len(s) + 1 : i \in 1 .. Len(s) \/ i = Len(s) + 1
  BY <1>1
<1>3. 1 .. Len(s) \subseteq 1 .. Len(s) + 1 /\ Len(s) + 1 \in 1 .. Len(s) + 1
  BY <1>1
<1> QED
  BY <1>1, <1>2, <1>3, Zenon

(* The same for lists kept per request and per answer: one list grows.     *)
LEMMA AppendedInside ==
    ASSUME NEW I, NEW J, NEW S, NEW f \in [I -> [J -> Seq(S)]],
           NEW i \in I, NEW j \in J, NEW x \in S,
           NEW g, g = [f EXCEPT ![i][j] = Append(@, x)]
    PROVE  /\ g \in [I -> [J -> Seq(S)]]
           /\ g[i][j] = Append(f[i][j], x)
           /\ \A k \in I, l \in J : ~(k = i /\ l = j) => g[k][l] = f[k][l]
           /\ \A k \in I, l \in J : \A n \in DOMAIN f[k][l] :
                 n \in DOMAIN g[k][l] /\ g[k][l][n] = f[k][l][n]
           /\ \A k \in I, l \in J : \A n \in DOMAIN g[k][l] :
                 \/ n \in DOMAIN f[k][l] /\ g[k][l][n] = f[k][l][n]
                 \/ k = i /\ l = j /\ n = Len(f[i][j]) + 1 /\ g[k][l][n] = x
           /\ \E n \in DOMAIN g[i][j] : g[i][j][n] = x
           /\ Len(g[i][j]) = Len(f[i][j]) + 1
<1>1. f[i][j] \in Seq(S)
  OBVIOUS
<1>2. Append(f[i][j], x) \in Seq(S)
  BY <1>1
<1>3. g \in [I -> [J -> Seq(S)]]
  BY <1>2
<1>4. g[i][j] = Append(f[i][j], x)
  OBVIOUS
<1>5. \A k \in I, l \in J : ~(k = i /\ l = j) => g[k][l] = f[k][l]
  OBVIOUS
<1>6. /\ Len(g[i][j]) = Len(f[i][j]) + 1
      /\ \A n \in DOMAIN f[i][j] : n \in DOMAIN g[i][j] /\ g[i][j][n] = f[i][j][n]
      /\ \A n \in DOMAIN g[i][j] :
            \/ n \in DOMAIN f[i][j] /\ g[i][j][n] = f[i][j][n]
            \/ n = Len(f[i][j]) + 1 /\ g[i][j][n] = x
      /\ \E n \in DOMAIN g[i][j] : g[i][j][n] = x
  BY <1>1, <1>4, Appended
<1>7. \A k \in I, l \in J : \A n \in DOMAIN f[k][l] :
         n \in DOMAIN g[k][l] /\ g[k][l][n] = f[k][l][n]
  <2> SUFFICES ASSUME NEW k \in I, NEW l \in J, NEW n \in DOMAIN f[k][l]
               PROVE  n \in DOMAIN g[k][l] /\ g[k][l][n] = f[k][l][n]
    OBVIOUS
  <2>1. CASE k = i /\ l = j
    BY <1>6, <2>1, Zenon
  <2>2. CASE ~(k = i /\ l = j)
    BY <1>5, <2>2, Zenon
  <2> QED
    BY <2>1, <2>2
<1>8. \A k \in I, l \in J : \A n \in DOMAIN g[k][l] :
         \/ n \in DOMAIN f[k][l] /\ g[k][l][n] = f[k][l][n]
         \/ k = i /\ l = j /\ n = Len(f[i][j]) + 1 /\ g[k][l][n] = x
  <2> SUFFICES ASSUME NEW k \in I, NEW l \in J, NEW n \in DOMAIN g[k][l]
               PROVE  \/ n \in DOMAIN f[k][l] /\ g[k][l][n] = f[k][l][n]
                      \/ /\ k = i /\ l = j /\ n = Len(f[i][j]) + 1
                         /\ g[k][l][n] = x
    OBVIOUS
  <2>1. CASE k = i /\ l = j
    BY <1>6, <2>1, Zenon
  <2>2. CASE ~(k = i /\ l = j)
    BY <1>5, <2>2, Zenon
  <2> QED
    BY <2>1, <2>2
<1> QED
  BY <1>3, <1>4, <1>5, <1>6, <1>7, <1>8

(* No responder is twice in the list.                                      *)
Distinct(s) == \A i, j \in DOMAIN s : s[i] = s[j] => i = j

(* A responder that is not in the list yet keeps it free of repetition.    *)
LEMMA AppendDistinct ==
    ASSUME NEW S, NEW s \in Seq(S), NEW x \in S,
           Distinct(s), \A i \in DOMAIN s : s[i] # x
    PROVE  Distinct(Append(s, x))
<1> SUFFICES ASSUME NEW i \in DOMAIN Append(s, x), NEW j \in DOMAIN Append(s, x),
                    Append(s, x)[i] = Append(s, x)[j]
             PROVE  i = j
  BY DEF Distinct
<1>1. /\ \/ i \in DOMAIN s /\ Append(s, x)[i] = s[i]
         \/ i = Len(s) + 1 /\ Append(s, x)[i] = x
      /\ \/ j \in DOMAIN s /\ Append(s, x)[j] = s[j]
         \/ j = Len(s) + 1 /\ Append(s, x)[j] = x
  BY Appended
<1> QED
  BY <1>1, Zenon DEF Distinct

(* A list without repetition has as many elements as entries: the length   *)
(* of a list of responders, which the contracts compare with a threshold,  *)
(* counts responders.                                                      *)
LEMMA DistinctEntries ==
    ASSUME NEW S, NEW s \in Seq(S), Distinct(s)
    PROVE  Cardinality({s[i] : i \in DOMAIN s}) = Len(s)
<1> DEFINE R == {s[i] : i \in DOMAIN s}
<1>1. DOMAIN s = 1 .. Len(s) /\ Len(s) \in Nat
  OBVIOUS
<1>2. s \in [1 .. Len(s) -> R]
  <2>1. s = [i \in 1 .. Len(s) |-> s[i]]
    OBVIOUS
  <2>2. \A i \in 1 .. Len(s) : s[i] \in R
    BY <1>1
  <2> QED
    BY <2>1, <2>2
<1>3. s \in Bijection(1 .. Len(s), R)
  BY <1>1, <1>2, Fun_IsBij DEF Distinct
<1> QED
  BY <1>1, <1>3, FS_CountingElements DEF ExistsBijection
============================================================================
