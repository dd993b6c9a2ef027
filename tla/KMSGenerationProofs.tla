------------------------ MODULE KMSGenerationProofs ------------------------
(***************************************************************************)
(* Proofs about the KMSGeneration contract, for any operator lists,        *)
(* thresholds and contents and any number of keys and CRSs.                *)
(*                                                                         *)
(* What is said of the order of the keys rests on three facts: the two     *)
(* counters of a key move together, the pairing joins the two identifiers  *)
(* of one key, and nothing completes that was not requested.  The last one *)
(* needs nodes that answer the events of the contract; what is counted     *)
(* and decided does not, and is proved for answers to any identifier.      *)
(***************************************************************************)
EXTENDS KMSGeneration, GatewayConfigProofs

GenerationTypeOK ==
    /\ keygenIdPairs \in [GenIds -> GenIds \cup {0}]
    /\ kmsHasSignedForResponse \in [GenIds -> SUBSET Address]
    /\ consensusTxSenderAddresses \in [GenIds -> [GenDigests -> Seq(Address)]]
    /\ isRequestDone \subseteq GenIds
    /\ consensusDigest \in [GenIds -> GenDigests \cup {ZeroDigest}]
    /\ activations \in [GenIds -> SUBSET Address]

(* The entries of the lists of one request, over all its digests.          *)
Votes(lists) == UNION {{<<d, i>> : i \in DOMAIN lists[d]} : d \in GenDigests}

VotesFinite ==
    \A id \in GenIds : /\ IsFiniteSet(kmsHasSignedForResponse[id])
                       /\ IsFiniteSet(Votes(consensusTxSenderAddresses[id]))

(* A request has the zero digest until it is done, and one of its answers' *)
(* digests from then on.                                                   *)
DigestOfDone ==
    \A id \in GenIds : consensusDigest[id] # ZeroDigest <=> id \in isRequestDone

CountersOK ==
    /\ prepKeygenCounter \in PrepKeygenBase .. PrepKeygenBase + MaxKeys
    /\ keyCounter = prepKeygenCounter + IdSpan
    /\ crsCounter \in CrsBase .. CrsBase + MaxCrs

(* What holds whichever identifiers are answered.                          *)
CountedInv ==
    /\ RegistryOK
    /\ CountersOK
    /\ GenerationTypeOK
    /\ VotesFinite
    /\ GenerationAnswersCounted
    /\ DigestOfDone

(* The two identifiers of one key are as far apart as their counters.      *)
PairsJoined ==
    \A p \in PrepIds : p <= prepKeygenCounter =>
        keygenIdPairs[p] = p + IdSpan /\ keygenIdPairs[p + IdSpan] = p

OnlyRequestedDone ==
    /\ \A id \in PrepIds \cap isRequestDone : id <= prepKeygenCounter
    /\ \A id \in KeyIds \cap isRequestDone : id <= keyCounter
    /\ \A id \in CrsIds \cap isRequestDone : id <= crsCounter

(* The parts of OneGenerationAtATime about keys and CRSs.                  *)
KeysInOrder ==
    \A id \in KeyIds :
        /\ id < keyCounter => id \in isRequestDone
        /\ id \in isRequestDone => id - IdSpan \in isRequestDone /\ id <= activeKeyId

CrsInOrder ==
    \A id \in CrsIds :
        /\ id < crsCounter => id \in isRequestDone
        /\ id \in isRequestDone => id <= activeCrsId

ActiveDone ==
    /\ activeKeyId # 0 => activeKeyId \in isRequestDone
    /\ activeCrsId # 0 => activeCrsId \in isRequestDone

(* What holds when the nodes answer the contract's events.                 *)
OrderInv ==
    /\ PairsJoined
    /\ OnlyRequestedDone
    /\ KeysInOrder
    /\ CrsInOrder
    /\ ActiveDone
    /\ ActivationNamesANode

IInv == CountedInv /\ OrderInv

----------------------------------------------------------------------------
(* The identifiers of the three kinds of requests never meet, and those of *)
(* a key and its preprocessing differ by the width of a counter.           *)
LEMMA GenerationIds ==
    /\ IdSpan \in Nat \ {0} /\ MaxKeys \in Nat /\ MaxCrs \in Nat
    /\ PrepKeygenBase \in Nat /\ KeyBase \in Nat /\ CrsBase \in Nat
    /\ KeyBase = PrepKeygenBase + IdSpan
    /\ \A id \in GenIds : id \in Nat /\ id # 0
    /\ \A id \in PrepIds : id + IdSpan \in KeyIds
    /\ \A id \in KeyIds : id - IdSpan \in PrepIds
    /\ \A id \in PrepIds : id \notin KeyIds /\ id \notin CrsIds
    /\ \A id \in KeyIds : id \notin CrsIds
<1>1. /\ IdSpan \in Nat \ {0}
      /\ MaxKeys \in 0 .. IdSpan - 1 /\ MaxCrs \in 0 .. IdSpan - 1
  BY IdSpanAssumption, GenerationAssumption
<1> DEFINE two == IdSpan + IdSpan
<1>2. /\ PrepKeygenBase = two + IdSpan /\ KeyBase = two + two
      /\ CrsBase = two + two + IdSpan
  BY <1>1 DEF PrepKeygenBase, KeyBase, CrsBase
<1>3. \A id \in PrepIds : id \in Nat /\ two + IdSpan < id /\ id < two + two
                          /\ id <= two + IdSpan + MaxKeys
  BY <1>1, <1>2 DEF PrepIds
<1>4. \A id \in KeyIds : id \in Nat /\ two + two < id /\ id < two + two + IdSpan
                         /\ id <= two + two + MaxKeys
  BY <1>1, <1>2 DEF KeyIds
<1>5. \A id \in CrsIds : id \in Nat /\ two + two + IdSpan < id
  BY <1>1, <1>2 DEF CrsIds
<1>6. \A id \in GenIds : id \in Nat /\ id # 0
  BY <1>1, <1>3, <1>4, <1>5 DEF GenIds
<1>7. \A id \in PrepIds : id + IdSpan \in KeyIds
  BY <1>1, <1>2 DEF PrepIds, KeyIds
<1>8. \A id \in KeyIds : id - IdSpan \in PrepIds
  BY <1>1, <1>2 DEF PrepIds, KeyIds
<1>9. \A id \in PrepIds : id \notin KeyIds /\ id \notin CrsIds
  BY <1>1, <1>3, <1>4, <1>5
<1>10. \A id \in KeyIds : id \notin CrsIds
  BY <1>1, <1>4, <1>5
<1> QED
  BY <1>1, <1>2, <1>6, <1>7, <1>8, <1>9, <1>10

(* The digests of the three kinds of answers are no zero digest.           *)
LEMMA GenDigestsKinds ==
    /\ ZeroDigest \notin GenDigests
    /\ PrepDigest \in GenDigests
    /\ \A c \in Contents : <<"keygen", c>> \in GenDigests /\ <<"crsgen", c>> \in GenDigests
BY DEF ZeroDigest, PrepDigest, GenDigests

----------------------------------------------------------------------------
(* One more sender in one list is one more vote.                           *)
LEMMA VoteAdded ==
    ASSUME NEW f \in [GenDigests -> Seq(Address)],
           NEW d \in GenDigests, NEW sender \in Address, NEW g,
           g[d] = Append(f[d], sender), \A e \in GenDigests : e # d => g[e] = f[e],
           IsFiniteSet(Votes(f))
    PROVE  /\ IsFiniteSet(Votes(g))
           /\ Cardinality(Votes(g)) = Cardinality(Votes(f)) + 1
<1> DEFINE n == Len(f[d]) + 1
<1>2. f[d] \in Seq(Address)
  OBVIOUS
<1>3. /\ DOMAIN g[d] = DOMAIN f[d] \cup {n}
      /\ n \notin DOMAIN f[d]
  BY <1>2
<1> HIDE DEF n
<1>4. Votes(g) = Votes(f) \cup {<<d, n>>}
  <2>1. ASSUME NEW e \in GenDigests
        PROVE  {<<e, i>> : i \in DOMAIN g[e]} =
                   IF e = d THEN {<<e, i>> : i \in DOMAIN f[e]} \cup {<<d, n>>}
                            ELSE {<<e, i>> : i \in DOMAIN f[e]}
    BY <1>3
  <2> DEFINE T(lists, e) == {<<e, i>> : i \in DOMAIN lists[e]}
  <2>2. \A x : /\ x \in Votes(g) <=> \E e \in GenDigests : x \in T(g, e)
               /\ x \in Votes(f) <=> \E e \in GenDigests : x \in T(f, e)
    BY DEF Votes
  <2>3. \A e \in GenDigests : T(g, e) = IF e = d THEN T(f, e) \cup {<<d, n>>}
                                            ELSE T(f, e)
    BY <2>1
  <2> HIDE DEF T
  <2>4. \A x : \A e \in GenDigests :
           x \in T(g, e) <=> x \in T(f, e) \/ (e = d /\ x = <<d, n>>)
    BY <2>3
  <2>5. \A x : x \in Votes(g) <=> x \in Votes(f) \/ x = <<d, n>>
    BY <2>2, <2>4
  <2> QED
    BY <2>5
<1>5. <<d, n>> \notin Votes(f)
  BY <1>3 DEF Votes
<1> DEFINE V == Votes(f)
<1>6. /\ IsFiniteSet(V \cup {<<d, n>>})
      /\ Cardinality(V \cup {<<d, n>>}) = Cardinality(V) + 1
  <2>1. IsFiniteSet(V) /\ <<d, n>> \notin V
    BY <1>5
  <2> HIDE DEF V
  <2> QED
    BY <2>1, FS_AddElement
<1> QED
  BY <1>4, <1>6

(* The length of one list is at most the number of votes.                  *)
LEMMA ListWithinVotes ==
    ASSUME NEW f \in [GenDigests -> Seq(Address)], NEW d \in GenDigests,
           IsFiniteSet(Votes(f))
    PROVE  Len(f[d]) <= Cardinality(Votes(f))
<1> DEFINE n == Len(f[d])
           S == {<<d, i>> : i \in 1 .. n}
           b == [i \in 1 .. n |-> <<d, i>>]
<1>1. DOMAIN f[d] = 1 .. n /\ n \in Nat
  OBVIOUS
<1>2. S \subseteq Votes(f)
  BY <1>1 DEF Votes
<1>3. b \in Bijection(1 .. n, S)
  <2>1. b \in [1 .. n -> S]
    OBVIOUS
  <2>2. \A i, j \in 1 .. n : b[i] = b[j] => i = j
    OBVIOUS
  <2>3. \A s \in S : \E i \in 1 .. n : b[i] = s
    OBVIOUS
  <2> QED
    BY <2>1, <2>2, <2>3, Fun_IsBij
<1>4. Cardinality(S) = n
  BY <1>1, <1>3, FS_CountingElements DEF ExistsBijection
<1> QED
  BY <1>2, <1>4, FS_Subset

----------------------------------------------------------------------------
(* An answer to a request, of whatever kind and to whichever identifier.   *)
Answer(id, digest) ==
    /\ \E signer, sender \in Address : RecordAnswer(id, digest, signer, sender)
    /\ Complete(id, digest)
    /\ UNCHANGED <<configVars, counterVars, keygenIdPairs>>
    /\ \/ UNCHANGED activations
       \/ activations' = [activations EXCEPT
                             ![id] = UrlsOf(consensusTxSenderAddresses'[id][digest])]

(* What is recorded of an answer: one more vote, of one more signer.       *)
LEMMA AnswerRecorded ==
    ASSUME CountedInv, NEW id \in GenIds, NEW digest \in GenDigests,
           NEW signer \in Address, NEW sender \in Address,
           RecordAnswer(id, digest, signer, sender)
    PROVE  /\ kmsHasSignedForResponse' \in [GenIds -> SUBSET Address]
           /\ consensusTxSenderAddresses' \in [GenIds -> [GenDigests -> Seq(Address)]]
           /\ VotesFinite'
           /\ GenerationAnswersCounted'
<1>1. /\ kmsHasSignedForResponse \in [GenIds -> SUBSET Address]
      /\ consensusTxSenderAddresses \in [GenIds -> [GenDigests -> Seq(Address)]]
  BY DEF CountedInv, GenerationTypeOK
<1>2. \A k \in GenIds :
         /\ IsFiniteSet(kmsHasSignedForResponse[k])
         /\ IsFiniteSet(Votes(consensusTxSenderAddresses[k]))
         /\ Cardinality(Votes(consensusTxSenderAddresses[k]))
                = Cardinality(kmsHasSignedForResponse[k])
  BY DEF CountedInv, VotesFinite, GenerationAnswersCounted, Votes
<1>3. /\ signer \notin kmsHasSignedForResponse[id]
      /\ kmsHasSignedForResponse' =
             [kmsHasSignedForResponse EXCEPT ![id] = @ \cup {signer}]
      /\ consensusTxSenderAddresses' =
             [consensusTxSenderAddresses EXCEPT ![id][digest] = Append(@, sender)]
  BY DEF RecordAnswer
<1>4. /\ consensusTxSenderAddresses' \in [GenIds -> [GenDigests -> Seq(Address)]]
      /\ \A k \in GenIds : k # id =>
            consensusTxSenderAddresses'[k] = consensusTxSenderAddresses[k]
  <2>1. consensusTxSenderAddresses' \in [GenIds -> [GenDigests -> Seq(Address)]]
    BY <1>1, <1>3, AppendedInside
  <2> QED
    BY <1>1, <1>3, <2>1
<1>5. /\ IsFiniteSet(Votes(consensusTxSenderAddresses'[id]))
      /\ Cardinality(Votes(consensusTxSenderAddresses'[id]))
             = Cardinality(Votes(consensusTxSenderAddresses[id])) + 1
  <2> DEFINE f == consensusTxSenderAddresses[id]
             g == consensusTxSenderAddresses'[id]
  <2>1. /\ g[digest] = Append(f[digest], sender)
        /\ \A e \in GenDigests : e # digest => g[e] = f[e]
    BY <1>1, <1>3, AppendedInside
  <2>2. f \in [GenDigests -> Seq(Address)] /\ IsFiniteSet(Votes(f))
    BY <1>1, <1>2
  <2> HIDE DEF f, g
  <2>3. /\ IsFiniteSet(Votes(g))
        /\ Cardinality(Votes(g)) = Cardinality(Votes(f)) + 1
    BY <2>1, <2>2, VoteAdded
  <2> QED
    BY <2>3 DEF f, g
<1>6. /\ kmsHasSignedForResponse' \in [GenIds -> SUBSET Address]
      /\ kmsHasSignedForResponse'[id] = kmsHasSignedForResponse[id] \cup {signer}
      /\ \A k \in GenIds : k # id =>
            kmsHasSignedForResponse'[k] = kmsHasSignedForResponse[k]
  BY <1>1, <1>3
<1>7. /\ IsFiniteSet(kmsHasSignedForResponse'[id])
      /\ Cardinality(kmsHasSignedForResponse'[id])
             = Cardinality(kmsHasSignedForResponse[id]) + 1
  BY <1>2, <1>3, <1>6, FS_AddElement
<1>8. \A k \in GenIds :
         /\ IsFiniteSet(kmsHasSignedForResponse'[k])
         /\ IsFiniteSet(Votes(consensusTxSenderAddresses'[k]))
         /\ Cardinality(Votes(consensusTxSenderAddresses'[k]))
                = Cardinality(kmsHasSignedForResponse'[k])
  <2> SUFFICES ASSUME NEW k \in GenIds
               PROVE  /\ IsFiniteSet(kmsHasSignedForResponse'[k])
                      /\ IsFiniteSet(Votes(consensusTxSenderAddresses'[k]))
                      /\ Cardinality(Votes(consensusTxSenderAddresses'[k]))
                             = Cardinality(kmsHasSignedForResponse'[k])
    OBVIOUS
  <2>1. CASE k = id
    BY <1>2, <1>5, <1>7, <2>1
  <2>2. CASE k # id
    BY <1>2, <1>4, <1>6, <2>2
  <2> QED
    BY <2>1, <2>2
<1> QED
  BY <1>4, <1>6, <1>8 DEF VotesFinite, GenerationAnswersCounted, Votes

(* An answer keeps what is counted and decided.                            *)
LEMMA AnswerKeepsCounted ==
    ASSUME CountedInv, NEW id \in GenIds, NEW digest \in GenDigests, Answer(id, digest)
    PROVE  CountedInv'
<1>1. PICK signer \in Address, sender \in Address :
         RecordAnswer(id, digest, signer, sender)
  BY DEF Answer
<1>2. /\ kmsHasSignedForResponse' \in [GenIds -> SUBSET Address]
      /\ consensusTxSenderAddresses' \in [GenIds -> [GenDigests -> Seq(Address)]]
      /\ VotesFinite'
      /\ GenerationAnswersCounted'
  BY <1>1, AnswerRecorded
<1>3. RegistryOK'
  BY RegistryStep DEF CountedInv, Answer
<1>4. activations' \in [GenIds -> SUBSET Address]
  <2>1. activations \in [GenIds -> SUBSET Address]
    BY DEF CountedInv, GenerationTypeOK
  <2>2. consensusTxSenderAddresses'[id][digest] \in Seq(Address)
    BY <1>2
  <2>3. UrlsOf(consensusTxSenderAddresses'[id][digest]) \in SUBSET Address
    BY <2>2 DEF UrlsOf
  <2> QED
    BY <2>1, <2>3 DEF Answer
<1>5. /\ isRequestDone' \subseteq GenIds
      /\ consensusDigest' \in [GenIds -> GenDigests \cup {ZeroDigest}]
      /\ DigestOfDone'
  <2>1. /\ isRequestDone \subseteq GenIds
        /\ consensusDigest \in [GenIds -> GenDigests \cup {ZeroDigest}]
        /\ DigestOfDone
    BY DEF CountedInv, GenerationTypeOK
  <2>2. CASE CompletesNow(id, digest)
    BY <2>1, <2>2, GenDigestsKinds DEF Answer, Complete, DigestOfDone
  <2>3. CASE ~CompletesNow(id, digest)
    BY <2>1, <2>3 DEF Answer, Complete, DigestOfDone, doneVars
  <2> QED
    BY <2>2, <2>3
<1>6. keygenIdPairs' \in [GenIds -> GenIds \cup {0}]
  BY DEF CountedInv, GenerationTypeOK, Answer
<1>7. CountersOK'
  BY DEF CountedInv, CountersOK, Answer, counterVars
<1> QED
  BY <1>2, <1>3, <1>4, <1>5, <1>6, <1>7 DEF CountedInv, GenerationTypeOK

(* The three kinds of responses are such answers.                          *)
LEMMA ResponsesAnswer ==
    ASSUME NEW id \in GenIds, NEW signer \in Address, NEW sender \in Address
    PROVE  /\ PrepKeygenResponse(id, signer, sender) =>
                  Answer(id, PrepDigest) /\ UNCHANGED activeVars
           /\ \A c \in Contents : KeygenResponse(id, c, signer, sender) =>
                  Answer(id, <<"keygen", c>>)
           /\ \A c \in Contents : CrsgenResponse(id, c, signer, sender) =>
                  Answer(id, <<"crsgen", c>>)
<1>1. PrepKeygenResponse(id, signer, sender) => Answer(id, PrepDigest) /\ UNCHANGED activeVars
  BY DEF PrepKeygenResponse, Answer, activeVars
<1>2. ASSUME NEW c \in Contents, KeygenResponse(id, c, signer, sender)
      PROVE  Answer(id, <<"keygen", c>>)
  BY <1>2 DEF KeygenResponse, Answer, activeVars
<1>3. ASSUME NEW c \in Contents, CrsgenResponse(id, c, signer, sender)
      PROVE  Answer(id, <<"crsgen", c>>)
  BY <1>3 DEF CrsgenResponse, Answer, activeVars
<1> QED
  BY <1>1, <1>2, <1>3

(* A call of the owner counts one more request of its kind.                *)
LEMMA OwnerKeepsCounted ==
    ASSUME CountedInv, OwnerNext
    PROVE  CountedInv'
<1>1. UNCHANGED <<configVars, voteVars, doneVars, activeVars>>
  BY DEF OwnerNext, Keygen, CrsgenRequest, KeyReshareSameSet
<1>2. RegistryOK'
  BY <1>1, RegistryStep DEF CountedInv
<1>3. VotesFinite' /\ GenerationAnswersCounted' /\ DigestOfDone'
  BY <1>1 DEF CountedInv, VotesFinite, GenerationAnswersCounted, DigestOfDone, voteVars, doneVars
<1>4. CountersOK' /\ keygenIdPairs' \in [GenIds -> GenIds \cup {0}]
  <2>1. CountersOK /\ keygenIdPairs \in [GenIds -> GenIds \cup {0}]
    BY DEF CountedInv, GenerationTypeOK
  <2>2. CASE Keygen
    <3>1. /\ prepKeygenCounter' = prepKeygenCounter + 1 /\ keyCounter' = keyCounter + 1
          /\ keyCounter < KeyBase + MaxKeys /\ crsCounter' = crsCounter
      BY <2>2 DEF Keygen
    <3>2. CountersOK'
      BY <2>1, <3>1, GenerationIds DEF CountersOK
    <3>3. prepKeygenCounter' \in PrepIds /\ keyCounter' \in KeyIds
      BY <2>1, <3>1, <3>2, GenerationIds DEF CountersOK, PrepIds, KeyIds
    <3>4. prepKeygenCounter' \in GenIds /\ keyCounter' \in GenIds
      BY <3>3 DEF GenIds
    <3>5. keygenIdPairs' = [keygenIdPairs EXCEPT ![prepKeygenCounter'] = keyCounter',
                                                 ![keyCounter'] = prepKeygenCounter']
      BY <2>2 DEF Keygen
    <3>6. keygenIdPairs' \in [GenIds -> GenIds \cup {0}]
      BY <2>1, <3>4, <3>5
    <3> QED
      BY <3>2, <3>6
  <2>3. CASE CrsgenRequest
    BY <2>1, <2>3, GenerationIds DEF CrsgenRequest, CountersOK
  <2>4. CASE \E id \in GenIds : KeyReshareSameSet(id)
    BY <2>1, <2>4 DEF KeyReshareSameSet, CountersOK
  <2> QED
    BY <2>2, <2>3, <2>4 DEF OwnerNext
<1>5. GenerationTypeOK'
  BY <1>1, <1>4 DEF CountedInv, GenerationTypeOK, voteVars, doneVars, activeVars
<1> QED
  BY <1>2, <1>3, <1>4, <1>5 DEF CountedInv

(* Updates of the registry, and steps of other contracts, leave the        *)
(* requests alone.                                                         *)
LEMMA OthersKeepCounted ==
    ASSUME CountedInv, KmsUpdates \/ UNCHANGED vars
    PROVE  CountedInv' /\ UNCHANGED generationVars
<1>1. UNCHANGED generationVars /\ [ConfigNext]_configVars
  BY DEF KmsUpdates, vars, ConfigNext, KmsConfigNext
<1>2. RegistryOK'
  BY <1>1, RegistryStep DEF CountedInv
<1>3. UNCHANGED <<counterVars, keygenIdPairs, voteVars, doneVars, activeVars>>
  BY <1>1 DEF generationVars
<1>4. CountersOK'
  BY <1>3 DEF CountedInv, CountersOK, counterVars
<1>5. GenerationTypeOK'
  BY <1>3 DEF CountedInv, GenerationTypeOK, voteVars, doneVars, activeVars
<1>6. VotesFinite' /\ GenerationAnswersCounted' /\ DigestOfDone'
  BY <1>3 DEF CountedInv, VotesFinite, GenerationAnswersCounted, DigestOfDone, voteVars, doneVars
<1> QED
  BY <1>1, <1>2, <1>4, <1>5, <1>6 DEF CountedInv

(* A freshly deployed contract has counted and decided nothing.            *)
LEMMA InitCounted == Init => CountedInv
<1> SUFFICES ASSUME Init PROVE CountedInv
  OBVIOUS
<1>1. RegistryOK
  BY RegistryInit DEF Init
<1>2. CountersOK
  BY GenerationIds DEF Init, CountersOK
<1>3. GenerationTypeOK
  <2>1. <<>> \in Seq(Address)
    OBVIOUS
  <2>2. consensusTxSenderAddresses \in [GenIds -> [GenDigests -> Seq(Address)]]
    BY <2>1 DEF Init
  <2> QED
    BY <2>2 DEF Init, GenerationTypeOK
<1>4. ASSUME NEW id \in GenIds
      PROVE  /\ kmsHasSignedForResponse[id] = {}
             /\ Votes(consensusTxSenderAddresses[id]) = {}
  <2>1. \A d \in GenDigests : consensusTxSenderAddresses[id][d] = <<>>
    BY DEF Init
  <2>2. \A d \in GenDigests : {<<d, i>> : i \in DOMAIN consensusTxSenderAddresses[id][d]} = {}
    BY <2>1
  <2>3. Votes(consensusTxSenderAddresses[id]) = {}
    BY <2>2 DEF Votes
  <2> QED
    BY <2>3 DEF Init
<1>5. VotesFinite /\ GenerationAnswersCounted
  BY <1>4, FS_EmptySet DEF VotesFinite, GenerationAnswersCounted, Votes
<1>6. DigestOfDone
  BY DEF Init, DigestOfDone
<1> QED
  BY <1>1, <1>2, <1>3, <1>5, <1>6 DEF CountedInv

(* Answers to any identifier keep what is counted and decided.             *)
LEMMA AnyAnswerCounted ==
    CountedInv /\ [OwnerNext \/ AnyAnswerNext \/ KmsUpdates]_vars => CountedInv'
<1> SUFFICES ASSUME CountedInv, [OwnerNext \/ AnyAnswerNext \/ KmsUpdates]_vars
             PROVE  CountedInv'
  OBVIOUS
<1>1. CASE OwnerNext
  BY <1>1, OwnerKeepsCounted
<1>2. CASE AnyAnswerNext
  <2>1. PICK id \in GenIds, signer \in Address, sender \in Address :
           \/ PrepKeygenResponse(id, signer, sender)
           \/ \E c \in Contents : KeygenResponse(id, c, signer, sender)
           \/ \E c \in Contents : CrsgenResponse(id, c, signer, sender)
    BY <1>2 DEF AnyAnswerNext
  <2>2. \E digest \in GenDigests : Answer(id, digest)
    BY <2>1, ResponsesAnswer, GenDigestsKinds
  <2> QED
    BY <2>2, AnswerKeepsCounted
<1>3. CASE KmsUpdates \/ UNCHANGED vars
  BY <1>3, OthersKeepCounted
<1> QED
  BY <1>1, <1>2, <1>3

(* No signer counts twice for a request, whichever identifiers the nodes   *)
(* answer and however they are rotated meanwhile.                          *)
THEOREM AnyAnswersUnique == AnyAnswerSpec => []GenerationAnswersCounted
<1>1. CountedInv => GenerationAnswersCounted
  BY DEF CountedInv
<1> QED
  BY <1>1, InitCounted, AnyAnswerCounted, PTL DEF AnyAnswerSpec

----------------------------------------------------------------------------
(* With nodes that answer the contract's events.                           *)

(* What an answer does to the set of completed requests.                   *)
LEMMA AnswerDone ==
    ASSUME NEW id \in GenIds, NEW digest \in GenDigests, Answer(id, digest)
    PROVE  /\ UNCHANGED <<counterVars, keygenIdPairs>>
           /\ CompletesNow(id, digest) =>
                  id \notin isRequestDone /\ isRequestDone' = isRequestDone \cup {id}
           /\ ~CompletesNow(id, digest) => isRequestDone' = isRequestDone
BY DEF Answer, Complete, CompletesNow, doneVars

(* The activation names the node whose answer completed the request.       *)
LEMMA LastSenderNamed ==
    ASSUME CountedInv, NEW id \in GenIds, NEW digest \in GenDigests,
           NEW signer \in Address, NEW sender \in Address,
           RecordAnswer(id, digest, signer, sender)
    PROVE  UrlsOf(consensusTxSenderAddresses'[id][digest]) # {}
<1>1. /\ consensusTxSenderAddresses \in [GenIds -> [GenDigests -> Seq(Address)]]
      /\ consensusTxSenderAddresses' =
             [consensusTxSenderAddresses EXCEPT ![id][digest] = Append(@, sender)]
      /\ IsTxSender(kmsNodes, sender)
  BY DEF CountedInv, GenerationTypeOK, RecordAnswer
<1>2. PICK n \in DOMAIN consensusTxSenderAddresses'[id][digest] :
         consensusTxSenderAddresses'[id][digest][n] = sender
  BY <1>1, AppendedInside
<1> QED
  BY <1>1, <1>2 DEF UrlsOf

(* A preprocessing that completes lets its key be answered.                *)
LEMMA PrepKeepsOrder ==
    ASSUME IInv, NEW id \in PrepIds, NEW signer \in Address, NEW sender \in Address,
           RequestedPrep(id), PrepKeygenResponse(id, signer, sender)
    PROVE  OrderInv'
<1>1. id \in GenIds /\ id <= prepKeygenCounter /\ id \notin KeyIds /\ id \notin CrsIds
  BY GenerationIds DEF RequestedPrep, GenIds
<1>2. Answer(id, PrepDigest) /\ UNCHANGED activeVars
  BY <1>1, ResponsesAnswer
<1>3. /\ UNCHANGED <<counterVars, keygenIdPairs, activeVars>>
      /\ isRequestDone' \in {isRequestDone, isRequestDone \cup {id}}
  BY <1>1, <1>2, AnswerDone, GenDigestsKinds
<1>4. UNCHANGED <<prepKeygenCounter, keyCounter, crsCounter, keygenIdPairs, activeKeyId,
                  activeCrsId, activations>>
  BY <1>3 DEF counterVars, activeVars
<1>5. \A k \in KeyIds \cup CrsIds : k \in isRequestDone' <=> k \in isRequestDone
  BY <1>1, <1>3
<1>6. isRequestDone \subseteq isRequestDone'
  BY <1>3
<1>7. PairsJoined'
  BY <1>4 DEF IInv, OrderInv, PairsJoined
<1>8. OnlyRequestedDone'
  BY <1>1, <1>3, <1>4, <1>5 DEF IInv, OrderInv, OnlyRequestedDone
<1>9. KeysInOrder' /\ CrsInOrder'
  BY <1>4, <1>5, <1>6 DEF IInv, OrderInv, KeysInOrder, CrsInOrder
<1>10. ActiveDone'
  BY <1>4, <1>6 DEF IInv, OrderInv, ActiveDone
<1>11. ActivationNamesANode'
  BY <1>4, <1>5 DEF IInv, OrderInv, ActivationNamesANode
<1> QED
  BY <1>7, <1>8, <1>9, <1>10, <1>11 DEF OrderInv

(* The key of a completed preprocessing is a requested one, and the only   *)
(* one that may still complete is the last.                                *)
LEMMA KeyOfPreprocessing ==
    ASSUME IInv, NEW p \in PrepIds \cap isRequestDone
    PROVE  /\ keygenIdPairs[p] = p + IdSpan
           /\ keygenIdPairs[p] \in KeyIds
           /\ keygenIdPairs[p] \in GenIds
           /\ keygenIdPairs[p] <= keyCounter
           /\ keygenIdPairs[p] \notin isRequestDone => keygenIdPairs[p] = keyCounter
<1>1. p <= prepKeygenCounter
  BY DEF IInv, OrderInv, OnlyRequestedDone
<1>2. keygenIdPairs[p] = p + IdSpan
  BY <1>1 DEF IInv, OrderInv, PairsJoined
<1>3. keygenIdPairs[p] \in KeyIds /\ keygenIdPairs[p] \in GenIds
  BY <1>2, GenerationIds DEF GenIds
<1>4. keygenIdPairs[p] <= keyCounter
  <2>1. keyCounter = prepKeygenCounter + IdSpan /\ prepKeygenCounter \in Int
    BY GenerationIds DEF IInv, CountedInv, CountersOK
  <2>2. p \in Nat /\ IdSpan \in Nat
    BY GenerationIds DEF GenIds
  <2> QED
    BY <1>1, <1>2, <2>1, <2>2
<1>5. keygenIdPairs[p] < keyCounter => keygenIdPairs[p] \in isRequestDone
  BY <1>3 DEF IInv, OrderInv, KeysInOrder
<1>6. keygenIdPairs[p] \in Nat /\ keyCounter \in Int
  BY <1>3, GenerationIds DEF IInv, CountedInv, CountersOK
<1> QED
  BY <1>2, <1>3, <1>4, <1>5, <1>6

(* A key that completes is the last one, and becomes the active one.       *)
LEMMA KeygenKeepsOrder ==
    ASSUME IInv, NEW p \in PrepIds \cap isRequestDone, NEW c \in Contents,
           NEW signer \in Address, NEW sender \in Address,
           KeygenResponse(keygenIdPairs[p], c, signer, sender)
    PROVE  OrderInv' /\ \E id \in GenIds, d \in GenDigests : Answer(id, d)
<1> DEFINE id == keygenIdPairs[p]
           digest == <<"keygen", c>>
<1>1. /\ id = p + IdSpan /\ id \in KeyIds /\ id \in GenIds /\ id <= keyCounter
      /\ id \notin isRequestDone => id = keyCounter
  BY KeyOfPreprocessing
<1>2. id \in Nat /\ p \in Nat /\ IdSpan \in Nat /\ id # 0 /\ id - IdSpan = p
  BY <1>1, GenerationIds DEF GenIds
<1>3. /\ \A k \in KeyIds : k \notin PrepIds /\ k \notin CrsIds /\ k \in Nat
      /\ \A k \in CrsIds : k \notin PrepIds /\ k \notin KeyIds
  BY GenerationIds DEF GenIds
<1>4. digest \in GenDigests
  BY GenDigestsKinds
<1>5. Answer(id, digest)
  BY <1>1, ResponsesAnswer
<1>6. /\ UNCHANGED <<counterVars, keygenIdPairs>>
      /\ CompletesNow(id, digest) =>
             id \notin isRequestDone /\ isRequestDone' = isRequestDone \cup {id}
      /\ ~CompletesNow(id, digest) => isRequestDone' = isRequestDone
  BY <1>1, <1>4, <1>5, AnswerDone
<1>7. UNCHANGED <<prepKeygenCounter, keyCounter, crsCounter, keygenIdPairs, activeCrsId>>
  BY <1>6 DEF counterVars, KeygenResponse, activeVars
<1>8. isRequestDone \subseteq isRequestDone' /\ isRequestDone' \subseteq isRequestDone \cup {id}
  BY <1>6
<1>9. PairsJoined'
  BY <1>7 DEF IInv, OrderInv, PairsJoined
<1>10. /\ CompletesNow(id, digest) =>
             /\ activeKeyId' = id
             /\ activations' = [activations EXCEPT
                                   ![id] = UrlsOf(consensusTxSenderAddresses'[id][digest])]
       /\ ~CompletesNow(id, digest) => UNCHANGED <<activeKeyId, activations>>
  BY DEF KeygenResponse, activeVars
<1>11. RecordAnswer(id, digest, signer, sender)
  BY DEF KeygenResponse
<1>12. UrlsOf(consensusTxSenderAddresses'[id][digest]) # {}
  BY <1>1, <1>4, <1>11, LastSenderNamed DEF IInv
<1>13. activations \in [GenIds -> SUBSET Address] /\ isRequestDone \subseteq GenIds
  BY DEF IInv, CountedInv, GenerationTypeOK
<1> HIDE DEF id, digest
<1>14. OnlyRequestedDone'
  BY <1>1, <1>3, <1>7, <1>8 DEF IInv, OrderInv, OnlyRequestedDone
<1>15. KeysInOrder'
  <2> SUFFICES ASSUME NEW k \in KeyIds
               PROVE  /\ k < keyCounter' => k \in isRequestDone'
                      /\ k \in isRequestDone' =>
                             k - IdSpan \in isRequestDone' /\ k <= activeKeyId'
    BY DEF KeysInOrder
  <2>1. /\ k < keyCounter => k \in isRequestDone
        /\ k \in isRequestDone => k - IdSpan \in isRequestDone /\ k <= activeKeyId
        /\ k \in isRequestDone => k <= keyCounter
    BY DEF IInv, OrderInv, KeysInOrder, OnlyRequestedDone
  <2>2. CASE CompletesNow(id, digest)
    <3>1. activeKeyId' = keyCounter /\ id = keyCounter
      BY <1>1, <1>6, <1>10, <2>2
    <3>2. CASE k = id
      BY <1>2, <1>3, <1>6, <1>7, <1>8, <2>1, <2>2, <3>1, <3>2
    <3>3. CASE k # id
      BY <1>6, <1>7, <1>8, <2>1, <2>2, <3>1, <3>3
    <3> QED
      BY <3>2, <3>3
  <2>3. CASE ~CompletesNow(id, digest)
    BY <1>6, <1>7, <1>10, <2>1, <2>3
  <2> QED
    BY <2>2, <2>3
<1>16. CrsInOrder'
  BY <1>1, <1>3, <1>7, <1>8 DEF IInv, OrderInv, CrsInOrder
<1>17. ActiveDone'
  BY <1>6, <1>7, <1>8, <1>10 DEF IInv, OrderInv, ActiveDone
<1>18. ActivationNamesANode'
  <2> SUFFICES ASSUME NEW k \in (KeyIds \cup CrsIds), k \in isRequestDone'
               PROVE  activations'[k] # {}
    BY DEF ActivationNamesANode
  <2>1. k \in isRequestDone => activations[k] # {}
    BY DEF IInv, OrderInv, ActivationNamesANode
  <2>2. k \in GenIds
    BY DEF GenIds
  <2>3. CASE CompletesNow(id, digest)
    BY <1>1, <1>6, <1>10, <1>12, <1>13, <2>1, <2>2, <2>3
  <2>4. CASE ~CompletesNow(id, digest)
    BY <1>6, <1>10, <2>1, <2>4
  <2> QED
    BY <2>3, <2>4
<1> QED
  BY <1>1, <1>4, <1>5, <1>9, <1>14, <1>15, <1>16, <1>17, <1>18 DEF OrderInv

(* The same for a CRS.                                                     *)
LEMMA CrsgenKeepsOrder ==
    ASSUME IInv, NEW id \in CrsIds, RequestedCrs(id), NEW c \in Contents,
           NEW signer \in Address, NEW sender \in Address,
           CrsgenResponse(id, c, signer, sender)
    PROVE  OrderInv' /\ \E k \in GenIds, d \in GenDigests : Answer(k, d)
<1> DEFINE digest == <<"crsgen", c>>
<1>1. /\ id \in GenIds /\ id <= crsCounter /\ id # 0 /\ id \in Nat
      /\ crsCounter \in Int
  BY GenerationIds DEF RequestedCrs, GenIds, IInv, CountedInv, CountersOK
<1>2. id \notin isRequestDone => id = crsCounter
  BY <1>1 DEF IInv, OrderInv, CrsInOrder
<1>3. \A k \in PrepIds \cup KeyIds : k \notin CrsIds
  BY GenerationIds
<1>4. digest \in GenDigests
  BY GenDigestsKinds
<1>5. Answer(id, digest)
  BY <1>1, ResponsesAnswer
<1>6. /\ UNCHANGED <<counterVars, keygenIdPairs>>
      /\ CompletesNow(id, digest) =>
             id \notin isRequestDone /\ isRequestDone' = isRequestDone \cup {id}
      /\ ~CompletesNow(id, digest) => isRequestDone' = isRequestDone
  BY <1>1, <1>4, <1>5, AnswerDone
<1>7. UNCHANGED <<prepKeygenCounter, keyCounter, crsCounter, keygenIdPairs, activeKeyId>>
  BY <1>6 DEF counterVars, CrsgenResponse, activeVars
<1>8. isRequestDone \subseteq isRequestDone' /\ isRequestDone' \subseteq isRequestDone \cup {id}
  BY <1>6
<1>9. PairsJoined'
  BY <1>7 DEF IInv, OrderInv, PairsJoined
<1>10. /\ CompletesNow(id, digest) =>
             /\ activeCrsId' = id
             /\ activations' = [activations EXCEPT
                                   ![id] = UrlsOf(consensusTxSenderAddresses'[id][digest])]
       /\ ~CompletesNow(id, digest) => UNCHANGED <<activeCrsId, activations>>
  BY DEF CrsgenResponse, activeVars
<1>11. RecordAnswer(id, digest, signer, sender)
  BY DEF CrsgenResponse
<1>12. UrlsOf(consensusTxSenderAddresses'[id][digest]) # {}
  BY <1>1, <1>4, <1>11, LastSenderNamed DEF IInv
<1>13. activations \in [GenIds -> SUBSET Address] /\ isRequestDone \subseteq GenIds
  BY DEF IInv, CountedInv, GenerationTypeOK
<1> HIDE DEF digest
<1>14. OnlyRequestedDone'
  BY <1>1, <1>3, <1>7, <1>8 DEF IInv, OrderInv, OnlyRequestedDone
<1>15. CrsInOrder'
  <2> SUFFICES ASSUME NEW k \in CrsIds
               PROVE  /\ k < crsCounter' => k \in isRequestDone'
                      /\ k \in isRequestDone' => k <= activeCrsId'
    BY DEF CrsInOrder
  <2>1. /\ k < crsCounter => k \in isRequestDone
        /\ k \in isRequestDone => k <= activeCrsId
        /\ k \in isRequestDone => k <= crsCounter
    BY DEF IInv, OrderInv, CrsInOrder, OnlyRequestedDone
  <2>2. CASE CompletesNow(id, digest)
    <3>1. activeCrsId' = crsCounter /\ id = crsCounter
      BY <1>2, <1>6, <1>10, <2>2
    <3> QED
      BY <1>1, <1>6, <1>7, <1>8, <2>1, <2>2, <3>1
  <2>3. CASE ~CompletesNow(id, digest)
    BY <1>6, <1>7, <1>10, <2>1, <2>3
  <2> QED
    BY <2>2, <2>3
<1>16. KeysInOrder'
  BY <1>3, <1>7, <1>8 DEF IInv, OrderInv, KeysInOrder
<1>17. ActiveDone'
  BY <1>6, <1>7, <1>8, <1>10 DEF IInv, OrderInv, ActiveDone
<1>18. ActivationNamesANode'
  <2> SUFFICES ASSUME NEW k \in (KeyIds \cup CrsIds), k \in isRequestDone'
               PROVE  activations'[k] # {}
    BY DEF ActivationNamesANode
  <2>1. k \in isRequestDone => activations[k] # {}
    BY DEF IInv, OrderInv, ActivationNamesANode
  <2>2. k \in GenIds
    BY DEF GenIds
  <2>3. CASE CompletesNow(id, digest)
    BY <1>1, <1>6, <1>10, <1>12, <1>13, <2>1, <2>2, <2>3
  <2>4. CASE ~CompletesNow(id, digest)
    BY <1>6, <1>10, <2>1, <2>4
  <2> QED
    BY <2>3, <2>4
<1> QED
  BY <1>1, <1>4, <1>5, <1>9, <1>14, <1>15, <1>16, <1>17, <1>18 DEF OrderInv

(* A new key is asked for only when the one before completed, and its two  *)
(* identifiers are fresh.                                                  *)
LEMMA KeygenRequestKeepsOrder ==
    ASSUME IInv, Keygen
    PROVE  OrderInv'
<1>1. /\ prepKeygenCounter \in Int /\ PrepKeygenBase \in Nat /\ KeyBase \in Nat
      /\ PrepKeygenBase <= prepKeygenCounter
      /\ keyCounter = prepKeygenCounter + IdSpan /\ IdSpan \in Nat
      /\ KeyBase = PrepKeygenBase + IdSpan /\ MaxKeys \in Nat
  BY GenerationIds DEF IInv, CountedInv, CountersOK
<1>2. /\ prepKeygenCounter' = prepKeygenCounter + 1 /\ keyCounter' = keyCounter + 1
      /\ keyCounter < KeyBase + MaxKeys
      /\ keyCounter = KeyBase \/ keyCounter \in isRequestDone
      /\ keygenIdPairs' = [keygenIdPairs EXCEPT ![prepKeygenCounter'] = keyCounter',
                                                ![keyCounter'] = prepKeygenCounter']
  BY DEF Keygen, Finished
<1>3. UNCHANGED <<crsCounter, isRequestDone, activeKeyId, activeCrsId, activations>>
  BY DEF Keygen, doneVars, activeVars
<1>4. prepKeygenCounter' \in PrepIds /\ keyCounter' \in KeyIds
  BY <1>1, <1>2 DEF PrepIds, KeyIds
<1>5. /\ \A k \in PrepIds : k \in Nat /\ k \notin KeyIds /\ k + IdSpan \in KeyIds
      /\ \A k \in KeyIds : k \in Nat
  BY GenerationIds DEF GenIds
<1>6. PairsJoined'
  <2> SUFFICES ASSUME NEW p \in PrepIds, p <= prepKeygenCounter'
               PROVE  keygenIdPairs'[p] = p + IdSpan /\ keygenIdPairs'[p + IdSpan] = p
    BY DEF PairsJoined
  <2>1. keygenIdPairs \in [GenIds -> GenIds \cup {0}]
    BY DEF IInv, CountedInv, GenerationTypeOK
  <2>2. /\ p \in GenIds /\ p + IdSpan \in GenIds /\ p # keyCounter'
        /\ p + IdSpan # prepKeygenCounter' /\ prepKeygenCounter' # keyCounter'
        /\ prepKeygenCounter' \in GenIds /\ keyCounter' \in GenIds
    BY <1>4, <1>5 DEF GenIds
  <2>3. CASE p = prepKeygenCounter'
    <3>1. p + IdSpan = keyCounter'
      BY <1>1, <1>2, <2>3
    <3> QED
      BY <1>2, <2>1, <2>2, <2>3, <3>1
  <2>4. CASE p # prepKeygenCounter'
    <3>1. p <= prepKeygenCounter /\ p + IdSpan # keyCounter'
      BY <1>1, <1>2, <1>5, <2>4
    <3>2. keygenIdPairs[p] = p + IdSpan /\ keygenIdPairs[p + IdSpan] = p
      BY <3>1 DEF IInv, OrderInv, PairsJoined
    <3> QED
      BY <1>2, <2>1, <2>2, <2>4, <3>1, <3>2
  <2> QED
    BY <2>3, <2>4
<1>7. OnlyRequestedDone'
  BY <1>1, <1>2, <1>3, <1>5 DEF IInv, OrderInv, OnlyRequestedDone
<1>8. KeysInOrder'
  <2> SUFFICES ASSUME NEW k \in KeyIds, k < keyCounter'
               PROVE  k \in isRequestDone
    BY <1>3 DEF IInv, OrderInv, KeysInOrder
  <2>1. k \in Nat /\ KeyBase < k
    BY <1>1, <1>5 DEF KeyIds
  <2>2. CASE k < keyCounter
    BY <2>2 DEF IInv, OrderInv, KeysInOrder
  <2>3. CASE k = keyCounter
    BY <1>1, <1>2, <2>1, <2>3
  <2> QED
    BY <1>1, <1>2, <2>1, <2>2, <2>3
<1>9. CrsInOrder' /\ ActiveDone' /\ ActivationNamesANode'
  BY <1>3 DEF IInv, OrderInv, CrsInOrder, ActiveDone, ActivationNamesANode
<1> QED
  BY <1>6, <1>7, <1>8, <1>9 DEF OrderInv

(* The other calls of the owner.                                           *)
LEMMA OwnerKeepsOrder ==
    ASSUME IInv, OwnerNext
    PROVE  OrderInv'
<1>1. CASE Keygen
  BY <1>1, KeygenRequestKeepsOrder
<1>2. CASE CrsgenRequest
  <2>1. /\ crsCounter' = crsCounter + 1
        /\ crsCounter = CrsBase \/ crsCounter \in isRequestDone
    BY <1>2 DEF CrsgenRequest, Finished
  <2>2. UNCHANGED <<prepKeygenCounter, keyCounter, keygenIdPairs, isRequestDone,
                    activeKeyId, activeCrsId, activations>>
    BY <1>2 DEF CrsgenRequest, doneVars, activeVars
  <2>3. CrsBase \in Nat /\ crsCounter \in Int /\ \A k \in CrsIds : k \in Nat
    BY GenerationIds DEF IInv, CountedInv, CountersOK, GenIds
  <2>4. PairsJoined' /\ KeysInOrder' /\ ActiveDone' /\ ActivationNamesANode'
    BY <2>2 DEF IInv, OrderInv, PairsJoined, KeysInOrder, ActiveDone, ActivationNamesANode
  <2>5. OnlyRequestedDone'
    BY <2>1, <2>2, <2>3 DEF IInv, OrderInv, OnlyRequestedDone
  <2>6. CrsInOrder'
    <3> SUFFICES ASSUME NEW k \in CrsIds, k < crsCounter'
                 PROVE  k \in isRequestDone
      BY <2>2 DEF IInv, OrderInv, CrsInOrder
    <3>1. k \in Nat /\ CrsBase < k
      BY <2>3, GenerationIds DEF CrsIds
    <3>2. CASE k < crsCounter
      BY <3>2 DEF IInv, OrderInv, CrsInOrder
    <3>3. CASE k = crsCounter
      BY <2>1, <2>3, <3>1, <3>3
    <3> QED
      BY <2>1, <2>3, <3>1, <3>2, <3>3
  <2> QED
    BY <2>4, <2>5, <2>6 DEF OrderInv
<1>3. CASE \E id \in GenIds : KeyReshareSameSet(id)
  <2>1. UNCHANGED <<prepKeygenCounter, keyCounter, crsCounter, keygenIdPairs, isRequestDone,
                    activeKeyId, activeCrsId, activations>>
    BY <1>3 DEF KeyReshareSameSet, doneVars, activeVars
  <2> QED
    BY <2>1 DEF IInv, OrderInv, PairsJoined, OnlyRequestedDone, KeysInOrder, CrsInOrder,
                ActiveDone, ActivationNamesANode
<1> QED
  BY <1>1, <1>2, <1>3 DEF OwnerNext

(* At the start nothing is requested, done or active.                      *)
LEMMA InitOrder == Init => OrderInv
<1> SUFFICES ASSUME Init PROVE OrderInv
  OBVIOUS
<1>1. /\ \A id \in PrepIds : id \in Nat /\ ~(id <= prepKeygenCounter)
      /\ \A id \in KeyIds : id \in Nat /\ ~(id < keyCounter)
      /\ \A id \in CrsIds : id \in Nat /\ ~(id < crsCounter)
  BY GenerationIds DEF Init, PrepIds, KeyIds, CrsIds
<1>2. isRequestDone = {} /\ activeKeyId = 0 /\ activeCrsId = 0
  BY DEF Init
<1> QED
  BY <1>1, <1>2 DEF OrderInv, PairsJoined, OnlyRequestedDone, KeysInOrder, CrsInOrder,
                    ActiveDone, ActivationNamesANode

(* No call of the owner, answer of a node or update of the registry leaves *)
(* the invariant; each is one of those the contract has to face.           *)
LEMMA Inductive ==
    IInv /\ [Next]_vars =>
        /\ IInv'
        /\ \/ \E id \in GenIds, d \in GenDigests : Answer(id, d)
           \/ UNCHANGED doneVars
<1> SUFFICES ASSUME IInv, [Next]_vars
             PROVE  /\ IInv'
                    /\ \/ \E id \in GenIds, d \in GenDigests : Answer(id, d)
                       \/ UNCHANGED doneVars
  OBVIOUS
<1>1. CASE OwnerNext
  <2>1. UNCHANGED doneVars
    BY <1>1 DEF OwnerNext, Keygen, CrsgenRequest, KeyReshareSameSet
  <2> QED
    BY <1>1, <2>1, OwnerKeepsCounted, OwnerKeepsOrder DEF IInv
<1>2. CASE NodesNext
  <2>1. PICK signer \in Address, sender \in Address :
           \/ \E id \in PrepIds :
                  RequestedPrep(id) /\ PrepKeygenResponse(id, signer, sender)
           \/ \E p \in PrepIds \cap isRequestDone, c \in Contents :
                  KeygenResponse(keygenIdPairs[p], c, signer, sender)
           \/ \E id \in CrsIds, c \in Contents :
                  RequestedCrs(id) /\ CrsgenResponse(id, c, signer, sender)
    BY <1>2 DEF NodesNext
  <2>2. ASSUME NEW id \in PrepIds, RequestedPrep(id), PrepKeygenResponse(id, signer, sender)
        PROVE  OrderInv' /\ \E k \in GenIds, d \in GenDigests : Answer(k, d)
    <3>1. id \in GenIds /\ PrepDigest \in GenDigests
      BY GenDigestsKinds DEF GenIds
    <3> QED
      BY <2>2, <3>1, ResponsesAnswer, PrepKeepsOrder
  <2>3. OrderInv' /\ \E k \in GenIds, d \in GenDigests : Answer(k, d)
    BY <2>1, <2>2, KeygenKeepsOrder, CrsgenKeepsOrder
  <2> QED
    BY <2>3, AnswerKeepsCounted DEF IInv
<1>3. CASE KmsUpdates \/ UNCHANGED vars
  <2>1. CountedInv' /\ UNCHANGED generationVars
    BY <1>3, OthersKeepCounted DEF IInv
  <2>2. UNCHANGED <<prepKeygenCounter, keyCounter, crsCounter, keygenIdPairs, isRequestDone,
                    doneVars, activeKeyId, activeCrsId, activations>>
    BY <2>1 DEF generationVars, counterVars, doneVars, activeVars
  <2>3. OrderInv'
    BY <2>2 DEF IInv, OrderInv, PairsJoined, OnlyRequestedDone, KeysInOrder, CrsInOrder,
                ActiveDone, ActivationNamesANode
  <2> QED
    BY <2>1, <2>2, <2>3 DEF IInv
<1> QED
  BY <1>1, <1>2, <1>3 DEF Next

(* Counters, pairs, votes and results agree in every reachable state.      *)
THEOREM GenerationInvariant == Spec => []IInv
<1>1. Init => IInv
  BY InitCounted, InitOrder DEF IInv
<1>2. IInv /\ [Next]_vars => IInv'
  BY Inductive
<1> QED
  BY <1>1, <1>2, PTL DEF Spec

(* The parts of the invariant about keys and CRSs say what is promised.    *)
LEMMA OrderOfGenerations == IInv => OneGenerationAtATime
<1> SUFFICES ASSUME IInv PROVE OneGenerationAtATime
  OBVIOUS
<1>1. ASSUME NEW id \in KeyIds
      PROVE  /\ id < keyCounter => id \in isRequestDone
             /\ id <= keyCounter =>
                    /\ keygenIdPairs[id] \in PrepIds
                    /\ keygenIdPairs[keygenIdPairs[id]] = id
             /\ id \in isRequestDone => keygenIdPairs[id] \in isRequestDone
             /\ id \in isRequestDone => id <= activeKeyId
  <2>1. /\ id - IdSpan \in PrepIds /\ (id - IdSpan) + IdSpan = id
        /\ id <= keyCounter => id - IdSpan <= prepKeygenCounter
    BY GenerationIds DEF IInv, CountedInv, CountersOK, GenIds
  <2>2. id <= keyCounter => /\ keygenIdPairs[id - IdSpan] = id
                            /\ keygenIdPairs[id] = id - IdSpan
    BY <2>1 DEF IInv, OrderInv, PairsJoined
  <2>3. id \in isRequestDone => id <= keyCounter
    BY DEF IInv, OrderInv, OnlyRequestedDone
  <2> QED
    BY <2>1, <2>2, <2>3 DEF IInv, OrderInv, KeysInOrder
<1> QED
  BY <1>1 DEF OneGenerationAtATime, IInv, OrderInv, CrsInOrder, ActiveDone

(* Keys and CRSs are generated one after the other, and the active ones    *)
(* are the last completed.                                                 *)
THEOREM GenerationsInOrder == Spec => []OneGenerationAtATime
BY GenerationInvariant, OrderOfGenerations, PTL

(* No signer counts twice for a request.                                   *)
THEOREM GenerationAnswersUnique == Spec => []GenerationAnswersCounted
<1>1. IInv => GenerationAnswersCounted
  BY DEF IInv, CountedInv
<1> QED
  BY <1>1, GenerationInvariant, PTL

(* A key or a CRS is activated with a storage to fetch it from.            *)
THEOREM ActivationNamed == Spec => []ActivationNamesANode
<1>1. IInv => ActivationNamesANode
  BY DEF IInv, OrderInv
<1> QED
  BY <1>1, GenerationInvariant, PTL

----------------------------------------------------------------------------
(* The answer that completes a request meets the threshold in force, over  *)
(* the digest the contract then reports.                                   *)
LEMMA CompletionStep ==
    ASSUME CountedInv, CountedInv', NEW k \in GenIds, NEW d \in GenDigests, Answer(k, d),
           NEW id \in isRequestDone' \ isRequestDone
    PROVE  LET list == consensusTxSenderAddresses'[id][consensusDigest'[id]]
           IN  /\ Len(list) >= kmsThresholds.kmsGen
               /\ Len(list) <= Cardinality(kmsHasSignedForResponse'[id])
               /\ UNCHANGED configVars
<1>1. CompletesNow(k, d) /\ id = k
  BY AnswerDone
<1>2. consensusDigest'[k] = d
  BY <1>1 DEF Answer, Complete, CountedInv, GenerationTypeOK
<1>3. Len(consensusTxSenderAddresses'[k][d]) >= kmsThresholds.kmsGen
  BY <1>1 DEF CompletesNow
<1>4. Len(consensusTxSenderAddresses'[k][d]) <= Cardinality(kmsHasSignedForResponse'[k])
  <2> DEFINE lists == consensusTxSenderAddresses'[k]
  <2>1. lists \in [GenDigests -> Seq(Address)] /\ IsFiniteSet(Votes(lists))
    BY DEF CountedInv, GenerationTypeOK, VotesFinite
  <2>2. Cardinality(Votes(lists)) = Cardinality(kmsHasSignedForResponse'[k])
    BY DEF CountedInv, GenerationAnswersCounted, Votes
  <2> HIDE DEF lists
  <2>3. Len(lists[d]) <= Cardinality(Votes(lists))
    BY <2>1, ListWithinVotes
  <2> QED
    BY <2>2, <2>3 DEF lists
<1> QED
  BY <1>1, <1>2, <1>3, <1>4 DEF Answer

(* A request completes by the threshold for generation of that moment, and *)
(* only an answer of a node completes it.                                  *)
THEOREM GenerationByThreshold == Spec => GeneratedByThreshold
<1>1. IInv /\ [Next]_vars =>
        [\A id \in isRequestDone' \ isRequestDone :
           LET list == consensusTxSenderAddresses'[id][consensusDigest'[id]]
           IN  /\ Len(list) >= kmsThresholds.kmsGen
               /\ Len(list) <= Cardinality(kmsHasSignedForResponse'[id])
               /\ UNCHANGED configVars]_vars
  <2> SUFFICES ASSUME IInv, [Next]_vars, NEW id \in isRequestDone' \ isRequestDone
               PROVE  LET list == consensusTxSenderAddresses'[id][consensusDigest'[id]]
                      IN  /\ Len(list) >= kmsThresholds.kmsGen
                          /\ Len(list) <= Cardinality(kmsHasSignedForResponse'[id])
                          /\ UNCHANGED configVars
    OBVIOUS
  <2>1. CountedInv /\ CountedInv'
    BY Inductive DEF IInv
  <2>2. \E k \in GenIds, d \in GenDigests : Answer(k, d)
    BY Inductive DEF doneVars
  <2> QED
    BY <2>1, <2>2, CompletionStep
<1> QED
  BY <1>1, GenerationInvariant, PTL DEF Spec, GeneratedByThreshold

(* An answer decides its request, or changes no result.                    *)
LEMMA AnswerDecides ==
    ASSUME CountedInv, NEW id \in GenIds, NEW digest \in GenDigests, Answer(id, digest)
    PROVE  [GenerationDecision!Next]_consensusDigest
<1>1. CASE CompletesNow(id, digest)
  <2>1. /\ id \notin isRequestDone
        /\ consensusDigest' = [consensusDigest EXCEPT ![id] = digest]
    BY <1>1 DEF CompletesNow, Answer, Complete
  <2>2. consensusDigest[id] = ZeroDigest
    BY <2>1 DEF CountedInv, DigestOfDone
  <2> QED
    BY <2>1, <2>2 DEF GenerationDecision!Next, GenerationDecision!Decide
<1>2. CASE ~CompletesNow(id, digest)
  BY <1>2 DEF Answer, Complete, doneVars
<1> QED
  BY <1>1, <1>2

(* Every behaviour of the contract is one of the one-shot decision: late   *)
(* answers, other digests and rotated nodes change no result.              *)
THEOREM GenerationRefinement == Spec => GeneratedOnce
<1>1. Init => GenerationDecision!Init
  BY DEF Init, GenerationDecision!Init
<1>2. IInv /\ [Next]_vars => [GenerationDecision!Next]_consensusDigest
  <2> SUFFICES ASSUME IInv, [Next]_vars
               PROVE  [GenerationDecision!Next]_consensusDigest
    OBVIOUS
  <2>1. CASE \E id \in GenIds, d \in GenDigests : Answer(id, d)
    BY <2>1, AnswerDecides DEF IInv
  <2>2. CASE UNCHANGED doneVars
    BY <2>2 DEF doneVars
  <2> QED
    BY <2>1, <2>2, Inductive
<1> QED
  BY <1>1, <1>2, GenerationInvariant, PTL DEF Spec, GeneratedOnce, GenerationDecision!Spec
=============================================================================
