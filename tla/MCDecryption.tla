---------------------------- MODULE MCDecryption ----------------------------
(* One coprocessor that relays everything, and a KMS that rotates: a node  *)
(* is dropped, or sends from a new address under the same signer.          *)
EXTENDS Decryption

CONSTANTS t1, t2, t3, t4, s1, s2, s3, chain1, h1, h2, m1, m2, user, contract

Op(t, s) == [txSender |-> t, signer |-> s]
Thresholds(p, u) == [mpc |-> 0, publicDecryption |-> p, userDecryption |-> u, kmsGen |-> 1]

MCAddress == {t1, t2, t3, t4, s1, s2, s3}
MCCoprocessorLists == {<<Op(t1, s1)>>}
MCKmsNodeLists ==
    {<<Op(t1, s1), Op(t2, s2), Op(t3, s3)>>,
     <<Op(t1, s1), Op(t4, s2)>>}
MCThresholds == {Thresholds(1, 1), Thresholds(2, 2), Thresholds(3, 1)}
MCChainOf == [h \in Handles |-> chain1]
MCKeyIdOf == [m \in Materials |-> IF m = m1 THEN 1 ELSE 2]
MCBitSize == [h \in Handles |-> 8]
MCHandleLists == {<<>>, <<h1>>, <<h1, h2>>, <<h1, h2, h1>>}

(* Requests for one handle and for both, and one signed by somebody else.  *)
Ask(pairs, contracts, signer) ==
    [pairs |-> pairs, contracts |-> contracts, user |-> user, signer |-> signer,
     start |-> 1, days |-> 1]
MCUserRequests ==
    {Ask(<<<<h1, contract>>, <<h2, contract>>>>, {contract}, user),
     Ask(<<<<h1, contract>>>>, {contract}, user),
     Ask(<<<<h1, contract>>>>, {contract}, contract)}

(* Bound: a behaviour grants rights for one kind of decryption only.       *)
OneKindOfRight ==
    \/ \A r \in Rights : r[2] # Public => allowCounters'[r] = 0
    \/ \A r \in Rights : r[2] = Public => allowCounters'[r] = 0

OneKindSpec == Init /\ [][Next /\ OneKindOfRight]_vars
=============================================================================
