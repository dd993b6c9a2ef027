-------------------------- MODULE MCKMSGeneration --------------------------
(* Two KMS nodes, of which one may be dropped and registered again.        *)
EXTENDS KMSGeneration, TLC

CONSTANTS t1, t2, s1, s2, c1, c2

Op(t, s) == [txSender |-> t, signer |-> s]
Thresholds(m, g) == [mpc |-> m, publicDecryption |-> 1, userDecryption |-> 1, kmsGen |-> g]

MCAddress == {t1, t2, s1, s2}
MCCoprocessorLists == {<<Op(t1, s1)>>}
MCKmsNodeLists ==
    {<<Op(t1, s1), Op(t2, s2)>>, <<Op(t2, s2)>>}
MCKmsThresholdChoices == {Thresholds(0, 1), Thresholds(0, 2)}
(* Nothing tells the two contents apart.                                   *)
MCSymmetry == Permutations({c1, c2})
MCChainOf == [h \in Handles |-> CHOOSE c \in HostChains : TRUE]
============================================================================
