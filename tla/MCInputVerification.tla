------------------------ MODULE MCInputVerification ------------------------
(* Three coprocessors, one of which may be replaced: by a fresh operator,  *)
(* or by one that keeps its sender or its signer.                          *)
EXTENDS InputVerification

CONSTANTS t1, t2, t3, t4, s1, s2, s3, s4

Op(t, s) == [txSender |-> t, signer |-> s]

MCAddress == {t1, t2, t3, t4, s1, s2, s3, s4}
MCCoprocessorLists ==
    {<<Op(t1, s1), Op(t2, s2), Op(t3, s3)>>,
     <<Op(t1, s1), Op(t2, s4)>>,
     <<Op(t1, s1), Op(t4, s2)>>}
MCKmsNodeLists == {<<Op(t1, s1)>>}
MCKmsThresholdChoices ==
    {[mpc |-> 0, publicDecryption |-> 1, userDecryption |-> 1, kmsGen |-> 1]}
MCChainOf == [h \in Handles |-> CHOOSE c \in HostChains : TRUE]
============================================================================
