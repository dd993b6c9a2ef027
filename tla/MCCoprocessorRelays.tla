------------------------ MODULE MCCoprocessorRelays ------------------------
(* What coprocessors relay to CiphertextCommits and to MultichainACL, each *)
(* under changing coprocessors: one is dropped, or sends from an address   *)
(* that was another one's.  The two contracts have nothing in common but   *)
(* the registry, so a behaviour calls one of them only.                    *)
EXTENDS CiphertextCommits, MultichainACL

CONSTANTS t1, t2, t3, s1, s2, s3, chain1, h1, h2

Op(t, s) == [txSender |-> t, signer |-> s]

MCAddress == {t1, t2, t3, s1, s2, s3}
MCCoprocessorLists ==
    {<<Op(t1, s1), Op(t2, s2), Op(t3, s3)>>,
     <<Op(t1, s1), Op(t2, s2)>>,
     <<Op(t1, s1), Op(t3, s2)>>}
MCKmsNodeLists == {<<Op(t1, s1)>>}
MCKmsThresholdChoices ==
    {[mpc |-> 0, publicDecryption |-> 1, userDecryption |-> 1, kmsGen |-> 1]}
MCChainOf == [h \in Handles |-> chain1]

(* Bound: rights are relayed for one handle.                               *)
AllowedHandles == {h1}

RelaysInit == ConfigInit /\ CiphertextCommitsInit /\ MultichainACLInit

RelaysNext ==
    \/ CommitsNext /\ MultichainACLInit /\ UNCHANGED aclVars
    \/ /\ AclNext /\ CiphertextCommitsInit /\ UNCHANGED ciphertextVars
       /\ \A r \in Rights : r[1] \notin AllowedHandles => allowCounters'[r] = 0

RelaysSpec == RelaysInit /\ [][RelaysNext]_<<configVars, ciphertextVars, aclVars>>
============================================================================
