-------------------------- MODULE MCKmsConnector --------------------------
(* Two decryption requests and a PRSS init; one decryption is seen by a    *)
(* second listener as well.                                                *)
EXTENDS KmsConnector

CONSTANTS d1, d2, prss, l1, l2

MCKindOf == [r \in Requests |-> IF r = prss THEN "prssInit" ELSE "decryption"]
MCWatched == [l \in Listeners |-> IF l = l1 THEN Requests ELSE {d1}]
===========================================================================
