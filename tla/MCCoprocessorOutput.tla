------------------------ MODULE MCCoprocessorOutput ------------------------
(* One ciphertext and two proofs; the numbers are the row ids.             *)
EXTENDS CoprocessorOutput

MCOpOf == [r \in Rows |-> IF r \in Handles THEN "add_ciphertext" ELSE "verify_proof"]
============================================================================
