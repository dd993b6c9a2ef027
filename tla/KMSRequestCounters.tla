------------------------ MODULE KMSRequestCounters ------------------------
(***************************************************************************)
(* The identifiers of the requests made to the KMS.  The request type is   *)
(* in the top byte of a 256-bit identifier and a counter per type fills    *)
(* the rest, so identifiers of two types never meet.                       *)
(***************************************************************************)
EXTENDS Integers

CONSTANT IdSpan  \* the width of the counter, 2^248 in the code

ASSUME IdSpanAssumption == IdSpan \in Nat \ {0}

PublicDecryptBase == 1 * IdSpan
UserDecryptBase   == 2 * IdSpan
PrepKeygenBase    == 3 * IdSpan
KeyBase           == 4 * IdSpan
CrsBase           == 5 * IdSpan
KeyReshareBase    == 6 * IdSpan
============================================================================
