--------------------------- MODULE MultichainACL ---------------------------
(***************************************************************************)
(* The MultichainACL contract: the coprocessors relay the access rights    *)
(* granted on the host chains.  A right to decrypt is granted for ever     *)
(* once a threshold of them relayed it.  A delegation of user decryption   *)
(* may be replaced or revoked: host chains number the changes of one       *)
(* delegation, and a change only applies over an older one.                *)
(***************************************************************************)
EXTENDS GatewayConfig

CONSTANTS
    Accounts,         \* accounts that may be allowed to use a handle
    Public,           \* stands for "everyone" in a public decryption right
    Delegations,      \* (chain, delegator, delegate, contract) tuples
    DelegationCounters, \* the numbers host chains give the changes
    ExpirationDates

ASSUME AclAssumption ==
    /\ Public \notin Accounts
    /\ DelegationCounters \subseteq Nat
    /\ ExpirationDates \subseteq Nat \ {0}

(* The key of a vote on a right: the handle alone for public decryption,   *)
(* the hash of handle and account otherwise.                               *)
Rights == Handles \X (Accounts \cup {Public})

(* A hashed change of a delegation.  Delegating and revoking hash the same *)
(* arguments, so both are votes on the same change.                        *)
Changes == [delegation : Delegations, counter : DelegationCounters,
            expiration : ExpirationDates]

VARIABLES
    allowCounters, allowCoprocessors, allowConsensusTxSenders,  \* per right
    isAllowed,                         \* the rights with a consensus
    delegateUserDecryptionTxSenders,   \* per change, in order
    revokeUserDecryptionTxSenders,     \* per change, in order
    delegatedOrRevoked,                \* the changes with a consensus
    userDecryptionDelegations          \* per delegation, its last change

allowVars == <<allowCounters, allowCoprocessors, allowConsensusTxSenders, isAllowed>>
delegationVars ==
    <<delegateUserDecryptionTxSenders, revokeUserDecryptionTxSenders,
      delegatedOrRevoked, userDecryptionDelegations>>
aclVars == <<allowVars, delegationVars>>

MultichainACLInit ==
    /\ allowCounters = [r \in Rights |-> 0]
    /\ allowCoprocessors = [r \in Rights |-> {}]
    /\ allowConsensusTxSenders = [r \in Rights |-> <<>>]
    /\ isAllowed = {}
    /\ delegateUserDecryptionTxSenders = [c \in Changes |-> <<>>]
    /\ revokeUserDecryptionTxSenders = [c \in Changes |-> <<>>]
    /\ delegatedOrRevoked = {}
    /\ userDecryptionDelegations =
           [d \in Delegations |-> [counter |-> 0, expiration |-> 0]]

AlreadyAllowed(right, sender) == sender \in allowCoprocessors[right]

(* allowPublicDecrypt and allowAccount, which differ in the key only.      *)
Allow(right, sender) ==
    /\ IsTxSender(coprocessors, sender)
    /\ FromRegisteredHostChain(right[1])
    /\ ~AlreadyAllowed(right, sender)
    /\ allowCounters' = [allowCounters EXCEPT ![right] = @ + 1]
    /\ allowCoprocessors' = [allowCoprocessors EXCEPT ![right] = @ \cup {sender}]
    /\ allowConsensusTxSenders' =
           [allowConsensusTxSenders EXCEPT ![right] = Append(@, sender)]
    /\ isAllowed' = IF allowCounters'[right] >= coprocessorThreshold
                    THEN isAllowed \cup {right} ELSE isAllowed
    /\ UNCHANGED delegationVars

AllowPublicDecrypt(h, sender)    == Allow(<<h, Public>>, sender)
AllowAccount(h, account, sender) == Allow(<<h, account>>, sender)

----------------------------------------------------------------------------
Entries(list) == {list[i] : i \in DOMAIN list}

(* Mutants: revocations are not looked up; a change applies in any order.  *)
AlreadyDelegated(change, sender) ==
    sender \in Entries(delegateUserDecryptionTxSenders[change])
ApplyInAnyOrder(change, votes, expiration) ==
    IF change \notin delegatedOrRevoked /\ votes >= coprocessorThreshold
    THEN /\ userDecryptionDelegations' =
                [userDecryptionDelegations EXCEPT
                    ![change.delegation] =
                        [counter |-> change.counter, expiration |-> expiration]]
         /\ delegatedOrRevoked' = delegatedOrRevoked \cup {change}
    ELSE UNCHANGED <<userDecryptionDelegations, delegatedOrRevoked>>

AlreadyDelegatedOrRevoked(change, sender) ==
    sender \in Entries(delegateUserDecryptionTxSenders[change])
                 \cup Entries(revokeUserDecryptionTxSenders[change])

(* The vote that reaches the consensus applies the change.  It reverts,    *)
(* vote included, when the delegation already saw this or a later change.  *)
ApplyOnConsensus(change, votes, expiration) ==
    IF change \notin delegatedOrRevoked /\ votes >= coprocessorThreshold
    THEN /\ change.counter > userDecryptionDelegations[change.delegation].counter
         /\ userDecryptionDelegations' =
                [userDecryptionDelegations EXCEPT
                    ![change.delegation] =
                        [counter |-> change.counter, expiration |-> expiration]]
         /\ delegatedOrRevoked' = delegatedOrRevoked \cup {change}
    ELSE UNCHANGED <<userDecryptionDelegations, delegatedOrRevoked>>

DelegateUserDecryption(change, sender) ==
    /\ IsTxSender(coprocessors, sender)
    /\ ~AlreadyDelegatedOrRevoked(change, sender)
    /\ delegateUserDecryptionTxSenders' =
           [delegateUserDecryptionTxSenders EXCEPT ![change] = Append(@, sender)]
    /\ ApplyOnConsensus(change, Len(delegateUserDecryptionTxSenders'[change]),
                        change.expiration)
    /\ UNCHANGED <<revokeUserDecryptionTxSenders, allowVars>>

RevokeUserDecryptionDelegation(change, sender) ==
    /\ IsTxSender(coprocessors, sender)
    /\ ~AlreadyDelegatedOrRevoked(change, sender)
    /\ revokeUserDecryptionTxSenders' =
           [revokeUserDecryptionTxSenders EXCEPT ![change] = Append(@, sender)]
    /\ ApplyOnConsensus(change, Len(revokeUserDecryptionTxSenders'[change]), 0)
    /\ UNCHANGED <<delegateUserDecryptionTxSenders, allowVars>>

AllowNext ==
    \/ \E h \in Handles, sender \in Address : AllowPublicDecrypt(h, sender)
    \/ \E h \in Handles, a \in Accounts, sender \in Address : AllowAccount(h, a, sender)

DelegationNext ==
    \/ \E c \in Changes, sender \in Address : DelegateUserDecryption(c, sender)
    \/ \E c \in Changes, sender \in Address : RevokeUserDecryptionDelegation(c, sender)

MultichainACLNext == (AllowNext \/ DelegationNext) /\ UNCHANGED configVars

AclInit == ConfigInit /\ MultichainACLInit
AclNext ==
    \/ MultichainACLNext
    \/ (CoprocessorConfigNext \/ AddHostChain) /\ UNCHANGED aclVars
AclSpec == AclInit /\ [][AclNext]_<<configVars, aclVars>>

----------------------------------------------------------------------------
(* No vote is counted twice: a right is counted once per sender, and a     *)
(* sender votes once on a change, to delegate or to revoke but not both.   *)
VotesCounted ==
    /\ \A r \in Rights :
           /\ allowCounters[r] = Cardinality(allowCoprocessors[r])
           /\ Len(allowConsensusTxSenders[r]) = allowCounters[r]
           /\ Entries(allowConsensusTxSenders[r]) = allowCoprocessors[r]
    /\ \A c \in Changes :
           LET votes == delegateUserDecryptionTxSenders[c] \o revokeUserDecryptionTxSenders[c]
           IN  Cardinality(Entries(votes)) = Len(votes)

(* Whatever the order in which votes on different changes arrive, each     *)
(* delegation stands where the latest decided change put it, and no two    *)
(* changes with the same number were ever applied to it.                   *)
LatestChangeStands ==
    \A d \in Delegations :
        LET decided == {c \in delegatedOrRevoked : c.delegation = d}
            current == userDecryptionDelegations[d]
        IN  /\ \A c \in decided : c.counter <= current.counter
            /\ \A b, c \in decided : b.counter = c.counter => b = c
            /\ current.counter > 0 =>
                   \E c \in decided : /\ c.counter = current.counter
                                      /\ current.expiration \in {0, c.expiration}

(* A right, once granted, is never withdrawn, and it is granted only when  *)
(* a threshold of distinct senders relayed it; a delegation changes only   *)
(* to a later numbered change.                                             *)
RightsOnlyByConsensus ==
    [][/\ isAllowed \subseteq isAllowed'
       /\ \A r \in isAllowed' \ isAllowed :
              Cardinality(Entries(allowConsensusTxSenders'[r])) >= coprocessorThreshold
       /\ \A d \in Delegations :
              userDecryptionDelegations'[d] # userDecryptionDelegations[d] =>
                  userDecryptionDelegations'[d].counter
                      > userDecryptionDelegations[d].counter]_<<configVars, aclVars>>
============================================================================
