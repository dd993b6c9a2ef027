-------------------------- MODULE OneShotDecision --------------------------
(***************************************************************************)
(* What a gateway contract promises about every request it collects        *)
(* operator responses for: the request has no outcome until its consensus, *)
(* gets one outcome then, and keeps that outcome for ever, whatever late   *)
(* responses and reconfigurations follow.                                  *)
(***************************************************************************)
CONSTANTS Request, Outcome, NoOutcome

VARIABLE outcome

Init == outcome = [r \in Request |-> NoOutcome]

Decide(r) ==
    /\ outcome[r] = NoOutcome
    /\ \E o \in Outcome : outcome' = [outcome EXCEPT ![r] = o]

Next == \E r \in Request : Decide(r)

Spec == Init /\ [][Next]_outcome
============================================================================
