-------------------------- MODULE GwListenerProofs --------------------------
(***************************************************************************)
(* Proofs about the gateway listener of the coprocessor, for any chain of  *)
(* blocks and activations, any batch size and any number of failures and   *)
(* crashes, when no catch-up is configured.  (With one, neither property   *)
(* holds: the listener then starts behind or ahead of what it persisted.)  *)
(*                                                                         *)
(* Both rest on the fact that a run which polls starts from what is        *)
(* persisted, so that a batch continues exactly there, and on what is      *)
(* known of a batch half-way: the activations up to `done` are handled,    *)
(* and the tenant's key is the newest of them.  Before anything was        *)
(* persisted a batch is the one current block.                             *)
(***************************************************************************)
EXTENDS GwListener, TLAPS

TypeOK ==
    /\ head \in Nat
    /\ pc \in {"start", "poll", "apply"}
    /\ catchupFrom = None
    /\ lastBlockNum \in Int \cup {None} /\ origin \in Int \cup {None}
    /\ origin = None <=> lastBlockNum = None
    /\ batch \in [from : Int, to : Int, current : Int, done : Int]
    /\ tenantKey \in Int
    /\ handled \subseteq Activations

(* A run that polls knows what is persisted.                               *)
ReadsPersisted == pc # "start" => lastProcessed = lastBlockNum

(* A batch continues what is persisted, and is applied up to `done`.       *)
BatchContinues ==
    /\ batch.to <= head /\ batch.from - 1 <= batch.done
    /\ lastBlockNum # None => batch.from = lastBlockNum + 1
    /\ lastBlockNum = None =>
           batch.from = batch.to /\ \A b \in handled : b <= batch.to

AppliedUpToDone ==
    /\ \A b \in Activations : batch.from <= b /\ b <= batch.done => b \in handled
    /\ \A b \in handled \ Corrupt : b <= batch.done => b <= tenantKey

BatchInv == pc = "apply" => BatchContinues /\ AppliedUpToDone

(* Before anything is persisted the tenant has the newest key there is.    *)
FirstRun ==
    lastBlockNum = None =>
        /\ \A b \in handled : b <= head
        /\ \A b \in handled \ Corrupt : b <= tenantKey

IInv ==
    /\ TypeOK
    /\ ReadsPersisted
    /\ BatchInv
    /\ FirstRun
    /\ NoActivationSkipped
    /\ KeyNotBehindCursor

----------------------------------------------------------------------------
(* The numbers the steps compute with.                                     *)
LEMMA Numbers ==
    /\ BatchSize \in Nat \ {0} /\ None \notin Int
    /\ \A b \in Activations : b \in Nat
BY ListenerAssumption DEF Blocks

(* A new process knows what the database has, and has handled nothing.     *)
LEMMA InitInductive == CatchupConf = None /\ Init => IInv
<1> SUFFICES ASSUME CatchupConf = None, Init PROVE IInv
  OBVIOUS
<1>1. lastBlockNum \in Int \cup {None} /\ origin = lastBlockNum
  BY ListenerAssumption DEF Init
<1>2. TypeOK
  BY <1>1 DEF Init, TypeOK, NoBatch
<1>3. NoActivationSkipped
  BY <1>1, Numbers DEF NoActivationSkipped
<1> QED
  BY <1>2, <1>3 DEF Init, IInv, ReadsPersisted, BatchInv, FirstRun, KeyNotBehindCursor

(* New blocks, and the end of an attempt, leave what is persisted and      *)
(* handled alone.                                                          *)
LEMMA NothingApplied ==
    ASSUME IInv, UNCHANGED <<database, history>>, head' \in Nat, head <= head',
           catchupFrom' = None,
           \/ UNCHANGED <<pc, lastProcessed, batch>>
           \/ pc' = "start" /\ batch' = NoBatch
           \/ pc' = "poll" /\ lastProcessed' = lastBlockNum /\ batch' = batch
    PROVE  IInv'
<1>1. UNCHANGED <<lastBlockNum, tenantKey, handled, origin>>
  BY DEF database, history
<1>2. TypeOK'
  BY <1>1 DEF IInv, TypeOK, NoBatch
<1>3. ReadsPersisted'
  BY <1>1 DEF IInv, ReadsPersisted
<1>4. BatchInv'
  <2> SUFFICES ASSUME pc' = "apply" PROVE BatchContinues' /\ AppliedUpToDone'
    BY DEF BatchInv
  <2>1. pc = "apply" /\ batch' = batch
    OBVIOUS
  <2>2. head \in Int /\ head' \in Int /\ batch.to \in Int
    BY DEF IInv, TypeOK
  <2> QED
    BY <1>1, <2>1, <2>2 DEF IInv, BatchInv, BatchContinues, AppliedUpToDone
<1>5. FirstRun'
  <2>1. head \in Int /\ head' \in Int /\ \A b \in handled : b \in Int
    BY Numbers DEF IInv, TypeOK
  <2> QED
    BY <1>1, <2>1 DEF IInv, FirstRun
<1>6. NoActivationSkipped' /\ KeyNotBehindCursor'
  BY <1>1 DEF IInv, NoActivationSkipped, KeyNotBehindCursor
<1> QED
  BY <1>2, <1>3, <1>4, <1>5, <1>6 DEF IInv

(* The range to fetch continues what is persisted, or is the current block.*)
LEMMA FetchKeeps ==
    ASSUME IInv, FetchLogs
    PROVE  IInv'
<1> DEFINE from == IF lastProcessed = None THEN head ELSE lastProcessed + 1
           to   == Least(from + BatchSize - 1, head)
<1>1. /\ pc = "poll" /\ pc' = "apply"
      /\ lastProcessed # None => lastProcessed < head
      /\ batch' = [from |-> from, to |-> to, current |-> head, done |-> from - 1]
      /\ UNCHANGED <<head, lastProcessed, catchupFrom, lastBlockNum, tenantKey, handled, origin>>
  BY DEF FetchLogs, database, history
<1>2. lastProcessed = lastBlockNum
  BY <1>1 DEF IInv, ReadsPersisted
<1>3. /\ head \in Int /\ head \in Nat /\ lastBlockNum \in Int \cup {None}
      /\ \A b \in handled : b \in Int
  BY Numbers DEF IInv, TypeOK
<1>4. from \in Int /\ to \in Int /\ to <= head
  BY <1>2, <1>3, Numbers DEF Least
<1>5. /\ lastBlockNum # None => from = lastBlockNum + 1
      /\ lastBlockNum = None => from = head /\ to = head
  BY <1>2, <1>3, Numbers DEF Least
<1> HIDE DEF from, to
<1>6. TypeOK'
  BY <1>1, <1>4 DEF IInv, TypeOK
<1>7. ReadsPersisted' /\ FirstRun' /\ NoActivationSkipped' /\ KeyNotBehindCursor'
  BY <1>1, <1>2 DEF IInv, ReadsPersisted, FirstRun, NoActivationSkipped, KeyNotBehindCursor
<1>8. /\ batch'.from = from /\ batch'.to = to /\ batch'.done = from - 1
  BY <1>1
<1>9. BatchContinues'
  BY <1>1, <1>3, <1>4, <1>5, <1>8 DEF IInv, FirstRun, BatchContinues
<1>10. AppliedUpToDone'
  <2>1. \A b \in Activations : b \in Nat /\ ~(from <= b /\ b <= from - 1)
    BY <1>4, Numbers
  <2>2. ASSUME NEW b \in handled \ Corrupt, b <= from - 1
        PROVE  b <= tenantKey
    <3>1. CASE lastBlockNum = None
      BY <3>1 DEF IInv, FirstRun
    <3>2. CASE lastBlockNum # None
      <4>1. b <= lastBlockNum
        BY <1>3, <1>5, <2>2, <3>2
      <4> QED
        BY <3>2, <4>1 DEF IInv, KeyNotBehindCursor
    <3> QED
      BY <3>1, <3>2
  <2> QED
    BY <1>1, <1>8, <2>1, <2>2 DEF AppliedUpToDone
<1> QED
  BY <1>6, <1>7, <1>9, <1>10 DEF IInv, BatchInv

(* The next activation of the batch is newer than what is persisted, and   *)
(* the newest that is handled of the batch.                                *)
LEMMA ActivateKeeps ==
    ASSUME IInv, ActivateKey
    PROVE  IInv'
<1>1. PICK b \in Pending :
         /\ \A c \in Pending : b <= c
         /\ tenantKey' = IF b \in Corrupt THEN tenantKey ELSE b
         /\ handled' = handled \cup {b}
         /\ batch' = [batch EXCEPT !.done = b]
  BY DEF ActivateKey
<1>2. /\ pc = "apply"
      /\ UNCHANGED <<head, pc, lastProcessed, catchupFrom, lastBlockNum, origin>>
  BY DEF ActivateKey
<1>3. b \in Activations /\ batch.done < b /\ b <= batch.to
  BY DEF Pending
<1>4. /\ b \in Nat /\ \A c \in Activations : c \in Nat
      /\ head \in Nat /\ tenantKey \in Int
      /\ lastBlockNum \in Int \cup {None} /\ None \notin Int
      /\ batch.from \in Int /\ batch.to \in Int /\ batch.done \in Int
      /\ handled \subseteq Activations
  BY <1>3, Numbers DEF IInv, TypeOK
<1>5. batch'.from = batch.from /\ batch'.to = batch.to /\ batch'.done = b
  BY <1>1 DEF IInv, TypeOK
<1>6. BatchContinues /\ AppliedUpToDone
  BY <1>2 DEF IInv, BatchInv
<1>7. \A c \in Activations : batch.done < c /\ c < b => FALSE
  BY <1>1, <1>3, <1>4 DEF Pending
<1>8. TypeOK'
  BY <1>1, <1>2, <1>3, <1>4 DEF IInv, TypeOK
<1>9. ReadsPersisted'
  BY <1>2 DEF IInv, ReadsPersisted
<1>10. BatchContinues'
  BY <1>1, <1>2, <1>3, <1>4, <1>5, <1>6 DEF BatchContinues
<1>11. AppliedUpToDone'
  <2>1. ASSUME NEW c \in Activations, batch.from <= c, c <= b
        PROVE  c \in handled \cup {b}
    <3>1. c <= batch.done \/ c = b
      BY <1>4, <1>7, <2>1
    <3> QED
      BY <1>6, <2>1, <3>1 DEF AppliedUpToDone
  <2>2. ASSUME NEW c \in (handled \cup {b}) \ Corrupt, c <= b
        PROVE  c <= tenantKey'
    <3>1. CASE b \notin Corrupt
      BY <1>1, <2>2, <3>1
    <3>2. CASE b \in Corrupt
      <4>1. c \in handled \ Corrupt /\ c \in Activations /\ c # b
        BY <1>4, <2>2, <3>2
      <4>2. c <= batch.done
        BY <1>4, <1>7, <2>2, <4>1
      <4> QED
        BY <1>1, <1>6, <3>2, <4>1, <4>2 DEF AppliedUpToDone
    <3> QED
      BY <3>1, <3>2
  <2> QED
    BY <1>1, <1>5, <2>1, <2>2 DEF AppliedUpToDone
<1>12. FirstRun'
  <2> SUFFICES ASSUME lastBlockNum = None
               PROVE  /\ \A c \in handled' : c <= head
                      /\ \A c \in handled' \ Corrupt : c <= tenantKey'
    BY <1>2 DEF FirstRun
  <2>1. /\ \A c \in handled : c <= batch.to
        /\ \A c \in handled \ Corrupt : c <= tenantKey
        /\ batch.from = batch.to /\ batch.to <= head /\ batch.from - 1 <= batch.done
    BY <1>6 DEF BatchContinues, IInv, FirstRun
  <2>2. b = batch.to
    BY <1>3, <1>4, <2>1
  <2> QED
    BY <1>1, <1>4, <2>1, <2>2
<1>13. NoActivationSkipped'
  BY <1>1, <1>2 DEF IInv, NoActivationSkipped
<1>14. KeyNotBehindCursor'
  <2> SUFFICES ASSUME lastBlockNum # None, NEW c \in handled' \ Corrupt, c <= lastBlockNum
               PROVE  c <= tenantKey'
    BY <1>2 DEF KeyNotBehindCursor
  <2>1. lastBlockNum < b
    BY <1>3, <1>4, <1>6 DEF BatchContinues
  <2>2. c \in handled /\ c \in Nat /\ c <= tenantKey
    <3>1. c # b /\ c \in Nat
      BY <1>1, <1>4, <2>1
    <3> QED
      BY <1>1, <3>1 DEF IInv, KeyNotBehindCursor
  <2> QED
    BY <1>1, <1>4, <2>1, <2>2
<1> QED
  BY <1>8, <1>9, <1>10, <1>11, <1>12, <1>13, <1>14 DEF IInv, BatchInv

(* What a batch leaves behind when nothing of it is pending.               *)
LEMMA BatchApplied ==
    ASSUME IInv, pc = "apply", Pending = {}
    PROVE  /\ \A b \in Activations : batch.from <= b /\ b <= batch.to => b \in handled
           /\ \A b \in handled \ Corrupt : b <= batch.to => b <= tenantKey
<1>1. AppliedUpToDone
  BY DEF IInv, BatchInv
<1>2. \A b \in Activations : b <= batch.to => b <= batch.done
  BY Numbers DEF Pending, IInv, TypeOK
<1> QED
  BY <1>1, <1>2 DEF AppliedUpToDone, IInv, TypeOK

(* A finished batch is persisted as a whole.                               *)
LEMMA FinishKeeps ==
    ASSUME IInv, FinishBatch
    PROVE  IInv'
<1>1. /\ pc = "apply" /\ Pending = {}
      /\ lastProcessed' = batch.to /\ lastBlockNum' = batch.to
      /\ origin' = IF origin = None THEN batch.from - 1 ELSE origin
      /\ batch' = NoBatch /\ pc' = "poll" /\ catchupFrom' = None
      /\ UNCHANGED <<head, tenantKey, handled>>
  BY DEF FinishBatch, AdvanceCatchup, IInv, TypeOK
<1>2. /\ batch.to \in Int /\ batch.from \in Int /\ None \notin Int
      /\ origin \in Int \cup {None} /\ lastBlockNum \in Int \cup {None}
      /\ origin = None <=> lastBlockNum = None
      /\ \A b \in Activations : b \in Nat
  BY Numbers DEF IInv, TypeOK
<1>3. BatchContinues
  BY <1>1 DEF IInv, BatchInv
<1>4. TypeOK'
  BY <1>1, <1>2 DEF IInv, TypeOK, NoBatch
<1>5. ReadsPersisted' /\ BatchInv' /\ FirstRun'
  BY <1>1, <1>2 DEF ReadsPersisted, BatchInv, FirstRun
<1>6. NoActivationSkipped'
  <2> SUFFICES ASSUME NEW b \in Activations, origin' < b, b <= batch.to
               PROVE  b \in handled
    BY <1>1 DEF NoActivationSkipped
  <2>1. CASE batch.from <= b
    BY <1>1, <2>1, BatchApplied
  <2>2. CASE b < batch.from
    <3>1. lastBlockNum # None /\ origin' = origin
      BY <1>1, <1>2, <2>2
    <3>2. b <= lastBlockNum
      BY <1>2, <1>3, <2>2, <3>1 DEF BatchContinues
    <3> QED
      BY <3>1, <3>2 DEF IInv, NoActivationSkipped
  <2> QED
    BY <1>2, <2>1, <2>2
<1>7. KeyNotBehindCursor'
  BY <1>1, BatchApplied DEF KeyNotBehindCursor
<1> QED
  BY <1>4, <1>5, <1>6, <1>7 DEF IInv

(* No step of the listener or of the chain, no failure and no crash leaves *)
(* the invariant.                                                          *)
LEMMA Inductive == CatchupConf = None /\ IInv /\ [Next]_vars => IInv'
<1> SUFFICES ASSUME CatchupConf = None, IInv, [Next]_vars PROVE IInv'
  OBVIOUS
<1> USE DEF memory
<1>1. head \in Nat /\ catchupFrom = None
  BY DEF IInv, TypeOK
<1>2. CASE Mine
  BY <1>1, <1>2, NothingApplied DEF Mine
<1>3. CASE StartRun
  BY <1>1, <1>3, NothingApplied DEF StartRun, StartFrom
<1>4. CASE FetchLogs
  BY <1>4, FetchKeeps
<1>5. CASE ActivateKey
  BY <1>5, ActivateKeeps
<1>6. CASE FinishBatch
  BY <1>6, FinishKeeps
<1>7. CASE FailPolling
  BY <1>1, <1>7, NothingApplied DEF FailPolling
<1>8. CASE FailPersisting
  BY <1>1, <1>8, NothingApplied DEF FailPersisting, AdvanceCatchup
<1>9. CASE Crash
  BY <1>1, <1>9, NothingApplied DEF Crash
<1>10. CASE UNCHANGED vars
  BY <1>1, <1>10, NothingApplied DEF vars
<1> QED
  BY <1>2, <1>3, <1>4, <1>5, <1>6, <1>7, <1>8, <1>9, <1>10 DEF Next, Listen

(* Memory, database and batch agree in every reachable state.              *)
THEOREM ListenerInvariant == CatchupConf = None => (Spec => []IInv)
<1> SUFFICES ASSUME CatchupConf = None PROVE Spec => []IInv
  OBVIOUS
<1>1. Init => IInv
  BY InitInductive
<1>2. IInv /\ [Next]_vars => IInv'
  BY Inductive
<1> QED
  BY <1>1, <1>2, PTL DEF Spec

(* No activation between the block the listener began at and the one it    *)
(* persisted is skipped, whichever steps failed and were taken again.      *)
THEOREM NothingSkipped == CatchupConf = None => (Spec => []NoActivationSkipped)
<1>1. IInv => NoActivationSkipped
  BY DEF IInv
<1> QED
  BY <1>1, ListenerInvariant, PTL

(* The tenant's key is never older than the newest activation up to the    *)
(* persisted block, although an attempt that failed half-way is repeated.  *)
THEOREM KeyKeepsUp == CatchupConf = None => (Spec => []KeyNotBehindCursor)
<1>1. IInv => KeyNotBehindCursor
  BY DEF IInv
<1> QED
  BY <1>1, ListenerInvariant, PTL
=============================================================================
