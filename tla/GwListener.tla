----------------------------- MODULE GwListener -----------------------------
(***************************************************************************)
(* The coprocessor's gateway listener, as far as it follows the            *)
(* KMSGeneration contract: it polls the gateway for the logs of ranges of  *)
(* blocks, installs the key each ActivateKey event names for the tenant,   *)
(* and persists the last block it is through with.  Any step may fail; the *)
(* listener then starts over from what it persisted, or from where its     *)
(* catch-up was.  The process may also crash and be started again.         *)
(*                                                                         *)
(* A key is the number of the block that activates it.  The CRS events are *)
(* handled alike.                                                          *)
(***************************************************************************)
EXTENDS Integers, FiniteSets

CONSTANTS
    MaxBlock,        \* bound on the gateway's blocks
    Activations,     \* the blocks with an ActivateKey event
    Corrupt,         \* those whose download never matches the digest
    CatchupConf,     \* catchup_kms_generation_from_block, or None
    BatchSize,       \* get_logs_block_batch_size
    StoredAtStart,   \* what the database may hold when the listener starts
    MaxFailures,     \* bound on the failures and crashes together
    None

Blocks == 1 .. MaxBlock

ASSUME ListenerAssumption ==
    /\ MaxBlock \in Nat /\ BatchSize \in Nat \ {0} /\ MaxFailures \in Nat
    /\ Activations \subseteq Blocks /\ Corrupt \subseteq Activations
    /\ StoredAtStart \subseteq {None, 0}
    /\ None \notin Int /\ CatchupConf \in Int \cup {None}

VARIABLES
    head,          \* the gateway's current block
    pc,            \* "start", "poll" or "apply"
    lastProcessed, \* last_processed_block_num, in memory
    catchupFrom,   \* catchup_kms_generation_from, in memory
    batch,         \* the range being applied, and how far it is applied
    lastBlockNum,  \* gw_listener_last_block, in the database
    tenantKey,     \* the key of the tenant, in the database; 0 for none
    handled,       \* history: the activations installed or ignored so far
    origin,        \* history: the block after which the listener listens
    failures

memory   == <<pc, lastProcessed, catchupFrom, batch>>
database == <<lastBlockNum, tenantKey>>
history  == <<handled, origin>>
vars == <<head, memory, database, history, failures>>

NoBatch == [from |-> 0, to |-> 0, current |-> 0, done |-> 0]

Least(a, b) == IF a <= b THEN a ELSE b

(* The process starts for the first time, or after an earlier run of it.   *)
Init ==
    /\ head \in 0 .. 1
    /\ pc = "start"
    /\ lastProcessed = None
    /\ catchupFrom = CatchupConf
    /\ batch = NoBatch
    /\ lastBlockNum \in StoredAtStart
    /\ tenantKey = 0
    /\ handled = {}
    /\ origin = lastBlockNum
    /\ failures = 0

Mine ==
    /\ head < MaxBlock
    /\ head' = head + 1
    /\ UNCHANGED <<memory, database, history, failures>>

----------------------------------------------------------------------------
(* run_get_logs, from its start to a poll of the provider.                 *)

(* A negative block to catch up from counts back from the current one.     *)
CatchupStart ==
    LET block == IF catchupFrom >= 0 THEN catchupFrom ELSE head + catchupFrom
    IN  IF block >= 0 THEN block ELSE 0

(* Mutant: what was persisted is not read.                                 *)
StartFromGenesis == 0

StartFrom == IF catchupFrom = None THEN lastBlockNum ELSE CatchupStart

StartRun ==
    /\ pc = "start"
    /\ lastProcessed' = StartFrom
    /\ pc' = "poll"
    /\ UNCHANGED <<head, catchupFrom, batch, database, history, failures>>

FetchLogs ==
    LET from == IF lastProcessed = None THEN head ELSE lastProcessed + 1
    IN  /\ pc = "poll"
        /\ lastProcessed # None => lastProcessed < head
        /\ batch' = [from |-> from, to |-> Least(from + BatchSize - 1, head),
                     current |-> head, done |-> from - 1]
        /\ pc' = "apply"
        /\ UNCHANGED <<head, lastProcessed, catchupFrom, database, history, failures>>

(* Mutant: the last block of the range is left out.                        *)
PendingButLast == {b \in Activations : batch.done < b /\ b < batch.to}

Pending == {b \in Activations : batch.done < b /\ b <= batch.to}

(* activate_key: the key is downloaded, checked and installed in one       *)
(* database transaction; a mismatch of the digest is ignored.              *)
ActivateKey ==
    /\ pc = "apply"
    /\ \E b \in Pending :
           /\ \A c \in Pending : b <= c
           /\ tenantKey' = IF b \in Corrupt THEN tenantKey ELSE b
           /\ handled' = handled \cup {b}
           /\ batch' = [batch EXCEPT !.done = b]
    /\ UNCHANGED <<head, pc, lastProcessed, catchupFrom, lastBlockNum, origin, failures>>

(* The catch-up moves on in memory before the database is told.            *)
AdvanceCatchup ==
    catchupFrom' =
        IF catchupFrom = None \/ batch.to = batch.current THEN None ELSE batch.to + 1

FinishBatch ==
    /\ pc = "apply" /\ Pending = {}
    /\ lastProcessed' = batch.to
    /\ AdvanceCatchup
    /\ lastBlockNum' = batch.to
    /\ origin' = IF origin = None THEN batch.from - 1 ELSE origin
    /\ batch' = NoBatch
    /\ pc' = "poll"
    /\ UNCHANGED <<head, tenantKey, handled, failures>>

----------------------------------------------------------------------------
(* Failures.                                                               *)

Fails == failures < MaxFailures /\ failures' = failures + 1

(* The provider, the storage of the keys or the database fails: the error  *)
(* leaves run_get_logs, which is called again after a pause.               *)
FailPolling ==
    /\ pc \in {"poll", "apply"}
    /\ Fails
    /\ pc' = "start"
    /\ batch' = NoBatch
    /\ UNCHANGED <<head, lastProcessed, catchupFrom, database, history>>

(* The batch was applied but its last block could not be persisted.        *)
FailPersisting ==
    /\ pc = "apply" /\ Pending = {}
    /\ Fails
    /\ AdvanceCatchup
    /\ lastProcessed' = batch.to
    /\ batch' = NoBatch
    /\ pc' = "start"
    /\ UNCHANGED <<head, database, history>>

Crash ==
    /\ Fails
    /\ pc' = "start"
    /\ lastProcessed' = None
    /\ catchupFrom' = CatchupConf
    /\ batch' = NoBatch
    /\ UNCHANGED <<head, database, history>>

Listen == StartRun \/ FetchLogs \/ ActivateKey \/ FinishBatch
Next == Mine \/ Listen \/ FailPolling \/ FailPersisting \/ Crash

(* The listener's task retries for ever: it is never left undone when it   *)
(* has something to do.                                                    *)
Spec == Init /\ [][Next]_vars /\ WF_vars(Listen)

----------------------------------------------------------------------------
(* The persisted block never runs ahead of the work: once the listener has *)
(* persisted a block, every activation up to it, from where it began to    *)
(* listen, was installed or ignored for its digest, whichever steps failed *)
(* and were taken again.                                                   *)
NoActivationSkipped ==
    lastBlockNum # None =>
        \A b \in Activations : origin < b /\ b <= lastBlockNum => b \in handled

(* Installing again the older keys of a batch that failed half-way may set *)
(* the tenant back for a while, but never behind the block that was        *)
(* persisted: what the workers use is at least as new as that.             *)
KeyNotBehindCursor ==
    lastBlockNum # None =>
        \A b \in handled \ Corrupt : b <= lastBlockNum => b <= tenantKey

(* A key the KMS activates is installed in the end, and stays unless a     *)
(* newer one takes its place, provided the listener had persisted a block  *)
(* before.                                                                 *)
KeyInstalled ==
    \A b \in Activations \ Corrupt :
        (lastBlockNum # None /\ lastBlockNum < b /\ b <= head) ~> [](tenantKey >= b)

(* "if an error happens catchup will restart here": no activation after    *)
(* the block configured for the catch-up is lost to an error in it.        *)
CatchupLosesNothing ==
    lastBlockNum # None /\ CatchupConf # None =>
        \A b \in Activations : CatchupConf < b /\ b <= lastBlockNum => b \in handled
=============================================================================
