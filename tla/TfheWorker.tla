----------------------------- MODULE TfheWorker -----------------------------
(***************************************************************************)
(* The coprocessor's FHE workers.  The host listener inserts, block by     *)
(* block, one row per operation of a transaction into `computations`; the  *)
(* zkproof worker inserts the ciphertexts of verified user inputs.  Every  *)
(* worker repeats one database transaction: it selects pending rows, locks *)
(* all rows of their transactions that nobody else holds, reads the        *)
(* ciphertexts these need, runs them as a graph of components, and writes  *)
(* ciphertexts, completions and errors.  A worker that fails or crashes    *)
(* rolls its transaction back.                                             *)
(*                                                                         *)
(* A row is identified with the handle it outputs; no two transactions     *)
(* output the same handle.  There is one tenant; scalar operands and the   *)
(* ciphertexts' contents are left out.                                     *)
(***************************************************************************)
EXTENDS Integers, Sequences, FiniteSets

CONSTANTS
    Rows,          \* the computations of the host chain
    Inputs,        \* the handles of user inputs
    TxOf, BlockOf, \* the transaction and the block of a row
    Deps,          \* its operands, rows or inputs, in order
    AllowedRows,   \* the rows whose handle somebody was allowed to use
    BadRows,       \* the operations that fail whenever they are executed
    Workers,
    BatchSize,     \* work_items_batch_size
    MaxFailures    \* bound on the transactions rolled back

DepSet(r) == {Deps[r][i] : i \in DOMAIN Deps[r]}

ASSUME WorkerAssumption ==
    /\ BlockOf \in [Rows -> Nat \ {0}]
    /\ Deps \in [Rows -> Seq(Rows \cup Inputs)]
    /\ AllowedRows \subseteq Rows /\ BadRows \subseteq Rows
    /\ BatchSize \in Nat \ {0} /\ MaxFailures \in Nat
    /\ \A r, s \in Rows : TxOf[r] = TxOf[s] => BlockOf[r] = BlockOf[s]
    /\ Rows \cap Inputs = {}

(* The host chain executes one transaction after the other, and an         *)
(* operation after the ones whose handles it uses; the rows are finitely   *)
(* many.  So of any rows there is a first, a last and a first transaction. *)
ASSUME ExecutionOrderAssumption ==
    \A S \in (SUBSET Rows) \ {{}} :
        /\ \E r \in S : DepSet(r) \cap S = {}
        /\ \E r \in S : \A s \in S : r \notin DepSet(s)
        /\ \E r \in S : \A s \in S :
               TxOf[s] = TxOf[r] => \A h \in DepSet(s) \cap S : TxOf[h] = TxOf[r]

VARIABLES
    block,        \* the blocks up to this one are inserted
    ciphertexts,  \* the handles with a row in ciphertexts
    completed,    \* the rows with is_completed
    errored,      \* the rows with is_error
    rescheduled,  \* the rows moved back in schedule_order
    phase,        \* per worker: "idle", "locking" or "computing"
    target,       \* per worker: the rows it still has to try and lock
    locked,       \* per worker: the rows it holds
    read,         \* per worker: the ciphertexts it read
    failures

database == <<ciphertexts, completed, errored, rescheduled>>
worker   == <<phase, target, locked, read>>
vars     == <<block, database, worker, failures>>

Init ==
    /\ block = 0
    /\ ciphertexts = {}
    /\ completed = {}
    /\ errored = {}
    /\ rescheduled = {}
    /\ phase = [w \in Workers |-> "idle"]
    /\ target = [w \in Workers |-> {}]
    /\ locked = [w \in Workers |-> {}]
    /\ read = [w \in Workers |-> {}]
    /\ failures = 0

Inserted == {r \in Rows : BlockOf[r] <= block}

(* The rows of a block are inserted in one database transaction.           *)
InsertBlock ==
    /\ \E r \in Rows : BlockOf[r] > block
    /\ block' = block + 1
    /\ UNCHANGED <<database, worker, failures>>

VerifyInput(i) ==
    /\ i \notin ciphertexts
    /\ ciphertexts' = ciphertexts \cup {i}
    /\ UNCHANGED <<block, completed, errored, rescheduled, worker, failures>>

----------------------------------------------------------------------------
(* query_for_work: the pending rows first in the schedule order, then all  *)
(* rows of their transactions, locked one after the other; a row somebody  *)
(* else holds is skipped.                                                  *)

(* Mutants: one row too few is selected; locked rows are not skipped.      *)
LimitShort == BatchSize - 1
FreeOrNot(r) == TRUE

Limit == BatchSize

Pending == (Inserted \cap AllowedRows) \ (completed \cup errored)

Before(r, s) ==
    IF r \in rescheduled <=> s \in rescheduled
    THEN BlockOf[r] < BlockOf[s]
    ELSE s \in rescheduled

FirstPending ==
    {S \in SUBSET Pending :
        /\ Cardinality(S) <= Limit
        /\ Cardinality(S) = Limit \/ S = Pending
        /\ \A s \in S, r \in Pending \ S : ~Before(r, s)}

Select(w) ==
    /\ phase[w] = "idle"
    /\ Pending # {}
    /\ \E S \in FirstPending :
           target' = [target EXCEPT ![w] = {r \in Inserted : \E s \in S : TxOf[r] = TxOf[s]}]
    /\ phase' = [phase EXCEPT ![w] = "locking"]
    /\ UNCHANGED <<block, database, locked, read, failures>>

Free(r) == \A w \in Workers : r \notin locked[w]

LockRow(w) ==
    /\ phase[w] = "locking"
    /\ \E r \in target[w] :
           /\ target' = [target EXCEPT ![w] = @ \ {r}]
           /\ locked' = [locked EXCEPT ![w] = IF Free(r) THEN @ \cup {r} ELSE @]
    /\ UNCHANGED <<block, database, phase, read, failures>>

----------------------------------------------------------------------------
(* The graphs.  An edge <<p, c, via>> says that c uses what p produces.    *)

(* The rows that are allowed or that an allowed row of the same            *)
(* transaction needs; the others are pruned.                               *)
Needed(rows) ==
    LET needed[r \in rows] ==
            \/ r \in AllowedRows
            \/ \E c \in rows : TxOf[c] = TxOf[r] /\ r \in DepSet(c) /\ needed[c]
    IN  {r \in rows : needed[r]}

RowEdges(rows) ==
    UNION {{<<Deps[c][i], c, i>> :
               i \in {j \in DOMAIN Deps[c] :
                         Deps[c][j] \in {r \in rows : TxOf[r] = TxOf[c]}}} : c \in rows}

(* partition_preserving_parallelism: nodes are merged along the edges that *)
(* are the only one out of their source and into their target.             *)
MergedAlong(edges) ==
    {e \in edges : \A f \in edges : f[1] = e[1] \/ f[2] = e[2] => f = e}

Partition(nodes, edges) ==
    LET merged == MergedAlong(edges)
        chain[n \in nodes] ==
            {n} \cup UNION {chain[e[2]] : e \in {m \in merged : m[1] = n}}
    IN  {chain[n] : n \in {m \in nodes : \A e \in merged : e[2] # m}}

Components == [rows \in SUBSET Rows |-> Partition(Needed(rows), RowEdges(Needed(rows)))]

ExternalInputs(C) == (UNION {DepSet(r) : r \in C}) \ C

ComponentEdges(CS) ==
    UNION {{<<A, B, h>> : h \in A \cap ExternalInputs(B)} : A, B \in CS}

(* The handles to read from the database: those no component produces,     *)
(* even if they are there already.                                         *)
NeededHandles(CS) == (UNION {ExternalInputs(C) : C \in CS}) \ (UNION CS)

ReadInputs(w) ==
    /\ phase[w] = "locking" /\ target[w] = {}
    /\ IF locked[w] = {}
       THEN /\ phase' = [phase EXCEPT ![w] = "idle"]
            /\ UNCHANGED read
       ELSE /\ phase' = [phase EXCEPT ![w] = "computing"]
            /\ read' = [read EXCEPT ![w] =
                           NeededHandles(Components[locked[w]]) \cap ciphertexts]
    /\ UNCHANGED <<block, database, target, locked, failures>>

----------------------------------------------------------------------------
(* Scheduler: the components run partition by partition.  One whose        *)
(* predecessor in an earlier partition is uncomputable is skipped; one     *)
(* that misses an input fails at its allowed rows; an operation that fails *)
(* leaves the rows behind it in the component without a result, and the    *)
(* others run.                                                             *)

(* Mutant: a component runs whether its inputs are there or not.           *)
MissesNothing(C, available) == FALSE

MissesInput(C, available) == ~(ExternalInputs(C) \subseteq available)

Runs(C) ==
    LET ran[r \in C] == r \notin BadRows /\ \A h \in DepSet(r) \cap C : ran[h]
    IN  {r \in C : ran[r]}

Results(CS, inputs) ==
    LET edges == ComponentEdges(CS)
        tasks == Partition(CS, edges)
        result[C \in CS] ==
            LET preds == {e[1] : e \in {f \in edges : f[2] = C}}
                SameTask(A) == \E T \in tasks : {A, C} \subseteq T
                skipped == \E A \in preds : IF SameTask(A) THEN result[A].skipped
                                            ELSE result[A].uncomputable
                missing == MissesInput(C, inputs \cup UNION {result[A].ok : A \in preds})
                err == IF skipped THEN {}
                       ELSE IF missing THEN C \cap AllowedRows
                       ELSE {r \in C \cap BadRows : DepSet(r) \cap C \subseteq Runs(C)}
            IN  [skipped |-> skipped,
                 missing |-> missing /\ ~skipped,
                 ok |-> IF skipped \/ missing THEN {} ELSE Runs(C),
                 err |-> err,
                 uncomputable |-> err # {} \/ \E A \in preds : result[A].uncomputable]
    IN  result

(* Mutant: rows of components that could not be computed count as done.    *)
AllHandles(CS, result) == UNION CS

HandlesToUpdate(CS, result) == UNION {C \in CS : ~result[C].uncomputable}

Release(w) ==
    /\ phase' = [phase EXCEPT ![w] = "idle"]
    /\ target' = [target EXCEPT ![w] = {}]
    /\ locked' = [locked EXCEPT ![w] = {}]
    /\ read' = [read EXCEPT ![w] = {}]

(* What a worker that holds these rows and read these inputs writes; the   *)
(* pruned rows count as completed.                                         *)
Outcome(rows, inputs) ==
    LET CS     == Components[rows]
        result == Results(CS, inputs)
    IN  [stored   |-> AllowedRows \cap UNION {result[C].ok : C \in CS},
         failed   |-> UNION {result[C].err : C \in CS},
         missing  |-> UNION {result[C].err : C \in {D \in CS : result[D].missing}},
         complete |-> HandlesToUpdate(CS, result) \cup (rows \ Needed(rows))]

(* upload_transaction_graph_results and the commit.  A missing input is an *)
(* error like any other, and moves the row back in the schedule order too. *)
Commit(w) ==
    /\ phase[w] = "computing"
    /\ \E out \in {Outcome(locked[w], read[w])} :
           /\ ciphertexts' = ciphertexts \cup out.stored
           /\ errored' = errored \cup out.failed
           /\ rescheduled' = rescheduled \cup out.missing
           /\ completed' = completed \cup out.complete
    /\ Release(w)
    /\ UNCHANGED <<block, failures>>

Rollback(w) ==
    /\ phase[w] # "idle"
    /\ failures < MaxFailures
    /\ failures' = failures + 1
    /\ Release(w)
    /\ UNCHANGED <<block, database>>

Next ==
    \/ InsertBlock
    \/ \E i \in Inputs : VerifyInput(i)
    \/ \E w \in Workers :
           Select(w) \/ LockRow(w) \/ ReadInputs(w) \/ Commit(w) \/ Rollback(w)

(* A computation ends, with a commit or with one of the rollbacks.         *)
EndsCycle(w) ==
    /\ phase[w] = "computing"
    /\ phase' = [phase EXCEPT ![w] = "idle"]

(* Every worker polls on a timer; blocks and verified inputs keep coming.  *)
Fairness ==
    /\ WF_vars(InsertBlock)
    /\ \A i \in Inputs : WF_vars(VerifyInput(i))
    /\ \A w \in Workers : /\ WF_vars(Select(w) \/ LockRow(w) \/ ReadInputs(w))
                          /\ WF_phase(EndsCycle(w))

Spec == Init /\ [][Next]_vars /\ Fairness

----------------------------------------------------------------------------
(* The values of the rows' flags and of the workers' memory; a row is      *)
(* locked by one worker at most.                                           *)
TypeOK ==
    /\ block \in Nat
    /\ ciphertexts \subseteq AllowedRows \cup Inputs
    /\ completed \subseteq Inserted /\ errored \subseteq Inserted
    /\ rescheduled \subseteq errored
    /\ phase \in [Workers -> {"idle", "locking", "computing"}]
    /\ target \in [Workers -> SUBSET Inserted]
    /\ locked \in [Workers -> SUBSET Inserted]
    /\ read \in [Workers -> SUBSET (Rows \cup Inputs)]
    /\ \A v, w \in Workers : v # w => locked[v] \cap locked[w] = {}

(* A computation marked as completed whose handle somebody may use has its *)
(* ciphertext stored: the SnS worker and later computations find it,       *)
(* whatever part of its transaction the worker had locked and whichever of *)
(* the components around it failed or were skipped.                        *)
CompletedIsStored == completed \cap AllowedRows \subseteq ciphertexts

(* The rows whose operations do not fail and whose inputs are there, all   *)
(* the way back.                                                           *)
Computable(available) ==
    LET computable[r \in Rows] ==
            /\ r \notin BadRows
            /\ \A h \in DepSet(r) : IF h \in Rows THEN computable[h] ELSE h \in available
    IN  {r \in Rows : computable[r]}

(* A stored ciphertext is one that could be computed: its operations did   *)
(* not fail and all the inputs it goes back to were verified.              *)
StoredIsComputable == ciphertexts \cap Rows \subseteq Computable(ciphertexts)

(* The rows no failing operation can keep busy: nothing in their           *)
(* transaction fails, nor in the transactions they depend on.              *)
Clean ==
    LET clean[r \in Rows] ==
            /\ \A s \in Rows : TxOf[s] = TxOf[r] => s \notin BadRows
            /\ \A s \in Rows : TxOf[s] = TxOf[r] =>
                   \A h \in DepSet(s) \cap Rows : TxOf[h] # TxOf[r] => clean[h]
    IN  {r \in Rows : clean[r]}

(* No allowed computation stays pending for ever: it is completed or in    *)
(* error in the end, although rows of failing transactions come back with  *)
(* every poll and two workers may share out the rows of one transaction.   *)
Settles ==
    \A r \in AllowedRows \cap Clean : <>(r \in completed \cup errored)

(* "Downgrade SchedulerError to warning when the error is not about the    *)
(* operations themselves. Do not set the error flag in the DB in such      *)
(* cases.": only an operation that failed is marked as in error.           *)
ErrorsOnlyFromOperations == errored \subseteq BadRows
=============================================================================
