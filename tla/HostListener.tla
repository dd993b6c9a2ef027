---------------------------- MODULE HostListener ----------------------------
(***************************************************************************)
(* The coprocessor's listener of a host chain.  It catches up by number    *)
(* from a block that is fixed when the process starts, in pages of logs,   *)
(* and follows the new blocks of a subscription.  A new block whose parent *)
(* is not in the history of blocks seen brings its missing ancestors with  *)
(* it.  A block's events are stored, and the block is marked as valid, in  *)
(* one database transaction per block; a restart resumes a margin below    *)
(* the highest valid block.                                                *)
(*                                                                         *)
(* A block stands for its hash.  The chain is any walk through a given     *)
(* tree of blocks; a reorganisation moves its head to another branch.      *)
(***************************************************************************)
EXTENDS Integers, Sequences, SequencesExt, FiniteSetsExt

CONSTANTS
    Blocks,      \* the hashes of the blocks
    Genesis,
    Parent,      \* parent_hash, for every block but the first
    Number,      \* the number of a block
    Eventful,    \* the blocks with events of the contracts
    FirstHead,   \* the head when the listener is started first
    StoredAtStart, \* what host_chain_blocks_valid may hold then
    Margin,      \* catchup_margin
    Paging,      \* catchup_paging
    MaxReorg,    \* reorg_maximum_duration_in_blocks
    MaxReorgs,   \* bound on the reorganisations
    MaxFaults,   \* bound on the failures and the crashes together
    None

ASSUME HostListenerAssumption ==
    /\ {Genesis, FirstHead} \subseteq Blocks /\ Eventful \subseteq Blocks
    /\ StoredAtStart \subseteq SUBSET Blocks
    /\ Parent \in [Blocks \ {Genesis} -> Blocks]
    /\ Number \in [Blocks -> Nat]
    /\ \A b \in Blocks \ {Genesis} : Number[b] = Number[Parent[b]] + 1
    /\ Margin \in Nat /\ Paging \in Nat \ {0} /\ MaxReorg \in Nat \ {0}
    /\ MaxReorgs \in Nat /\ MaxFaults \in Nat
    /\ None \notin Int

VARIABLES
    head,       \* the head of the host chain
    valid,      \* host_chain_blocks_valid: the blocks whose events are stored
    start,      \* start_at_block: fixed when the process starts
    open,       \* whether there is a stream
    inbox,      \* the new blocks in the stream
    catchup,    \* the first block of the rest to catch up, or None
    waiting,    \* a catch-up page brought nothing: wait for a block first
    queue,      \* next_blocklogs
    known,      \* the blocks of the block history
    seen,       \* how many there are, up to MINIMUM_HISTORY_SIZE
    chain,      \* history: the chain when the stream was opened
    torn,       \* history: there was a reorganisation while catching up
    lost,       \* history: the blocks the listener gave up
    forgotten,  \* history: the blocks below a restart that were not stored
    reorgs,
    faults

memory == <<open, inbox, catchup, waiting, queue, known, seen>>
hostVars == <<head, valid, start, memory, chain, torn, lost, forgotten, reorgs, faults>>

MinimumHistorySize == 2

(* The ancestors of a block, its parent first.                             *)
Ancestors[b \in Blocks] ==
    IF b = Genesis THEN <<>> ELSE <<Parent[b]>> \o Ancestors[Parent[b]]

Canonical == {head} \cup Range(Ancestors[head])

(* read_last_valid_block, less the margin.                                 *)
RestartAt(stored) ==
    IF stored = {} THEN None ELSE Max({Number[b] : b \in stored}) - Margin

StartProcess(stored) ==
    /\ start' = RestartAt(stored)
    /\ open' = FALSE /\ inbox' = <<>> /\ catchup' = None /\ waiting' = FALSE
    /\ queue' = <<>> /\ known' = {} /\ seen' = 0

HostInit ==
    /\ head = FirstHead
    /\ valid \in StoredAtStart
    /\ start = RestartAt(valid)
    /\ open = FALSE /\ inbox = <<>> /\ catchup = None /\ waiting = FALSE
    /\ queue = <<>> /\ known = {} /\ seen = 0
    /\ chain = {} /\ torn = FALSE /\ lost = {} /\ forgotten = {} /\ reorgs = 0 /\ faults = 0

Fault == faults < MaxFaults /\ faults' = faults + 1

----------------------------------------------------------------------------
(* The host chain.                                                         *)

SetHead(b) ==
    /\ head' = b
    /\ inbox' = IF open THEN Append(inbox, b) ELSE inbox
    /\ UNCHANGED <<valid, start, open, catchup, waiting, queue, known, seen,
                   chain, lost, forgotten, faults>>

NewBlock ==
    /\ \E b \in Blocks \ {Genesis} : Parent[b] = head /\ SetHead(b)
    /\ UNCHANGED <<torn, reorgs>>

Reorg ==
    /\ reorgs < MaxReorgs
    /\ reorgs' = reorgs + 1
    /\ torn' = (torn \/ catchup # None)
    /\ \E b \in Blocks : Number[b] >= Number[head] /\ head \notin {b} \cup Range(Ancestors[b])
                         /\ SetHead(b)

----------------------------------------------------------------------------
(* The stream and the catch-up.                                            *)

(* catchup_block_from: a negative start counts back from the head.         *)
CatchupBlockFrom ==
    LET back(n) == Number[head] - Min({n, Number[head]})
    IN  IF start = None THEN back(Margin)
        ELSE IF start >= 0 THEN start ELSE back(-start)

NewLogStream ==
    /\ ~open
    /\ open' = TRUE /\ inbox' = <<>>
    /\ catchup' = CatchupBlockFrom
    /\ chain' = Canonical
    /\ UNCHANGED <<head, valid, start, waiting, queue, known, seen,
                   torn, lost, forgotten, reorgs, faults>>

(* The logs of the canonical blocks with these numbers, split by block.    *)
LogsBetween(from, to) ==
    SetToSortSeq({b \in Canonical \cap Eventful : Number[b] \in from .. to},
                 LAMBDA a, b : Number[a] < Number[b])

(* An error that speaks of a limit halves the page, down to 1.             *)
PageSizes == {n \in 1 .. Paging : n = Paging \/ \E k \in 1 .. Paging : n = Max({Paging \div 2^k, 1})}

ConsumePage(from, size) ==
    LET to == from + size
    IN  /\ queue' = LogsBetween(from, to)
        /\ waiting' = (queue' = <<>>)
        /\ catchup' = IF queue' = <<>> /\ Number[head] < to + 1 THEN None ELSE to + 1

Idle == open /\ queue = <<>>

(* A block that is over the limit on its own is skipped.                   *)
ConsumeCatchupBlocks ==
    /\ Idle /\ catchup # None /\ ~waiting
    /\ \/ ConsumePage(catchup, Paging) /\ UNCHANGED <<lost, faults>>
       \/ /\ Fault
          /\ \E size \in PageSizes \ {Paging} : ConsumePage(catchup, size)
          /\ UNCHANGED lost
       \/ /\ Fault
          /\ ConsumePage(catchup + 1, 1)
          /\ lost' = lost \cup {b \in Canonical \ valid : Number[b] = catchup}
    /\ UNCHANGED <<head, valid, start, open, inbox, known, seen, chain, torn, forgotten, reorgs>>

(* Mutant: the page that could not be read is not read again.              *)
NextPage == catchup + Paging + 1

SamePage == catchup

CatchupFails ==
    /\ Idle /\ catchup # None /\ ~waiting
    /\ Fault
    /\ waiting' = TRUE
    /\ catchup' = SamePage
    /\ UNCHANGED <<head, valid, start, open, inbox, queue, known, seen, chain, torn,
                   lost, forgotten, reorgs>>

----------------------------------------------------------------------------
(* A new block.                                                            *)

(* Mutant: a block with the same number is taken for the same block.       *)
KnownByNumber(b) == \E a \in known : Number[a] = Number[b]

IsKnown(b) == b \in known

(* The ancestors up to the first one that is known, or to the limit.       *)
MissingAncestors(b) ==
    LET unknown == {k \in 0 .. Min({MaxReorg, Len(Ancestors[b])}) :
                       \A i \in 1 .. k : ~IsKnown(Ancestors[b][i])}
    IN  SubSeq(Ancestors[b], 1, Max(unknown))

(* Mutant: the new block is stored before the blocks that it misses.       *)
BlockFirst(missing, b) == <<b>> \o missing

AncestorsFirst(missing, b) == Append(missing, b)

(* The logs of the blocks found, one block after the other.                *)
ReadLogs(missing, skipped) ==
    LET logs[i \in 0 .. Len(missing)] ==
            IF i = 0 THEN <<>>
            ELSE IF missing[i] \in skipped THEN logs[i - 1]
            ELSE Append(logs[i - 1], missing[i])
    IN  logs[Len(missing)]

(* With too short a history the ancestors are not looked for: the ones     *)
(* that are new since the stream was opened may be lost.  Otherwise the    *)
(* search may be cut short, and the logs of a block found may be missing:  *)
(* the listener goes on without them.                                      *)
CheckMissingAncestors(b) ==
    LET before(a) == Range(Ancestors[a])
    IN  /\ seen' = Min({seen + 1, MinimumHistorySize})
        /\ \/ /\ seen < MinimumHistorySize
              /\ queue' = <<b>>
              /\ known' = known \cup {b}
              /\ lost' = lost \cup
                     {a \in before(b) \ (valid \cup chain) : catchup = None \/ Number[a] < catchup}
              /\ UNCHANGED faults
           \/ /\ seen = MinimumHistorySize
              /\ \E k \in 0 .. Len(MissingAncestors(b)) :
                     LET found  == SubSeq(MissingAncestors(b), 1, k)
                         oldest == IF k = 0 THEN b ELSE found[k]
                         ended  == oldest = Genesis \/ IsKnown(Parent[oldest])
                         cut    == IF ended THEN {} ELSE before(oldest)
                     IN  \E skipped \in SUBSET Range(found) :
                         /\ IF k = Len(MissingAncestors(b)) /\ skipped = {}
                            THEN UNCHANGED faults ELSE Fault
                         /\ queue' = AncestorsFirst(ReadLogs(Reverse(found), skipped), b)
                         /\ known' = known \cup {b} \cup (Range(found) \ skipped)
                         /\ lost' = lost \cup ((skipped \cup cut) \ valid)

(* next_block: the next block of the stream, or after a timeout the head.  *)
NextBlock ==
    /\ Idle /\ (waiting \/ catchup = None)
    /\ \/ /\ inbox # <<>>
          /\ CheckMissingAncestors(Head(inbox))
          /\ inbox' = Tail(inbox)
       \/ /\ inbox = <<>>
          /\ CheckMissingAncestors(head)
          /\ UNCHANGED inbox
    /\ waiting' = FALSE
    /\ UNCHANGED <<head, valid, start, open, catchup, chain, torn, forgotten, reorgs>>

(* The stream skips a block.                                               *)
LoseHeader ==
    /\ inbox # <<>>
    /\ Fault
    /\ inbox' = Tail(inbox)
    /\ UNCHANGED <<head, valid, start, open, catchup, waiting, queue, known, seen,
                   chain, torn, lost, forgotten, reorgs>>

(* The stream ends, or the logs of its block cannot be read.               *)
StreamFails ==
    /\ Idle /\ (waiting \/ catchup = None)
    /\ Fault
    /\ open' = FALSE /\ inbox' = <<>> /\ waiting' = FALSE
    /\ UNCHANGED <<head, valid, start, catchup, queue, known, seen, chain, torn, lost,
                   forgotten, reorgs>>

(* db_insert_block: given up after its retries.                            *)
DbInsertBlock ==
    /\ queue # <<>>
    /\ queue' = Tail(queue)
    /\ \/ valid' = valid \cup {Head(queue)} /\ UNCHANGED <<lost, faults>>
       \/ Fault /\ lost' = lost \cup ({Head(queue)} \ valid) /\ UNCHANGED valid
    /\ UNCHANGED <<head, start, open, inbox, catchup, waiting, known, seen,
                   chain, torn, forgotten, reorgs>>

CrashListener ==
    /\ Fault
    /\ StartProcess(valid)
    /\ torn' = FALSE
    /\ forgotten' = forgotten \cup
           {b \in (Canonical \cap Eventful) \ (valid \cup lost) :
               start' # None /\ Number[b] < start'}
    /\ UNCHANGED <<head, valid, chain, lost, reorgs>>

HostNext ==
    \/ NewBlock \/ Reorg
    \/ NewLogStream \/ ConsumeCatchupBlocks \/ CatchupFails
    \/ NextBlock \/ LoseHeader \/ StreamFails
    \/ DbInsertBlock \/ CrashListener

(* The listener is one loop, and blocks time out.                          *)
HostFairness ==
    /\ WF_hostVars(NewLogStream) /\ WF_hostVars(ConsumeCatchupBlocks)
    /\ WF_hostVars(NextBlock) /\ WF_hostVars(DbInsertBlock)

HostSpec == HostInit /\ [][HostNext]_hostVars /\ HostFairness

----------------------------------------------------------------------------
(* Once the history can tell, a block becomes known together with its      *)
(* parent, and both are on their way to the database; the exceptions are   *)
(* the ones the listener logs as an error.  So a reorganisation, a lost    *)
(* header or a timeout leaves no hole in a branch.                         *)
NewBranchFollowed ==
    [][\A b \in known' \ known :
           seen = MinimumHistorySize /\ b # Genesis =>
               /\ b \in Range(queue')
               /\ Parent[b] \in known' \cup lost' \cup valid]_hostVars

(* The process knows where to resume: the last valid block was not within  *)
(* the margin of block 0, and the table was not empty.                     *)
Resumed == start # None /\ start >= 0

(* Killing the listener loses no event, if it was through with the catch-  *)
(* up and knew the head of the chain: what is below the block it restarts  *)
(* from is stored, unless it was given up, even while the blocks of a new  *)
(* branch are being stored.  A branch does not begin further below the     *)
(* head it replaces than the margin, and not during the catch-up; and no   *)
(* more headers are lost than the margin, as pages read past the head      *)
(* store blocks ahead of the ones that are still found as ancestors.       *)
RestartLosesNothing ==
    [][/\ Resumed /\ ~torn /\ catchup = None
       /\ head \in known /\ seen = MinimumHistorySize
       /\ faults <= Margin
       => forgotten' = forgotten]_hostVars

(* In the end every block on the chain, from the block on that this        *)
(* process started from, is stored or was given up.                        *)
CanonicalIngested ==
    <>[](\A b \in Canonical \cap Eventful :
            Resumed /\ Number[b] >= start => b \in valid \cup lost)
============================================================================
