---------------------------- MODULE MCTfheWorker ----------------------------
(* Block 1: a transaction whose second operation uses an intermediate      *)
(* result, and one whose first operation fails.  Block 2: a transaction    *)
(* that uses a result of the first one.                                    *)
EXTENDS TfheWorker

CONSTANTS a, b, g, h, d, x, t1, t2, t3

Row(tx, n, deps) == [tx |-> tx, block |-> n, deps |-> deps]

MCTable ==
    [r \in {a, b, g, h, d} |->
        CASE r = a -> Row(t1, 1, <<x>>)
          [] r = b -> Row(t1, 1, <<a>>)
          [] r = g -> Row(t2, 1, <<x>>)
          [] r = h -> Row(t2, 1, <<g>>)
          [] r = d -> Row(t3, 2, <<b, x>>)]

MCTxOf    == [r \in Rows |-> MCTable[r].tx]
MCBlockOf == [r \in Rows |-> MCTable[r].block]
MCDeps    == [r \in Rows |-> MCTable[r].deps]
=============================================================================
