--------------------------- MODULE MCHostListener ---------------------------
(* Four blocks and a branch of three that leaves the chain at block 1.     *)
EXTENDS HostListener

MCBlocks == 0 .. 3 \cup {12, 13, 14}
MCNumber == [b \in MCBlocks |-> b % 10]
MCParent == [b \in MCBlocks \ {0} |-> IF b = 12 THEN 1 ELSE b - 1]
MCStoredAtStart == {{}, {0}, {0, 1}}
============================================================================
