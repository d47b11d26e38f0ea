------------------------------ MODULE MCChain -------------------------------
(***************************************************************************)
(* ChainDatabase on a small block tree.  A block is the sequence of the    *)
(* witnesses that signed it and its predecessors.                          *)
(***************************************************************************)
EXTENDS ChainDatabase, Irreversibility

CONSTANTS tx1, tx2

CONSTANT Tips   \* the tips of the tree's branches

TrunkTips == {<<1, 1, 1>>, <<1, 2, 2, 1>>, <<1, 2, 1>>}

\* Branches long enough that a block above the fork becomes irreversible while
\* the node is on one of them or on its way up.
DeepTips == {<<1, 1, 1, 1, 1>>, <<1, 2, 2, 1, 2, 1>>, <<1, 2, 1>>}

MCBlock == UNION {{SubSeq(s, 1, n) : n \in 1..Len(s)} : s \in Tips}
MCPrev == [b \in MCBlock |-> SubSeq(b, 1, Len(b) - 1)]
MCNum == [b \in MCBlock \cup {<< >>} |-> Len(b)]
MCGenesis == << >>
MCSigner == [b \in MCBlock |-> b[Len(b)]]
MCTxs == [b \in MCBlock |-> CASE b = <<1, 1>> -> <<tx1>>
                              [] b = <<1, 1, 1>> -> <<tx2>>
                              [] b = <<1, 2, 1>> -> <<tx1>>
                              [] OTHER -> << >>]
MCNeeds == [x \in {tx1, tx2} |-> IF x = tx2 THEN {tx1} ELSE {}]

AnyFault == SUBSET MCBlock

\* Without transactions, and with at most one invalid block.
NoTxs == [b \in MCBlock |-> << >>]
NoNeeds == << >>
LongTips == {<<1, 1>>, <<1, 2, 2>>, <<2, 2, 1>>}
OneFault == {{}} \cup {{b} : b \in MCBlock}

\* Also one on each of two branches.
SomeFaults == OneFault \cup {{<<1, 2, 1>>, <<1, 1, 1, 1>>}}
=============================================================================
