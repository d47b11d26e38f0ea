------------------------------ MODULE MCRestart ------------------------------
(***************************************************************************)
(* Restart on a block tree without transactions.                           *)
(***************************************************************************)
EXTENDS Restart, Irreversibility

CONSTANT Tips   \* the tips of the tree's branches

MCBlock == UNION {{SubSeq(s, 1, n) : n \in 1..Len(s)} : s \in Tips}
MCPrev == [b \in MCBlock |-> SubSeq(b, 1, Len(b) - 1)]
MCNum == [b \in MCBlock \cup {<< >>} |-> Len(b)]
MCGenesis == << >>
MCSigner == [b \in MCBlock |-> b[Len(b)]]
NoTxs == [b \in MCBlock |-> << >>]
NoNeeds == << >>

RestartTips == {<<1, 2, 2, 2>>, <<1, 2, 1, 1, 2>>}
OneFault == {{}} \cup {{b} : b \in MCBlock}
=============================================================================
