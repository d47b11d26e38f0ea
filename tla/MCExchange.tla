----------------------------- MODULE MCExchange ------------------------------
(***************************************************************************)
(* BettingExchange with two bettors and the two markets of a group.        *)
(***************************************************************************)
EXTENDS BettingExchange, TLC

CONSTANTS alice, bob, home, away

MCFunds == [c \in {alice, bob} |-> 8]
\* Bob's affiliates are Alice, with three fifths of the share, and Bob.
MCAffiliates == (alice :> << >>) @@
    (bob :> <<[account |-> alice, share |-> 6], [account |-> bob, share |-> 4]>>)
=============================================================================
