----------------------------- MODULE MCBetting -------------------------------
(***************************************************************************)
(* BettingMarkets with one event.                                          *)
(***************************************************************************)
EXTENDS BettingMarkets

NoMoves == {}
MoveToSecond == {<<1, 2>>}
=============================================================================
