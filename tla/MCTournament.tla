---------------------------- MODULE MCTournament ----------------------------
(* Instances of Tournament for TLC. *)
EXTENDS Tournament

Two == 1 .. 2
Three == 1 .. 3
Five == 1 .. 5
OneAccount == {1}
AllGestures == {0, 1, 2}
\* Seedings in order and mixed.
MixedSeeds == {<<1, 2, 3>>, <<3, 1, 2>>}
SeedsOfFive == {<<1, 2, 3, 4, 5>>, <<5, 3, 1, 2, 4>>}
=============================================================================
