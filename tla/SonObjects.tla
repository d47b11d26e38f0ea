----------------------------- MODULE SonObjects -----------------------------
(***************************************************************************)
(* The objects through which the sidechain operators (SONs) agree: the     *)
(* deposits and withdrawals they report (son_wallet_deposit_evaluator.cpp, *)
(* son_wallet_withdraw_evaluator.cpp) and the transactions they sign for a *)
(* sidechain (sidechain_transaction_evaluator.cpp).  The operators are the *)
(* evaluators' effects on one object.  Every SON has weight 1, which is    *)
(* what update_active_sons() gives it.                                     *)
(***************************************************************************)
EXTENDS Naturals, FiniteSets

CONSTANTS
    Son,        \* the sidechain operator nodes
    None        \* no object

ASSUME SonAssumption == IsFiniteSet(Son)

\* vote_counter::finish_2_3(), and the threshold of a sidechain transaction.
Threshold(sons) == (Cardinality(sons) * 2) \div 3 + 1

-----------------------------------------------------------------------------
(* Deposits and withdrawals.                                               *)

Report ==
    [expected: SUBSET Son, received: SUBSET Son, block: Nat, processed: BOOLEAN]

\* Whether son s may report: the first report needs an active SON, any other
\* one of those that were active at the first.
MayReport(r, s, active) == IF r = None THEN s \in active ELSE s \in r.expected

\* The object after the report; "block" is the block s saw the transfer in.
Reported(r, s, active, block) ==
    IF r = None
    THEN [expected |-> active, received |-> {s}, block |-> block, processed |-> FALSE]
    ELSE [r EXCEPT !.received = @ \cup {s}]

\* More than two thirds of the expected weight has been received.
Confirmed(r) ==
    /\ r # None
    /\ Cardinality(r.received) > (Cardinality(r.expected) * 2) \div 3

\* Mutant: the process operation does not look at "processed".
MayProcessAgain(r, active, min) == r # None /\ Cardinality(active) >= min

\* What the process operation requires; that the object is confirmed is left
\* to those who approve the operation.
MayProcess(r, active, min) ==
    /\ Cardinality(active) >= min
    /\ r # None
    /\ ~r.processed

Processed(r) == [r EXCEPT !.processed = TRUE]

-----------------------------------------------------------------------------
(* Sidechain transactions.                                                 *)

Transaction ==
    [signers: SUBSET Son, signed: SUBSET Son,
     status: {"valid", "complete", "sent", "settled"}]

ASSUME NoneAssumption == None \notin Report /\ None \notin Transaction

NewTransaction(signers) == [signers |-> signers, signed |-> {}, status |-> "valid"]

SignerExpected(t, s) == s \in t.signers /\ s \notin t.signed

MaySign(t, s) == t # None /\ SignerExpected(t, s) /\ t.status = "valid"

Signed(t, s) ==
    LET signed == t.signed \cup {s}
    IN  [t EXCEPT !.signed = signed,
                  !.status = IF Cardinality(signed) >= Threshold(t.signers)
                             THEN "complete" ELSE @]

MaySend(t) == t # None /\ t.status = "complete"

Sent(t) == [t EXCEPT !.status = "sent"]

\* Mutant: any transaction can be settled again.
MaySettleAgain(t) == t # None /\ t.status \in {"sent", "settled"}

MaySettle(t) == t # None /\ t.status = "sent"

Settled(t) == [t EXCEPT !.status = "settled"]
=============================================================================
