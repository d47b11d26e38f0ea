--------------------------- MODULE Irreversibility ---------------------------
(***************************************************************************)
(* Which block is irreversible once a block is applied:                    *)
(* update_signing_witness() and update_last_irreversible_block() of        *)
(* db_update.cpp, for a fixed set of active witnesses.                     *)
(***************************************************************************)
EXTENDS ForkDatabase, FiniteSets

CONSTANTS
    Witness,    \* global_property_object::active_witnesses
    Signer      \* signed_block::witness

\* witness_object::last_confirmed_block_num once b is applied.
LastConfirmed[b \in Block \cup {Genesis}] ==
    IF b = Genesis THEN [w \in Witness |-> 0]
    ELSE [LastConfirmed[Prev[b]] EXCEPT ![Signer[b]] = Num[b]]

\* GRAPHENE_IRREVERSIBLE_THRESHOLD is 70 percent.
Offset == ((10000 - 7000) * Cardinality(Witness)) \div 10000

\* std::nth_element: the value at position k (from 0) of f's values in order.
NthElement(f, k) ==
    CHOOSE v \in {f[w] : w \in DOMAIN f} :
        /\ Cardinality({w \in DOMAIN f : f[w] < v}) <= k
        /\ Cardinality({w \in DOMAIN f : f[w] <= v}) > k

\* dynamic_global_property_object::last_irreversible_block_num.
LastIrreversible[b \in Block \cup {Genesis}] ==
    IF b = Genesis THEN 0
    ELSE LET new == NthElement(LastConfirmed[b], Offset)
             old == LastIrreversible[Prev[b]]
         IN  IF new > old THEN new ELSE old
=============================================================================
