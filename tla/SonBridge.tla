------------------------------ MODULE SonBridge ------------------------------
(***************************************************************************)
(* The bridge between Peerplays and Hive that the sidechain operators      *)
(* (SONs) run: the peerplays_sidechain plugin of every SON, the proposals  *)
(* through which the SONs act for son_account, and the objects these       *)
(* change.  A deposit on Hive is reported by the SONs that see it, and one *)
(* proposal marks it processed and issues the asset.  A withdrawal is      *)
(* reported, turned into a Hive transaction by a proposal, signed by one   *)
(* proposal per SON, sent, and settled by a proposal that reserves the     *)
(* asset.  A change of the active SONs makes a wallet, which takes the     *)
(* same way as a withdrawal and hands the Hive account over.               *)
(*                                                                         *)
(* Every task of son_processing() only pushes transactions, which the      *)
(* chain may apply late, in another order or never, so every task is an    *)
(* action of its own.  In a behaviour whose plan has "late" what a task    *)
(* pushes waits in a variable until it is applied or lost; in the others   *)
(* it is applied at once.                                                  *)
(***************************************************************************)
EXTENDS SonObjects, Sequences, Functions

CONSTANTS
    Councils,       \* the active SONs of one maintenance after the other
    MinSons,        \* immutable_parameters.min_son_count
    Retries,        \* retries_threshold of the plugin
    MaxOpen,        \* bound: proposals open at a time
    MaxPending,     \* bound: proposals on their way at a time
    MaxReports,     \* bound: reports on their way at a time
    MaxComing,      \* bound: approvals of open proposals on their way at a time
    MaxAhead,       \* bound: approvals of proposals that are on their way
    Deposit,        \* transfers on Hive to son-account
    Later,          \* those that are not the first operation of their transaction
    Withdrawal,     \* transfers on Peerplays to son_account
    Plans           \* what may happen in a behaviour, its first and last council

ASSUME BridgeAssumption ==
    /\ Councils \in Seq((SUBSET Son) \ {{}}) /\ Councils # << >>
    /\ {MinSons, Retries, MaxOpen, MaxPending, MaxReports, MaxComing, MaxAhead} \subseteq Nat
    /\ Later \subseteq Deposit
    /\ Deposit \cap Withdrawal = {} /\ Withdrawal \cap (2..Len(Councils)) = {}
    /\ Plans \subseteq [does: SUBSET (Deposit \cup Withdrawal \cup {"wallet", "restart", "late", "timely"}),
                       from: DOMAIN Councils, to: DOMAIN Councils]

\* A sequence without its i-th element.
Without(s, i) == [j \in 1..(Len(s) - 1) |-> s[IF j < i THEN j ELSE j + 1]]

\* The wallets made by a change of the active SONs; the first one is in use.
Wallet == 2..Len(Councils)

\* What a sidechain transaction can be for.
Payment == Withdrawal \cup Wallet

\* The proposals' contents.  "sons" are the signers of the transaction that a
\* withdraw or a wallet proposal creates, or the one whose signature it holds.
Op ==
    [kind: {"deposit"}, item: Deposit, sons: {{}}]
        \cup [kind: {"withdraw"}, item: Withdrawal, sons: Range(Councils)]
        \cup [kind: {"wallet"}, item: Wallet, sons: Range(Councils)]
        \cup [kind: {"sign"}, item: Payment, sons: {{s} : s \in Son}]
        \cup [kind: {"settle"}, item: Payment, sons: {{}}]

\* The keys of son_retry_count, without the SON; "sign" is not counted.
Task == {<<o.kind, o.item>> : o \in {p \in Op : p.kind # "sign"}}

VARIABLES
    plan,       \* what happens in this behaviour
    era,        \* the number of the active council
    wallet,     \* the newest son_wallet_object
    address,    \* wallets with an address for Hive
    where,      \* block of a withdrawal's transfer, 0 before it is made
    reports,    \* reports on their way
    report,     \* son_wallet_deposit_object and son_wallet_withdraw_object
    sto,        \* sidechain_transaction_object of a payment
    open,       \* the proposals, in the order of their ids
    pending,    \* proposals on their way
    ahead,      \* approvals, by SONs that saw it pushed, of a pending proposal
    sends,      \* payments with a send operation on its way
    tries,      \* son_retry_count of every SON
    deposited,  \* "no", "head" or "final": a deposit on Hive
    paid,       \* "no", "head" or "final": a payment on Hive
    offered,    \* payments that reached a Hive node
    expired,    \* payments whose Hive transaction has expired
    keys,       \* the SONs that hold the Hive account
    issued,     \* how often a deposit's asset was issued
    reserved,   \* how often a withdrawal's asset was reserved
    astray      \* proposals that got an approval meant for another one

council == <<era, wallet>>
hive == <<deposited, paid, offered, expired, keys>>
ledger == <<report, sto, address, issued, reserved>>
mempool == <<reports, pending, ahead, sends>>
bvars == <<plan, council, where, ledger, open, mempool, tries, hive, astray>>

Active == Councils[era]

\* The SONs that exist in this behaviour, active or not.
Registered == UNION {Councils[n] : n \in plan.from..plan.to}

Ops(kind, item, sons) == [kind |-> kind, item |-> item, sons |-> sons]

-----------------------------------------------------------------------------
\* The types; no SON makes more attempts than son_retry_count allows.
BTypeOK ==
    /\ plan \in Plans
    /\ era \in 1..Len(Councils) /\ wallet \in 1..Len(Councils)
    /\ address \subseteq 1..Len(Councils)
    /\ where \in [Withdrawal -> 0..2]
    /\ reports \subseteq [son: Son, item: Deposit \cup Withdrawal, block: 0..2]
    /\ report \in [Deposit \cup Withdrawal -> Report \cup {None}]
    /\ sto \in [Payment -> Transaction \cup {None}]
    /\ open \in Seq([op: Op, approvals: SUBSET Son, coming: SUBSET (Son \X Op)])
    /\ pending \subseteq Op /\ ahead \subseteq Son \X Op
    /\ sends \subseteq Payment
    /\ tries \in [Son \X Task -> 0..Retries]
    /\ deposited \in [Deposit -> {"no", "head", "final"}]
    /\ paid \in [Payment -> {"no", "head", "final"}]
    /\ offered \subseteq Payment /\ expired \subseteq Payment
    /\ keys \subseteq Son
    /\ issued \in [Deposit -> Nat] /\ reserved \in [Withdrawal -> Nat]
    /\ astray \subseteq Op

\* Before any transfer, with the wallet of the council in place.
BInit ==
    /\ plan \in Plans
    /\ era = plan.from /\ wallet = era /\ address = {era} /\ keys = Councils[era]
    /\ where = [w \in Withdrawal |-> 0]
    /\ report = [x \in Deposit \cup Withdrawal |-> None]
    /\ sto = [x \in Payment |-> None]
    /\ open = << >>
    /\ reports = {} /\ pending = {} /\ ahead = {} /\ sends = {}
    /\ tries = [t \in Son \X Task |-> 0]
    /\ deposited = [d \in Deposit |-> "no"]
    /\ paid = [x \in Payment |-> "no"]
    /\ offered = {} /\ expired = {}
    /\ issued = [d \in Deposit |-> 0]
    /\ reserved = [w \in Withdrawal |-> 0]
    /\ astray = {}

-----------------------------------------------------------------------------
(* Hive.                                                                   *)

HiveTransfer(d) ==
    /\ d \in plan.does
    /\ deposited[d] = "no"
    /\ deposited' = [deposited EXCEPT ![d] = "head"]
    /\ UNCHANGED <<plan, council, where, ledger, open, mempool, tries,
                   paid, offered, expired, keys, astray>>

\* A Hive node takes a payment that enough of the account's keys have signed.
HiveInclude(x) ==
    /\ x \in offered \ expired
    /\ paid[x] = "no"
    /\ Cardinality(sto[x].signed \cap keys) >= Threshold(keys)
    /\ paid' = [paid EXCEPT ![x] = "head"]
    /\ keys' = IF x \in Wallet THEN Councils[x] ELSE keys
    /\ UNCHANGED <<plan, council, where, ledger, open, mempool, tries,
                   deposited, offered, expired, astray>>

\* A fork of Hive drops its head; a handover of the account stays.
HiveReorg ==
    /\ \/ \E d \in Deposit :
            /\ deposited[d] = "head"
            /\ deposited' = [deposited EXCEPT ![d] = "no"]
            /\ UNCHANGED paid
       \/ \E w \in Withdrawal :
            /\ paid[w] = "head"
            /\ paid' = [paid EXCEPT ![w] = "no"]
            /\ UNCHANGED deposited
    /\ UNCHANGED <<plan, council, where, ledger, open, mempool, tries,
                   offered, expired, keys, astray>>

HiveFinal ==
    /\ \/ \E d \in Deposit :
            /\ deposited[d] = "head"
            /\ deposited' = [deposited EXCEPT ![d] = "final"]
            /\ UNCHANGED paid
       \/ \E x \in Payment :
            /\ paid[x] = "head"
            /\ paid' = [paid EXCEPT ![x] = "final"]
            /\ UNCHANGED deposited
    /\ UNCHANGED <<plan, council, where, ledger, open, mempool, tries,
                   offered, expired, keys, astray>>

\* The Hive transaction is not taken any more, 180 seconds after it was made.
HiveExpire(x) ==
    /\ sto[x] # None
    /\ x \notin expired
    /\ expired' = expired \cup {x}
    /\ UNCHANGED <<plan, council, where, ledger, open, mempool, tries,
                   deposited, paid, offered, keys, astray>>

\* What the account history of Hive shows: irreversible transactions.
InHistory(d) == deposited[d] = "final"

-----------------------------------------------------------------------------
(* Transfers and the reports of the SONs that see them.                    *)

\* A transfer to son_account gets into a block of Peerplays.
Request(w) ==
    /\ w \in plan.does
    /\ where[w] = 0
    /\ where' = [where EXCEPT ![w] = 1]
    /\ UNCHANGED <<plan, council, ledger, open, mempool, tries, hive, astray>>

\* After a fork of Peerplays the transfer is in another block.  What SONs
\* pushed about the first one names that block, and is applied again.
Fork(w) ==
    /\ where[w] = 1
    /\ sto[w] = None
    /\ where' = [where EXCEPT ![w] = 2]
    /\ UNCHANGED <<plan, council, ledger, open, mempool, tries, hive, astray>>

\* The report of son s is applied, or fails.
AddReport(s, x, block) ==
    /\ report' = IF MayReport(report[x], s, Active)
                 THEN [report EXCEPT ![x] = Reported(@, s, Active, block)]
                 ELSE report
    /\ UNCHANGED <<sto, address, issued, reserved>>

\* An active SON sees a transfer: on Hive in the head block only, on Peerplays
\* in a block it applies.
See(s, x) ==
    LET block == IF x \in Deposit THEN 0 ELSE where[x]
    IN  /\ s \in Active
        /\ IF x \in Deposit THEN deposited[x] = "head" ELSE where[x] > 0
        /\ \/ /\ "late" \in plan.does
              /\ Cardinality(reports) < MaxReports
              /\ reports' = reports \cup {[son |-> s, item |-> x, block |-> block]}
              /\ UNCHANGED ledger
           \/ /\ "late" \notin plan.does
              /\ AddReport(s, x, block)
              /\ UNCHANGED reports
        /\ UNCHANGED <<plan, council, where, open, pending, ahead, sends, tries, hive, astray>>

ApplyReport(r) ==
    /\ reports' = reports \ {r}
    /\ AddReport(r.son, r.item, r.block)
    /\ UNCHANGED <<plan, council, where, open, pending, ahead, sends, tries, hive, astray>>
-----------------------------------------------------------------------------
(* What the proposed operations do.                                        *)

\* son_wallet_deposit_process and asset_issue.
ProcessDeposit(d) ==
    /\ MayProcess(report[d], Active, MinSons)
    /\ report' = [report EXCEPT ![d] = Processed(@)]
    /\ issued' = [issued EXCEPT ![d] = @ + 1]
    /\ UNCHANGED <<sto, address, reserved>>

\* son_wallet_withdraw_process and sidechain_transaction_create.
ProcessWithdraw(w, signers) ==
    /\ MayProcess(report[w], Active, MinSons)
    /\ sto[w] = None
    /\ report' = [report EXCEPT ![w] = Processed(@)]
    /\ sto' = [sto EXCEPT ![w] = NewTransaction(signers)]
    /\ UNCHANGED <<address, issued, reserved>>

\* son_wallet_update and sidechain_transaction_create.
UpdateWallet(n, signers) ==
    /\ sto[n] = None
    /\ sto' = [sto EXCEPT ![n] = NewTransaction(signers)]
    /\ address' = address \cup {n}
    /\ UNCHANGED <<report, issued, reserved>>

\* sidechain_transaction_sign.
Sign(x, s) ==
    /\ MaySign(sto[x], s)
    /\ sto' = [sto EXCEPT ![x] = Signed(@, s)]
    /\ UNCHANGED <<report, address, issued, reserved>>

\* sidechain_transaction_settle and, for a withdrawal, asset_reserve.
Settle(x) ==
    /\ MaySettle(sto[x])
    /\ sto' = [sto EXCEPT ![x] = Settled(@)]
    /\ reserved' = IF x \in Withdrawal THEN [reserved EXCEPT ![x] = @ + 1] ELSE reserved
    /\ UNCHANGED <<report, address, issued>>

Execute(o) ==
    \/ o.kind = "deposit" /\ ProcessDeposit(o.item)
    \/ o.kind = "withdraw" /\ ProcessWithdraw(o.item, o.sons)
    \/ o.kind = "wallet" /\ UpdateWallet(o.item, o.sons)
    \/ o.kind = "sign" /\ \E s \in o.sons : Sign(o.item, s)
    \/ o.kind = "settle" /\ Settle(o.item)

\* Whether the execution can throw, which undoes all of it: an evaluator
\* refuses, or son_account cannot pay the fee of the second operation, which
\* is a constant of the plugin.
CanFail(o) ==
    \/ "timely" \notin plan.does /\ (o.kind = "deposit" \/ <<o.kind, o.item>> \in {"settle"} \X Withdrawal)
    \/ o.kind = "deposit" /\ ~MayProcess(report[o.item], Active, MinSons)
    \/ o.kind = "settle" /\ ~MaySettle(sto[o.item])
    \/ o.kind = "withdraw" /\ (sto[o.item] # None \/ ~MayProcess(report[o.item], Active, MinSons))
    \/ o.kind = "wallet" /\ sto[o.item] # None
    \/ o.kind = "sign" /\ \A s \in o.sons : ~MaySign(sto[o.item], s)

-----------------------------------------------------------------------------
(* What a SON looks at before it approves.                                 *)

\* What son_retry_count counts: a SON proposing or approving a task.
Attempt(s, o) == <<s, <<o.kind, o.item>>>>

CanSonParticipate(s, o) == o.kind # "sign" => tries[Attempt(s, o)] < Retries

\* Mutant: a deposit is approved when it is reported.
ShouldApproveReported(o) ==
    \/ o.kind = "deposit"
    \/ o.kind = "withdraw" /\ where[o.item] = report[o.item].block /\ sto[o.item] = None
    \/ o.kind = "wallet" /\ {Active, o.sons} = {Councils[o.item]} /\ sto[o.item] = None
    \/ o.kind = "sign" /\ \E s \in o.sons : MaySign(sto[o.item], s)
    \/ o.kind = "settle"

\* Mutant: any council's wallet is approved.
ShouldApproveWallet(o) ==
    \/ o.kind = "deposit" /\ InHistory(o.item) /\ o.item \notin Later
    \/ o.kind = "withdraw" /\ where[o.item] = report[o.item].block /\ sto[o.item] = None
    \/ o.kind = "wallet" /\ sto[o.item] = None
    \/ o.kind = "sign" /\ \E s \in o.sons : MaySign(sto[o.item], s)
    \/ o.kind = "settle"

\* process_proposal(): a deposit is in Hive's history, at the index that the
\* last "-" of its uid is read as the sign of; a withdrawal is in the block its
\* object names; a wallet is the active SONs', and the transaction made from the
\* proposer's active SONs is the one made from the wallet's; a settlement is not
\* looked at.
ShouldApprove(o) ==
    \/ o.kind = "deposit" /\ InHistory(o.item) /\ o.item \notin Later
    \/ o.kind = "withdraw" /\ where[o.item] = report[o.item].block /\ sto[o.item] = None
    \/ o.kind = "wallet" /\ {Active, o.sons} = {Councils[o.item]} /\ sto[o.item] = None
    \/ o.kind = "sign" /\ \E s \in o.sons : MaySign(sto[o.item], s)
    \/ o.kind = "settle"

CanApprove(s, p) ==
    /\ s \notin p.approvals
    /\ <<s, p.op>> \notin p.coming
    /\ CanSonParticipate(s, p.op)
    /\ ShouldApprove(p.op)

-----------------------------------------------------------------------------
(* Proposals.                                                              *)

\* is_authorized_to_execute(): the approvals that count are those of the SONs
\* in the active authority of son_account now.
Authorized(approvals) == Cardinality(approvals \cap Active) >= Threshold(Active)

\* proposal_create.  Approvals that were pushed ahead name an id that their SON
\* had expected: they can meet this one.
Create(o) ==
    /\ Len(open) < MaxOpen
    /\ open' = Append(open, [op |-> o, approvals |-> {}, coming |-> ahead])

ApplyCreate(o) ==
    /\ Create(o)
    /\ pending' = pending \ {o}
    /\ ahead' = {a \in ahead : a[2] \in pending'}
    /\ UNCHANGED <<plan, council, where, ledger, reports, sends, tries, hive, astray>>

\* A pushed proposal never gets into a block.
LoseCreate(o) ==
    /\ pending' = pending \ {o}
    /\ UNCHANGED <<plan, council, where, ledger, open, reports, ahead, sends,
                   tries, hive, astray>>

\* proposal_update: the approval is added, and an authorized proposal is
\* executed, or kept if that throws.
AddApproval(i, a) ==
    /\ astray' = IF a[2] = open[i].op THEN astray ELSE astray \cup {open[i].op}
    /\ LET approvals == open[i].approvals \cup {a[1]}
       IN  \/ /\ Authorized(approvals)
              /\ Execute(open[i].op)
              /\ open' = Without(open, i)
           \/ /\ Authorized(approvals) => CanFail(open[i].op)
              /\ open' = [open EXCEPT ![i].approvals = approvals, ![i].coming = @ \ {a}]
              /\ UNCHANGED ledger

ApplyApproval(i, a) ==
    /\ AddApproval(i, a)
    /\ UNCHANGED <<plan, council, where, mempool, tries, hive>>

\* clear_expired_proposals(): a last attempt, then the proposal is removed.  A
\* timely proposal has met every SON by then.
Expire(i) ==
    /\ "timely" \in plan.does =>
         open[i].coming = {} /\ \A s \in Registered : ~CanApprove(s, open[i])
    /\ open' = Without(open, i)
    /\ \/ /\ Authorized(open[i].approvals)
          /\ Execute(open[i].op)
       \/ /\ Authorized(open[i].approvals) => CanFail(open[i].op)
          /\ UNCHANGED ledger
    /\ UNCHANGED <<plan, council, where, mempool, tries, hive, astray>>

-----------------------------------------------------------------------------
(* What a SON's plugin does.                                               *)

\* Mutant: a failed and a successful attempt are both counted.
LogSonProposalRetryTwice(s, o) ==
    tries' = IF o.kind = "sign" THEN tries
             ELSE [tries EXCEPT ![Attempt(s, o)] = IF @ + 2 > Retries THEN Retries ELSE @ + 2]

LogSonProposalRetry(s, o) ==
    tries' = IF o.kind = "sign" THEN tries ELSE [tries EXCEPT ![Attempt(s, o)] = @ + 1]

\* proposal_exists(): the search stops at the first settle proposal, and never
\* finds one.
ProposalExists(o) ==
    \E i \in DOMAIN open :
        /\ \A j \in 1..i : open[j].op.kind # "settle"
        /\ open[i].op.kind = o.kind
        /\ open[i].op.item = o.item
        /\ o.kind = "sign" => open[i].op.sons = o.sons

Push(o) ==
    /\ \/ /\ "late" \in plan.does
          /\ Cardinality(pending) < MaxPending
          /\ pending' = pending \cup {o}
          /\ UNCHANGED open
       \/ /\ "late" \notin plan.does
          /\ Create(o)
          /\ UNCHANGED pending
    /\ UNCHANGED <<plan, council, where, ledger, reports, ahead, sends, hive, astray>>

ProposeDeposit(s, d) ==
    LET o == Ops("deposit", d, {})
    IN  /\ s \in Active
        /\ Cardinality(Active) >= MinSons
        /\ Confirmed(report[d]) /\ ~report[d].processed
        /\ CanSonParticipate(s, o)
        /\ Push(o)
        /\ LogSonProposalRetry(s, o)

ProposeWithdrawal(s, w) ==
    LET o == Ops("withdraw", w, Active)
    IN  /\ s \in Active
        /\ Cardinality(Active) >= MinSons
        /\ Confirmed(report[w]) /\ ~report[w].processed
        /\ CanSonParticipate(s, o)
        /\ Push(o)
        /\ LogSonProposalRetry(s, o)

\* process_primary_wallet(), once a Hive node answers: the transaction is to be
\* signed by the new SONs.
ProposeWallet(s) ==
    LET o == Ops("wallet", wallet, Active)
    IN  /\ "wallet" \in plan.does
        /\ s \in Active
        /\ wallet \notin address
        /\ ~ProposalExists(o)
        /\ Push(o)
        /\ UNCHANGED tries

\* process_sidechain_transactions(), of SONs that are no longer active too.
ProposeSign(s, x) ==
    LET o == Ops("sign", x, {s})
    IN  /\ MaySign(sto[x], s)
        /\ ~ProposalExists(o)
        /\ Push(o)
        /\ UNCHANGED tries
\* Mutant: a payment that is in Hive's head block is taken for settled.
SettledAtHead(x) == x \in Wallet \/ paid[x] \in {"head", "final"}

\* settle_sidechain_transaction(): a withdrawal is irreversible on Hive; a
\* wallet's transaction is not looked at.
SettledOnHive(x) == x \in Wallet \/ paid[x] = "final"

ProposeSettle(s, x) ==
    LET o == Ops("settle", x, {})
    IN  /\ s \in Active
        /\ MaySettle(sto[x])
        /\ ~ProposalExists(o)
        /\ CanSonParticipate(s, o)
        /\ SettledOnHive(x)
        /\ Push(o)
        /\ LogSonProposalRetry(s, o)

\* process_proposals() of a SON, active or not, for a proposal of the chain...
Approve(s, i) ==
    LET o == open[i].op
    IN  /\ CanApprove(s, open[i])
        /\ \/ /\ "late" \in plan.does
              /\ Cardinality(UNION {open[j].coming : j \in DOMAIN open}) < MaxComing
              /\ open' = [open EXCEPT ![i].coming = @ \cup {<<s, o>>}]
              /\ UNCHANGED <<ledger, astray>>
           \/ /\ "late" \notin plan.does
              /\ AddApproval(i, <<s, o>>)
        /\ LogSonProposalRetry(s, o)
        /\ UNCHANGED <<plan, council, where, mempool, hive>>

\* ... and for one that is pushed, under the id it has in the SON's database.
ApproveAhead(s, o) ==
    /\ <<s, o>> \notin ahead
    /\ Cardinality(ahead) < MaxAhead
    /\ CanSonParticipate(s, o)
    /\ ShouldApprove(o)
    /\ ahead' = ahead \cup {<<s, o>>}
    /\ LogSonProposalRetry(s, o)
    /\ UNCHANGED <<plan, council, where, ledger, open, reports, pending, sends, hive, astray>>

\* send_sidechain_transactions(): whether Hive took the transaction is not
\* looked at.
Send(s, x) ==
    /\ s \in Active
    /\ MaySend(sto[x])
    /\ sends' = sends \cup {x}
    /\ offered' \in {offered, offered \cup {x}}
    /\ UNCHANGED <<plan, council, where, ledger, open, reports, pending, ahead, tries,
                   deposited, paid, expired, keys, astray>>

ApplySend(x) ==
    /\ sends' = sends \ {x}
    /\ sto' = IF MaySend(sto[x]) THEN [sto EXCEPT ![x] = Sent(@)] ELSE sto
    /\ UNCHANGED <<plan, council, where, report, address, issued, reserved, open,
                   reports, pending, ahead, tries, hive, astray>>

\* The retry counts live in memory.
RestartSon(s) ==
    /\ "restart" \in plan.does
    /\ \E t \in Task : tries[<<s, t>>] > 0
    /\ tries' = [t \in Son \X Task |-> IF t[1] = s THEN 0 ELSE tries[t]]
    /\ UNCHANGED <<plan, council, where, ledger, open, mempool, hive, astray>>

\* update_active_sons(): the authority of son_account and the active SONs
\* change, and a large enough new council gets a wallet.
Maintenance ==
    /\ era < plan.to
    /\ era' = era + 1
    /\ wallet' = IF /\ Councils[era + 1] # Councils[wallet]
                    /\ Cardinality(Councils[era + 1]) >= MinSons
                 THEN era + 1 ELSE wallet
    /\ UNCHANGED <<plan, where, ledger, open, mempool, tries, hive, astray>>

-----------------------------------------------------------------------------
HiveNext ==
    \/ \E d \in Deposit : HiveTransfer(d)
    \/ \E x \in Payment : HiveInclude(x) \/ HiveExpire(x)
    \/ HiveReorg \/ HiveFinal

ChainNext ==
    \/ \E w \in Withdrawal : Request(w) \/ Fork(w)
    \/ \E r \in reports : ApplyReport(r)
    \/ \E o \in pending : ApplyCreate(o) \/ LoseCreate(o)
    \/ \E i \in DOMAIN open :
        \/ Expire(i)
        \/ \E a \in open[i].coming : ApplyApproval(i, a)
    \/ \E x \in sends : ApplySend(x)
    \/ Maintenance

SonNext(s) ==
    \/ \E x \in Deposit \cup Withdrawal : See(s, x)
    \/ \E d \in Deposit : ProposeDeposit(s, d)
    \/ \E w \in Withdrawal : ProposeWithdrawal(s, w)
    \/ ProposeWallet(s)
    \/ \E x \in Payment : ProposeSign(s, x) \/ Send(s, x) \/ ProposeSettle(s, x)
    \/ \E i \in DOMAIN open : Approve(s, i)
    \/ \E o \in pending : ApproveAhead(s, o)
    \/ RestartSon(s)

BNext == HiveNext \/ ChainNext \/ \E s \in Registered : SonNext(s)

BSpec == BInit /\ [][BNext]_bvars

\* Every SON processes after every block, every active SON is scheduled again
\* and again, and blocks are produced, so that proposals expire.
BFairness ==
    /\ \A d \in Deposit : WF_bvars(\E s \in Registered : ProposeDeposit(s, d))
    /\ \A w \in Withdrawal : WF_bvars(\E s \in Registered : ProposeWithdrawal(s, w))
    /\ \A x \in Payment :
        /\ \A s \in Son : WF_bvars(s \in Registered /\ ProposeSign(s, x))
        /\ WF_bvars(\E s \in Registered : Send(s, x))
        /\ WF_bvars(x \in sends /\ ApplySend(x))
        /\ WF_bvars(\E s \in Registered : ProposeSettle(s, x))
    /\ \A i \in 1..MaxOpen :
        /\ \A s \in Son : WF_bvars(i \in DOMAIN open /\ s \in Registered /\ Approve(s, i))
        /\ WF_bvars(i \in DOMAIN open /\ Expire(i))

BFairSpec == BSpec /\ BFairness

-----------------------------------------------------------------------------
(* Properties.                                                             *)

\* A deposit's asset is issued at most once, however many proposals for it are
\* open and approved, and exactly when its object says it is processed.
IssuedOnce ==
    \A d \in Deposit :
        issued[d] = IF report[d] # None /\ report[d].processed THEN 1 ELSE 0

\* What is credited is a transfer that Hive will keep, as long as no approval
\* meant for another proposal reached the deposit's.
CreditedFinal ==
    \A d \in Deposit :
        issued[d] > 0 =>
            \/ deposited[d] = "final" /\ Confirmed(report[d]) /\ d \notin Later
            \/ \E o \in astray : o.kind = "deposit" /\ o.item = d

\* The asset of a withdrawal is reserved at most once, and only after the
\* payment on Hive is irreversible.
ReservedAfterPaid ==
    \A w \in Withdrawal :
        /\ reserved[w] <= 1
        /\ reserved[w] = 1 => paid[w] = "final" /\ sto[w].status = "settled"

\* A withdrawal goes its way once: it is processed exactly when it has a Hive
\* transaction, Hive has that only after it was signed, and the asset is
\* reserved exactly when it is settled.
OneWay ==
    \A w \in Withdrawal :
        /\ (report[w] # None /\ report[w].processed) <=> sto[w] # None
        /\ w \in offered => sto[w].status # "valid"
        /\ reserved[w] = 1 <=> (sto[w] # None /\ sto[w].status = "settled")

\* The transaction that hands the Hive account over to a wallet's SONs is
\* signed by these SONs, although neither its evaluator nor the SONs that
\* approve it compare the two.
WalletSigners ==
    \A n \in Wallet :
        sto[n] # None =>
            \/ sto[n].signers = Councils[n]
            \/ \E o \in astray : o.kind = "wallet" /\ o.item = n

\* The active SONs can still propose and approve as many proposals as can be
\* open at a time.
Plenty(kind, x) == \A s \in Active : tries[<<s, <<kind, x>>>>] + 2 * MaxOpen <= Retries

\* A deposit that Hive keeps and that two thirds of the SONs have reported is
\* credited, unless the attempts, which proposing and approving share, were used
\* up before Hive made it irreversible.
DepositsCredited ==
    \A d \in Deposit \ Later :
        (deposited[d] = "final" /\ Confirmed(report[d]) /\ Plenty("deposit", d))
            ~> (issued[d] = 1)

\* A withdrawal that is reported and stays in the block its object names gets
\* its Hive transaction, and that is signed and sent.
WithdrawalsSent ==
    \A w \in Withdrawal :
        <>[](Confirmed(report[w]) /\ where[w] = report[w].block)
            => <>(sto[w] # None /\ sto[w].status \in {"sent", "settled"})

\* A payment that Hive keeps is settled.
PaymentsSettled ==
    \A w \in Withdrawal : (paid[w] = "final") ~> (reserved[w] = 1)
=============================================================================
