---------------------------- MODULE SonBridgeTypes ---------------------------
(***************************************************************************)
(* Proofs about the bridge for every set of SONs, every sequence of        *)
(* councils, every number of retries and every bound, first part: what     *)
(* each step does to the bridge's objects, and their types.                *)
(***************************************************************************)
EXTENDS SonBridge, FiniteSetTheorems, TLAPS

Proposal == [op: Op, approvals: SUBSET Son, coming: SUBSET (Son \X Op)]

-----------------------------------------------------------------------------
(* Sequences of proposals.                                                 *)

\* Removing a proposal keeps the type and brings no new element.
LEMMA WithoutElements ==
    ASSUME NEW S, NEW q \in Seq(S), NEW i \in DOMAIN q
    PROVE  /\ Without(q, i) \in Seq(S)
           /\ \A j \in DOMAIN Without(q, i) :
                \E k \in DOMAIN q : Without(q, i)[j] = q[k]
<1>1. \A j \in 1..(Len(q) - 1) : (IF j < i THEN j ELSE j + 1) \in DOMAIN q
  OBVIOUS
<1>2. Len(q) - 1 \in Nat
  OBVIOUS
<1>3. \A j \in DOMAIN Without(q, i) : \E k \in DOMAIN q : Without(q, i)[j] = q[k]
  BY <1>1 DEF Without
<1>4. Without(q, i) \in [1..(Len(q) - 1) -> S]
  BY <1>1 DEF Without
<1> QED
  BY <1>2, <1>3, <1>4
-----------------------------------------------------------------------------
(* Constants, councils and operations.                                     *)

\* The active SONs are a council.
LEMMA ActiveCouncil ==
    ASSUME BTypeOK
    PROVE  /\ Active \in SUBSET Son /\ Active \in Range(Councils)
           /\ Range(Councils) \subseteq SUBSET Son
           /\ Len(Councils) \in Nat
BY BridgeAssumption DEF BTypeOK, Active, Range

\* The SONs of a behaviour are SONs.
LEMMA RegisteredSons ==
    ASSUME plan \in Plans
    PROVE  Registered \subseteq Son
<1>1. plan.from \in DOMAIN Councils /\ plan.to \in DOMAIN Councils
  BY BridgeAssumption
<1>2. \A n \in plan.from..plan.to : n \in DOMAIN Councils
  BY <1>1, BridgeAssumption
<1>3. \A n \in DOMAIN Councils : Councils[n] \subseteq Son
  BY BridgeAssumption
<1> QED
  BY <1>2, <1>3 DEF Registered

\* The fields of the proposals.
LEMMA OpenProposals ==
    ASSUME BTypeOK
    PROVE  /\ open \in Seq(Proposal)
           /\ \A i \in DOMAIN open :
                /\ open[i] \in Proposal
                /\ open[i].op \in Op
                /\ open[i].approvals \subseteq Son
                /\ open[i].coming \subseteq Son \X Op
<1>1. open \in Seq(Proposal)
  BY DEF BTypeOK, Proposal
<1>2. \A i \in DOMAIN open : open[i] \in Proposal
  BY <1>1
<1>3. \A p \in Proposal :
        p.op \in Op /\ p.approvals \subseteq Son /\ p.coming \subseteq Son \X Op
  BY DEF Proposal
<1> QED
  BY <1>1, <1>2, <1>3

\* The fields of an operation, by its kind.
LEMMA OpFields ==
    ASSUME NEW o \in Op
    PROVE  /\ o.kind \in {"deposit", "withdraw", "wallet", "sign", "settle"}
           /\ o.kind = "deposit" => o.item \in Deposit
           /\ o.kind = "withdraw" => o.item \in Withdrawal /\ o.sons \in Range(Councils)
           /\ o.kind = "wallet" => o.item \in Wallet /\ o.sons \in Range(Councils)
           /\ o.kind = "sign" => o.item \in Payment /\ o.sons \subseteq Son
           /\ o.kind = "settle" => o.item \in Payment
BY DEF Op

\* What the tasks push are operations.
LEMMA OpsOp ==
    /\ \A d \in Deposit : Ops("deposit", d, {}) \in Op
    /\ \A w \in Withdrawal, S \in Range(Councils) : Ops("withdraw", w, S) \in Op
    /\ \A n \in Wallet, S \in Range(Councils) : Ops("wallet", n, S) \in Op
    /\ \A x \in Payment, s \in Son : Ops("sign", x, {s}) \in Op
    /\ \A x \in Payment : Ops("settle", x, {}) \in Op
BY DEF Op, Ops

\* An attempt at anything but a signature is counted.
LEMMA AttemptCounted ==
    ASSUME NEW s \in Son, NEW o \in Op, o.kind # "sign"
    PROVE  Attempt(s, o) \in Son \X Task
BY DEF Attempt, Task

\* Counting an attempt that is allowed stays within the retries.
LEMMA RetryBounded ==
    ASSUME BTypeOK, NEW s \in Son, NEW o \in Op,
           CanSonParticipate(s, o), LogSonProposalRetry(s, o)
    PROVE  tries' \in [Son \X Task -> 0..Retries]
<1>1. Retries \in Nat
  BY BridgeAssumption
<1>2. CASE o.kind = "sign"
  BY <1>2 DEF LogSonProposalRetry, BTypeOK
<1>3. CASE o.kind # "sign"
  <2> DEFINE k == Attempt(s, o)
  <2>1. k \in Son \X Task
    BY <1>3, AttemptCounted
  <2>2. tries[k] < Retries /\ tries' = [tries EXCEPT ![k] = @ + 1]
    BY <1>3 DEF CanSonParticipate, LogSonProposalRetry
  <2> HIDE DEF k
  <2>3. tries \in [Son \X Task -> 0..Retries]
    BY DEF BTypeOK
  <2>4. tries[k] + 1 \in 0..Retries
    BY <1>1, <2>1, <2>2, <2>3
  <2> QED
    BY <2>1, <2>2, <2>3, <2>4
<1> QED
  BY <1>2, <1>3
-----------------------------------------------------------------------------
(* What a step does to the ledger.                                         *)

LedgerTypeOK ==
    /\ address \subseteq 1..Len(Councils)
    /\ report \in [Deposit \cup Withdrawal -> Report \cup {None}]
    /\ sto \in [Payment -> Transaction \cup {None}]
    /\ issued \in [Deposit -> Nat] /\ reserved \in [Withdrawal -> Nat]

\* An approval that can be applied to proposal i: one on its way to it, or one
\* by a SON that looks at the proposed operation now.
Approval(i, a) ==
    /\ a \in Son \X Op
    /\ a \in open[i].coming \/ ShouldApprove(a[2])
    /\ astray' = IF a[2] = open[i].op THEN astray ELSE astray \cup {open[i].op}

\* Proposal i is executed, on an approval or as it expires.
Executed(i) ==
    /\ Execute(open[i].op)
    /\ \/ Authorized(open[i].approvals) /\ astray' = astray
       \/ \E a : Approval(i, a)
    /\ open' = Without(open, i)
    /\ UNCHANGED <<council, hive, pending, ahead>>

Reporting ==
    /\ \E s \in Son, x \in Deposit \cup Withdrawal, b \in Nat : AddReport(s, x, b)
    /\ UNCHANGED <<council, hive, open, pending, ahead, astray>>

Sending ==
    /\ \E x \in Payment : MaySend(sto[x]) /\ sto' = [sto EXCEPT ![x] = Sent(@)]
    /\ UNCHANGED <<report, address, issued, reserved, hive, open, pending, ahead, astray>>

\* The ledger is changed by a report, by the execution of a proposal and by a
\* transaction that is marked as sent, and by nothing else.
LEMMA LedgerSteps ==
    ASSUME BTypeOK, BNext
    PROVE  \/ UNCHANGED ledger
           \/ Reporting
           \/ \E i \in DOMAIN open : Executed(i)
           \/ Sending
<1> USE DEF ledger
<1>0. Registered \subseteq Son
  BY RegisteredSons DEF BTypeOK
<1>1. CASE HiveNext
  BY <1>1 DEF HiveNext, HiveTransfer, HiveInclude, HiveExpire, HiveReorg, HiveFinal
<1>2. CASE \E w \in Withdrawal : Request(w) \/ Fork(w)
  BY <1>2 DEF Request, Fork
<1>3. ASSUME NEW r \in reports, ApplyReport(r) PROVE Reporting
  <2>1. r.son \in Son /\ r.item \in Deposit \cup Withdrawal /\ r.block \in Nat
    BY DEF BTypeOK
  <2> QED
    BY <1>3, <2>1 DEF ApplyReport, Reporting
<1>4. CASE \E o \in pending : ApplyCreate(o) \/ LoseCreate(o)
  BY <1>4 DEF ApplyCreate, LoseCreate
<1>5. ASSUME NEW i \in DOMAIN open, Expire(i)
      PROVE  UNCHANGED ledger \/ Executed(i)
  BY <1>5 DEF Expire, Executed, mempool
<1>6. ASSUME NEW i \in DOMAIN open, NEW a \in open[i].coming, ApplyApproval(i, a)
      PROVE  UNCHANGED ledger \/ Executed(i)
  <2>1. a \in Son \X Op
    BY OpenProposals
  <2> QED
    BY <1>6, <2>1 DEF ApplyApproval, AddApproval, Executed, Approval, mempool
<1>7. ASSUME NEW x \in sends, ApplySend(x) PROVE UNCHANGED ledger \/ Sending
  <2>1. x \in Payment
    BY DEF BTypeOK
  <2> QED
    BY <1>7, <2>1 DEF ApplySend, Sending
<1>8. CASE Maintenance
  BY <1>8 DEF Maintenance
<1>9. ASSUME NEW s \in Son, NEW x \in Deposit \cup Withdrawal, See(s, x)
      PROVE  UNCHANGED ledger \/ Reporting
  <2>1. (IF x \in Deposit THEN 0 ELSE where[x]) \in Nat
    <3>1. where \in [Withdrawal -> 0..2]
      BY DEF BTypeOK
    <3> QED
      BY <3>1
  <2> QED
    BY <1>9, <2>1 DEF See, Reporting
<1>10. ASSUME NEW s \in Son,
              \/ \E d \in Deposit : ProposeDeposit(s, d)
              \/ \E w \in Withdrawal : ProposeWithdrawal(s, w)
              \/ ProposeWallet(s)
              \/ \E x \in Payment : ProposeSign(s, x) \/ Send(s, x) \/ ProposeSettle(s, x)
              \/ \E o \in pending : ApproveAhead(s, o)
              \/ RestartSon(s)
       PROVE  UNCHANGED ledger
  BY <1>10 DEF ProposeDeposit, ProposeWithdrawal, ProposeWallet, ProposeSign, Send,
               ProposeSettle, ApproveAhead, RestartSon, Push
<1>11. ASSUME NEW s \in Son, NEW i \in DOMAIN open, Approve(s, i)
       PROVE  UNCHANGED ledger \/ Executed(i)
  <2> DEFINE a == <<s, open[i].op>>
  <2>1. a \in Son \X Op
    BY OpenProposals
  <2>2. ShouldApprove(a[2])
    BY <1>11 DEF Approve, CanApprove
  <2> QED
    BY <1>11, <2>1, <2>2 DEF Approve, AddApproval, Executed, Approval, mempool
<1> QED
  BY <1>0, <1>1, <1>2, <1>3, <1>4, <1>5, <1>6, <1>7, <1>8, <1>9, <1>10, <1>11
     DEF BNext, ChainNext, SonNext
\* A report gives an object, which keeps what was received and is processed
\* if it was.
LEMMA ReportedObject ==
    ASSUME NEW r \in Report \cup {None}, NEW s \in Son, NEW active \in SUBSET Son, NEW b \in Nat
    PROVE  /\ Reported(r, s, active, b) \in Report
           /\ r = None => ~Reported(r, s, active, b).processed
           /\ r # None =>
                /\ Reported(r, s, active, b).processed = r.processed
                /\ Confirmed(r) => Confirmed(Reported(r, s, active, b))
<1>1. CASE r = None
  BY <1>1 DEF Reported, Report
<1>2. CASE r # None
  <2> DEFINE q == [r EXCEPT !.received = r.received \cup {s}]
  <2>1. r \in Report
    BY <1>2
  <2>2. Reported(r, s, active, b) = q
    BY <1>2 DEF Reported
  <2>3. /\ q \in Report /\ q.processed = r.processed
        /\ q.expected = r.expected /\ q.received = r.received \cup {s}
        /\ r.expected \subseteq Son /\ r.received \subseteq Son
    BY <2>1 DEF Report
  <2> HIDE DEF q
  <2>4. IsFiniteSet(r.received) /\ IsFiniteSet(r.expected) /\ IsFiniteSet(q.received)
    BY <2>3, SonAssumption, FS_Subset
  <2>5. Cardinality(r.received) <= Cardinality(q.received)
    BY <2>3, <2>4, FS_Subset
  <2>6. /\ Cardinality(r.received) \in Nat /\ Cardinality(q.received) \in Nat
        /\ Cardinality(r.expected) \in Nat
    BY <2>4, FS_CardinalityType
  <2>7. Confirmed(r) => Confirmed(q)
    BY <2>3, <2>5, <2>6, NoneAssumption DEF Confirmed
  <2> QED
    BY <1>2, <2>2, <2>3, <2>7
<1> QED
  BY <1>1, <1>2

\* Processing an object changes nothing but its flag.
LEMMA ProcessedObject ==
    ASSUME NEW r \in Report
    PROVE  /\ Processed(r) \in Report
           /\ Processed(r).processed
           /\ Confirmed(r) => Confirmed(Processed(r))
<1>1. /\ Processed(r) \in Report /\ Processed(r).processed
      /\ Processed(r).received = r.received /\ Processed(r).expected = r.expected
  BY DEF Processed, Report
<1> QED
  BY <1>1, NoneAssumption DEF Confirmed

\* A transaction keeps its signers and goes from valid to complete, sent and
\* settled.
LEMMA TransactionObject ==
    /\ \A S \in SUBSET Son : /\ NewTransaction(S) \in Transaction
                             /\ NewTransaction(S).status = "valid"
                             /\ NewTransaction(S).signers = S
    /\ \A t \in Transaction :
        /\ t # None
        /\ \A s \in Son : /\ Signed(t, s) \in Transaction
                          /\ Signed(t, s).status \in {t.status, "complete"}
                          /\ Signed(t, s).signers = t.signers
        /\ Sent(t) \in Transaction /\ Sent(t).status = "sent"
        /\ Sent(t).signers = t.signers
        /\ Settled(t) \in Transaction /\ Settled(t).status = "settled"
        /\ Settled(t).signers = t.signers
<1>1. \A S \in SUBSET Son : /\ NewTransaction(S) \in Transaction
                           /\ NewTransaction(S).status = "valid"
                           /\ NewTransaction(S).signers = S
  BY DEF NewTransaction, Transaction
<1>2. ASSUME NEW t \in Transaction
      PROVE  /\ t # None
             /\ \A s \in Son : /\ Signed(t, s) \in Transaction
                               /\ Signed(t, s).status \in {t.status, "complete"}
                               /\ Signed(t, s).signers = t.signers
             /\ Sent(t) \in Transaction /\ Sent(t).status = "sent"
             /\ Sent(t).signers = t.signers
             /\ Settled(t) \in Transaction /\ Settled(t).status = "settled"
             /\ Settled(t).signers = t.signers
  <2>1. t # None
    BY NoneAssumption
  <2>2. ASSUME NEW s \in Son
        PROVE  /\ Signed(t, s) \in Transaction
               /\ Signed(t, s).status \in {t.status, "complete"}
               /\ Signed(t, s).signers = t.signers
    BY DEF Signed, Transaction
  <2>3. /\ Sent(t) \in Transaction /\ Sent(t).status = "sent"
        /\ Sent(t).signers = t.signers
    BY DEF Sent, Transaction
  <2>4. /\ Settled(t) \in Transaction /\ Settled(t).status = "settled"
        /\ Settled(t).signers = t.signers
    BY DEF Settled, Transaction
  <2> QED
    BY <2>1, <2>2, <2>3, <2>4
<1> QED
  BY <1>1, <1>2
-----------------------------------------------------------------------------
(* The ledger: a deposit is credited once, a withdrawal goes its way once. *)

LedgerInv ==
    /\ IssuedOnce
    /\ OneWay
    /\ \A w \in Withdrawal :
        /\ reserved[w] \in {0, 1}
        /\ w \in offered => sto[w] # None

\* What was confirmed stays confirmed, and a wallet keeps its address.
Grows ==
    /\ \A x \in Deposit \cup Withdrawal : Confirmed(report[x]) => Confirmed(report'[x])
    /\ address \subseteq address'

LedgerKept ==
    /\ LedgerTypeOK'
    /\ Grows
    /\ LedgerInv => LedgerInv'

\* A report, the first or a later one, keeps the ledger as it should be.
LEMMA ReportKeeps ==
    ASSUME BTypeOK, Reporting
    PROVE  LedgerKept
<1> PICK s \in Son, x \in Deposit \cup Withdrawal, b \in Nat : AddReport(s, x, b)
  BY DEF Reporting
<1> DEFINE r == Reported(report[x], s, Active, b)
<1>1. report \in [Deposit \cup Withdrawal -> Report \cup {None}] /\ LedgerTypeOK
  BY DEF BTypeOK, LedgerTypeOK
<1>2. /\ r \in Report
      /\ report[x] = None => ~r.processed
      /\ report[x] # None => r.processed = report[x].processed
      /\ Confirmed(report[x]) => Confirmed(r)
  BY <1>1, ActiveCouncil, ReportedObject DEF Confirmed
<1>3. report' = report \/ report' = [report EXCEPT ![x] = r]
  BY DEF AddReport
<1> HIDE DEF r
<1>4. UNCHANGED <<sto, address, issued, reserved, offered>>
  BY DEF AddReport, Reporting, hive
<1>5. LedgerTypeOK'
  BY <1>1, <1>2, <1>3, <1>4 DEF LedgerTypeOK
<1>6. Grows
  BY <1>1, <1>2, <1>3, <1>4 DEF Grows
<1>7. \A y \in Deposit \cup Withdrawal :
        (report'[y] # None /\ report'[y].processed) <=> (report[y] # None /\ report[y].processed)
  BY <1>1, <1>2, <1>3, NoneAssumption
<1>8. IssuedOnce => IssuedOnce'
  BY <1>4, <1>7 DEF IssuedOnce
<1>9. OneWay => OneWay'
  BY <1>4, <1>7 DEF OneWay
<1> QED
  BY <1>4, <1>5, <1>6, <1>8, <1>9 DEF LedgerKept, LedgerInv

\* So does processing a deposit, which issues its asset the first and only time.
LEMMA ProcessDepositKeeps ==
    ASSUME BTypeOK, NEW d \in Deposit, ProcessDeposit(d), UNCHANGED offered
    PROVE  LedgerKept
<1> DEFINE r == Processed(report[d])
<1>1. report \in [Deposit \cup Withdrawal -> Report \cup {None}] /\ LedgerTypeOK
  BY DEF BTypeOK, LedgerTypeOK
<1>2. /\ report[d] # None /\ ~report[d].processed
      /\ report' = [report EXCEPT ![d] = r]
      /\ issued' = [issued EXCEPT ![d] = @ + 1]
      /\ UNCHANGED <<sto, address, reserved, offered>>
  BY DEF ProcessDeposit, MayProcess
<1>3. r \in Report /\ r.processed /\ (Confirmed(report[d]) => Confirmed(r)) /\ r # None
  BY <1>1, <1>2, ProcessedObject, NoneAssumption
<1> HIDE DEF r
<1>4. LedgerTypeOK'
  BY <1>1, <1>2, <1>3 DEF LedgerTypeOK
<1>5. Grows
  BY <1>1, <1>2, <1>3 DEF Grows
<1>6. ASSUME IssuedOnce PROVE IssuedOnce'
  <2>1. issued[d] = 0
    BY <1>2, <1>6 DEF IssuedOnce
  <2>2. issued'[d] = 1 /\ report'[d] = r
    BY <1>1, <1>2, <2>1 DEF LedgerTypeOK
  <2>3. \A e \in Deposit \ {d} : issued'[e] = issued[e] /\ report'[e] = report[e]
    BY <1>1, <1>2 DEF LedgerTypeOK
  <2> QED
    BY <1>3, <1>6, <2>2, <2>3 DEF IssuedOnce
<1>7. ASSUME OneWay PROVE OneWay'
  <2>1. \A w \in Withdrawal : report'[w] = report[w]
    BY <1>1, <1>2, BridgeAssumption
  <2> QED
    BY <1>2, <1>7, <2>1 DEF OneWay
<1> QED
  BY <1>2, <1>4, <1>5, <1>6, <1>7 DEF LedgerKept, LedgerInv

\* So does processing a withdrawal, which makes its Hive transaction.
LEMMA ProcessWithdrawKeeps ==
    ASSUME BTypeOK, NEW w \in Withdrawal, NEW S \in SUBSET Son, ProcessWithdraw(w, S),
           UNCHANGED offered
    PROVE  LedgerKept
<1> DEFINE r == Processed(report[w])
           t == NewTransaction(S)
<1>1. report \in [Deposit \cup Withdrawal -> Report \cup {None}] /\ LedgerTypeOK
      /\ w \in Payment
  BY DEF BTypeOK, LedgerTypeOK, Payment
<1>2. /\ report[w] # None /\ ~report[w].processed /\ sto[w] = None
      /\ report' = [report EXCEPT ![w] = r]
      /\ sto' = [sto EXCEPT ![w] = t]
      /\ UNCHANGED <<issued, address, reserved, offered>>
  BY DEF ProcessWithdraw, MayProcess
<1>3. r \in Report /\ r.processed /\ (Confirmed(report[w]) => Confirmed(r)) /\ r # None
  BY <1>1, <1>2, ProcessedObject, NoneAssumption
<1>4. t \in Transaction /\ t.status = "valid" /\ t # None
  BY TransactionObject
<1> HIDE DEF r, t
<1>5. LedgerTypeOK'
  BY <1>1, <1>2, <1>3, <1>4 DEF LedgerTypeOK
<1>6. Grows
  BY <1>1, <1>2, <1>3 DEF Grows
<1>7. ASSUME IssuedOnce PROVE IssuedOnce'
  <2>1. \A d \in Deposit : report'[d] = report[d]
    BY <1>1, <1>2, BridgeAssumption
  <2> QED
    BY <1>2, <1>7, <2>1 DEF IssuedOnce
<1>8. ASSUME LedgerInv PROVE OneWay' /\ w \notin offered
  <2>1. w \notin offered /\ reserved[w] # 1
    BY <1>2, <1>8 DEF LedgerInv, OneWay
  <2>2. report'[w] = r /\ sto'[w] = t
    BY <1>1, <1>2 DEF LedgerTypeOK
  <2>3. \A v \in Withdrawal \ {w} : report'[v] = report[v] /\ sto'[v] = sto[v]
    BY <1>1, <1>2 DEF LedgerTypeOK
  <2> QED
    BY <1>2, <1>3, <1>4, <1>8, <2>1, <2>2, <2>3 DEF LedgerInv, OneWay
<1>9. \A v \in Withdrawal : sto[v] # None => sto'[v] # None
  BY <1>1, <1>2 DEF LedgerTypeOK
<1> QED
  BY <1>2, <1>5, <1>6, <1>7, <1>8, <1>9 DEF LedgerKept, LedgerInv
\* Replacing a payment's transaction by one that is not settled and not behind
\* it, or a wallet's by any.
LEMMA TransactionKeeps ==
    ASSUME BTypeOK, NEW x \in Payment, NEW t \in Transaction,
           sto' = [sto EXCEPT ![x] = t],
           address' \subseteq 1..Len(Councils), address \subseteq address',
           UNCHANGED <<report, issued, reserved, offered>>,
           x \in Withdrawal =>
               /\ sto[x] # None /\ sto[x].status # "settled" /\ t.status # "settled"
               /\ sto[x].status # "valid" => t.status # "valid"
    PROVE  LedgerKept
<1>1. sto \in [Payment -> Transaction \cup {None}] /\ LedgerTypeOK
  BY DEF BTypeOK, LedgerTypeOK
<1>2. LedgerTypeOK'
  BY <1>1 DEF LedgerTypeOK
<1>3. Grows
  BY DEF Grows
<1>4. IssuedOnce => IssuedOnce'
  BY DEF IssuedOnce
<1>5. t # None
  BY TransactionObject
<1>6. ASSUME NEW w \in Withdrawal
      PROVE  /\ sto'[w] # None <=> sto[w] # None
             /\ sto[w] # None =>
                 /\ sto'[w].status = "settled" <=> sto[w].status = "settled"
                 /\ sto[w].status # "valid" => sto'[w].status # "valid"
  <2>1. CASE w = x
    BY <1>1, <1>5, <2>1
  <2>2. CASE w # x
    BY <1>1, <2>2 DEF Payment
  <2> QED
    BY <2>1, <2>2
<1>7. LedgerInv => OneWay'
  BY <1>6 DEF LedgerInv, OneWay
<1> QED
  BY <1>2, <1>3, <1>4, <1>6, <1>7 DEF LedgerKept, LedgerInv

\* An updated wallet has a new transaction and touches no withdrawal.
LEMMA UpdateWalletKeeps ==
    ASSUME BTypeOK, NEW n \in Wallet, NEW S \in SUBSET Son, UpdateWallet(n, S),
           UNCHANGED offered
    PROVE  LedgerKept
<1>1. n \in Payment /\ n \notin Withdrawal /\ n \in 1..Len(Councils)
  BY BridgeAssumption DEF Payment, Wallet
<1>2. address' \subseteq 1..Len(Councils) /\ address \subseteq address'
  BY <1>1 DEF UpdateWallet, BTypeOK
<1> QED
  BY <1>1, <1>2, TransactionObject, TransactionKeeps DEF UpdateWallet

\* A signature moves a transaction on from "valid" at most.
LEMMA SignKeeps ==
    ASSUME BTypeOK, NEW x \in Payment, NEW s \in Son, Sign(x, s), UNCHANGED offered
    PROVE  LedgerKept
<1> DEFINE t == Signed(sto[x], s)
<1>1. sto[x] \in Transaction /\ sto[x] # None /\ sto[x].status = "valid"
  BY DEF Sign, MaySign, BTypeOK
<1>2. t \in Transaction /\ t.status \in {"valid", "complete"}
  BY <1>1, TransactionObject
<1>3. sto' = [sto EXCEPT ![x] = t] /\ UNCHANGED <<report, issued, reserved, address>>
  BY DEF Sign
<1> HIDE DEF t
<1>4. address' \subseteq 1..Len(Councils) /\ address \subseteq address'
  BY <1>3 DEF BTypeOK
<1> QED
  BY <1>1, <1>2, <1>3, <1>4, TransactionKeeps

\* A complete transaction is marked as sent.
LEMMA SendKeeps ==
    ASSUME BTypeOK, Sending
    PROVE  LedgerKept
<1> PICK x \in Payment : MaySend(sto[x]) /\ sto' = [sto EXCEPT ![x] = Sent(@)]
  BY DEF Sending
<1> DEFINE t == Sent(sto[x])
<1>1. sto[x] \in Transaction /\ sto[x] # None /\ sto[x].status = "complete"
  BY DEF MaySend, BTypeOK
<1>2. t \in Transaction /\ t.status = "sent"
  BY <1>1, TransactionObject
<1>3. /\ sto' = [sto EXCEPT ![x] = t]
      /\ UNCHANGED <<report, issued, reserved, address, offered>>
  BY DEF Sending, hive
<1> HIDE DEF t
<1>4. address' \subseteq 1..Len(Councils) /\ address \subseteq address'
  BY <1>3 DEF BTypeOK
<1> QED
  BY <1>1, <1>2, <1>3, <1>4, TransactionKeeps

\* A sent transaction is settled, and a withdrawal's asset is reserved with it.
LEMMA SettleKeeps ==
    ASSUME BTypeOK, NEW x \in Payment, Settle(x), UNCHANGED offered
    PROVE  LedgerKept
<1> DEFINE t == Settled(sto[x])
<1>1. sto[x] \in Transaction /\ sto[x] # None /\ sto[x].status = "sent"
  BY DEF Settle, MaySettle, BTypeOK
<1>2. t \in Transaction /\ t.status = "settled" /\ t # None
  BY <1>1, TransactionObject
<1>3. sto' = [sto EXCEPT ![x] = t] /\ UNCHANGED <<report, issued, address, offered>>
      /\ reserved' = IF x \in Withdrawal THEN [reserved EXCEPT ![x] = @ + 1] ELSE reserved
  BY DEF Settle
<1> HIDE DEF t
<1>4. LedgerTypeOK
  BY DEF BTypeOK, LedgerTypeOK
<1>5. LedgerTypeOK'
  BY <1>2, <1>3, <1>4 DEF LedgerTypeOK
<1>6. Grows
  BY <1>3 DEF Grows
<1>7. IssuedOnce => IssuedOnce'
  BY <1>3 DEF IssuedOnce
<1>8. ASSUME LedgerInv, NEW w \in Withdrawal
      PROVE  /\ reserved'[w] \in {0, 1}
             /\ sto'[w] # None <=> sto[w] # None
             /\ w \in offered => sto'[w].status # "valid"
             /\ reserved'[w] = 1 <=> (sto'[w] # None /\ sto'[w].status = "settled")
  <2>1. CASE w = x
    <3>1. reserved[x] = 0
      BY <1>1, <1>8, <2>1 DEF LedgerInv, OneWay
    <3>2. reserved'[x] = 1 /\ sto'[x] = t
      BY <1>3, <1>4, <2>1, <3>1 DEF LedgerTypeOK
    <3> QED
      BY <1>1, <1>2, <2>1, <3>2
  <2>2. CASE w # x
    <3>1. reserved'[w] = reserved[w] /\ sto'[w] = sto[w]
      BY <1>3, <1>4, <2>2 DEF LedgerTypeOK, Payment
    <3> QED
      BY <1>8, <3>1 DEF LedgerInv, OneWay
  <2> QED
    BY <2>1, <2>2
<1>9. LedgerInv => OneWay'
  BY <1>3, <1>8 DEF LedgerInv, OneWay
<1> QED
  BY <1>3, <1>5, <1>6, <1>7, <1>8, <1>9 DEF LedgerKept, LedgerInv

\* No proposed operation breaks the ledger.
LEMMA ExecuteKeeps ==
    ASSUME BTypeOK, NEW o \in Op, Execute(o), UNCHANGED offered
    PROVE  LedgerKept
<1>1. Range(Councils) \subseteq SUBSET Son
  BY ActiveCouncil
<1>2. CASE o.kind = "deposit" /\ ProcessDeposit(o.item)
  BY <1>2, OpFields, ProcessDepositKeeps
<1>3. CASE o.kind = "withdraw" /\ ProcessWithdraw(o.item, o.sons)
  BY <1>1, <1>3, OpFields, ProcessWithdrawKeeps
<1>4. CASE o.kind = "wallet" /\ UpdateWallet(o.item, o.sons)
  BY <1>1, <1>4, OpFields, UpdateWalletKeeps
<1>5. CASE o.kind = "sign" /\ \E s \in o.sons : Sign(o.item, s)
  BY <1>5, OpFields, SignKeeps
<1>6. CASE o.kind = "settle" /\ Settle(o.item)
  BY <1>6, OpFields, SettleKeeps
<1> QED
  BY <1>2, <1>3, <1>4, <1>5, <1>6 DEF Execute
\* Every step keeps the ledger's types, and what is confirmed confirmed.
LEMMA LedgerTypes ==
    ASSUME BTypeOK, BNext
    PROVE  LedgerTypeOK' /\ Grows
<1>1. CASE UNCHANGED ledger
  BY <1>1 DEF ledger, LedgerTypeOK, BTypeOK, Grows
<1>2. ASSUME NEW i \in DOMAIN open, Executed(i) PROVE LedgerKept
  BY <1>2, OpenProposals, ExecuteKeeps DEF Executed, hive
<1> QED
  BY <1>1, <1>2, LedgerSteps, ReportKeeps, SendKeeps DEF LedgerKept

-----------------------------------------------------------------------------
(* Types.                                                                  *)

HiveTypeOK ==
    /\ deposited \in [Deposit -> {"no", "head", "final"}]
    /\ paid \in [Payment -> {"no", "head", "final"}]
    /\ offered \subseteq Payment /\ expired \subseteq Payment
    /\ keys \subseteq Son

CouncilTypeOK ==
    /\ plan \in Plans
    /\ era \in 1..Len(Councils) /\ wallet \in 1..Len(Councils)
    /\ where \in [Withdrawal -> 0..2]

ProposalTypeOK ==
    /\ open \in Seq(Proposal)
    /\ pending \subseteq Op /\ ahead \subseteq Son \X Op
    /\ astray \subseteq Op

RestTypeOK ==
    /\ reports \subseteq [son: Son, item: Deposit \cup Withdrawal, block: 0..2]
    /\ sends \subseteq Payment
    /\ tries \in [Son \X Task -> 0..Retries]

\* BTypeOK is the parts' types taken together...
LEMMA TypesTogether ==
    BTypeOK <=> LedgerTypeOK /\ HiveTypeOK /\ CouncilTypeOK /\ ProposalTypeOK /\ RestTypeOK
BY Zenon DEF BTypeOK, LedgerTypeOK, HiveTypeOK, CouncilTypeOK, ProposalTypeOK, RestTypeOK, Proposal

\* ... also in the next state.
LEMMA TypesTogetherNext ==
    BTypeOK' <=> (LedgerTypeOK /\ HiveTypeOK /\ CouncilTypeOK /\ ProposalTypeOK /\ RestTypeOK)'
BY Zenon DEF BTypeOK, LedgerTypeOK, HiveTypeOK, CouncilTypeOK, ProposalTypeOK, RestTypeOK, Proposal

\* Adding an approval to a proposal, or taking the proposal off.
LEMMA AddApprovalTypes ==
    ASSUME BTypeOK, NEW i \in DOMAIN open, NEW a \in Son \X Op, AddApproval(i, a)
    PROVE  open' \in Seq(Proposal) /\ astray' \subseteq Op
<1>1. astray' \subseteq Op
  BY OpenProposals DEF AddApproval, BTypeOK
<1>2. CASE open' = Without(open, i)
  BY <1>1, <1>2, OpenProposals, WithoutElements
<1>3. CASE open' = [open EXCEPT ![i].approvals = open[i].approvals \cup {a[1]},
                               ![i].coming = @ \ {a}]
  <2> DEFINE p == [open[i] EXCEPT !.approvals = open[i].approvals \cup {a[1]},
                                  !.coming = @ \ {a}]
  <2>1. p \in Proposal
    BY OpenProposals DEF Proposal
  <2>2. open' = [open EXCEPT ![i] = p]
    BY <1>3
  <2> QED
    BY <1>1, <2>1, <2>2, OpenProposals
<1> QED
  BY <1>1, <1>2, <1>3 DEF AddApproval

\* A new proposal.
LEMMA CreateTypes ==
    ASSUME BTypeOK, NEW o \in Op, Create(o)
    PROVE  open' \in Seq(Proposal)
<1>1. [op |-> o, approvals |-> {}, coming |-> ahead] \in Proposal
  BY DEF BTypeOK, Proposal
<1> QED
  BY <1>1, OpenProposals DEF Create

\* What a SON pushes waits, or becomes a proposal at once.
LEMMA PushTypes ==
    ASSUME BTypeOK, NEW o \in Op, Push(o)
    PROVE  ProposalTypeOK'
<1>1. pending' \subseteq Op
  BY DEF Push, BTypeOK
<1>2. open' \in Seq(Proposal)
  BY CreateTypes, OpenProposals DEF Push
<1> QED
  BY <1>1, <1>2 DEF Push, ProposalTypeOK, BTypeOK

\* Every step keeps the types of what is on Hive.
LEMMA HiveTypes ==
    ASSUME BTypeOK, BNext
    PROVE  HiveTypeOK'
<1> USE DEF HiveTypeOK, hive
<1>1. HiveTypeOK
  BY TypesTogether
<1>2. ASSUME NEW d \in Deposit, HiveTransfer(d) PROVE HiveTypeOK'
  BY <1>1, <1>2 DEF HiveTransfer
<1>3. ASSUME NEW x \in Payment, HiveInclude(x) PROVE HiveTypeOK'
  <2>1. x \in Wallet => Councils[x] \subseteq Son
    BY BridgeAssumption DEF Wallet
  <2> QED
    BY <1>1, <1>3, <2>1 DEF HiveInclude
<1>4. ASSUME NEW x \in Payment, HiveExpire(x) PROVE HiveTypeOK'
  BY <1>1, <1>4 DEF HiveExpire
<1>5. CASE HiveReorg
  BY <1>1, <1>5 DEF HiveReorg
<1>6. CASE HiveFinal
  BY <1>1, <1>6 DEF HiveFinal
<1>7. CASE ChainNext
  BY <1>1, <1>7 DEF ChainNext, Request, Fork, ApplyReport, ApplyCreate, LoseCreate,
                    Expire, ApplyApproval, ApplySend, Maintenance
<1>8. ASSUME NEW s \in Registered, NEW x \in Payment, Send(s, x) PROVE HiveTypeOK'
  BY <1>1, <1>8 DEF Send
<1>9. ASSUME NEW s \in Registered, SonNext(s), ~ \E x \in Payment : Send(s, x) PROVE HiveTypeOK'
  BY <1>1, <1>9 DEF SonNext, See, ProposeDeposit, ProposeWithdrawal, ProposeWallet,
                    ProposeSign, ProposeSettle, Approve, ApproveAhead, RestartSon, Push
<1> QED
  BY <1>2, <1>3, <1>4, <1>5, <1>6, <1>7, <1>8, <1>9 DEF BNext, HiveNext

\* Every step keeps the types of the council, the wallets and the transfers.
LEMMA CouncilTypes ==
    ASSUME BTypeOK, BNext
    PROVE  CouncilTypeOK'
<1> USE DEF CouncilTypeOK, council
<1>1. CouncilTypeOK
  BY TypesTogether
<1>2. CASE HiveNext
  BY <1>1, <1>2 DEF HiveNext, HiveTransfer, HiveInclude, HiveExpire, HiveReorg, HiveFinal
<1>3. ASSUME NEW w \in Withdrawal, Request(w) \/ Fork(w) PROVE CouncilTypeOK'
  <2>1. PICK k \in 1..2 : where' = [where EXCEPT ![w] = k]
    BY <1>3 DEF Request, Fork
  <2>2. UNCHANGED <<plan, era, wallet>>
    BY <1>3 DEF Request, Fork
  <2>3. where' \in [Withdrawal -> 0..2]
    BY <1>1, <2>1
  <2> QED
    BY <1>1, <2>2, <2>3
<1>4. CASE Maintenance
  <2>1. plan.to \in 1..Len(Councils) /\ Len(Councils) \in Nat
    BY <1>1, BridgeAssumption
  <2>2. era + 1 \in 1..Len(Councils)
    BY <1>1, <1>4, <2>1 DEF Maintenance
  <2> QED
    BY <1>1, <1>4, <2>2 DEF Maintenance
<1>5. CASE ChainNext /\ ~Maintenance /\ ~ \E w \in Withdrawal : Request(w) \/ Fork(w)
  BY <1>1, <1>5 DEF ChainNext, ApplyReport, ApplyCreate, LoseCreate, Expire,
                    ApplyApproval, ApplySend
<1>6. ASSUME NEW s \in Registered, SonNext(s) PROVE CouncilTypeOK'
  BY <1>1, <1>6 DEF SonNext, See, ProposeDeposit, ProposeWithdrawal, ProposeWallet, Send,
                    ProposeSign, ProposeSettle, Approve, ApproveAhead, RestartSon, Push
<1> QED
  BY <1>2, <1>3, <1>4, <1>5, <1>6 DEF BNext
\* The first wallet needs no transaction.
FirstWallet == wallet = 1 => 1 \in address

\* The first wallet never has to be proposed: it has an address from the start.
LEMMA FirstWalletStep ==
    ASSUME BTypeOK, FirstWallet, BNext
    PROVE  FirstWallet'
<1>1. address \subseteq address'
  BY LedgerTypes DEF Grows
<1>2. CASE Maintenance
  BY <1>1, <1>2 DEF Maintenance, FirstWallet, BTypeOK
<1>3. CASE BNext /\ ~Maintenance
  <2>1. UNCHANGED wallet
    <3> USE DEF council
    <3>1. CASE HiveNext
      BY <3>1 DEF HiveNext, HiveTransfer, HiveInclude, HiveExpire, HiveReorg, HiveFinal
    <3>2. CASE ChainNext
      BY <1>3, <3>2 DEF ChainNext, Request, Fork, ApplyReport, ApplyCreate, LoseCreate,
                        Expire, ApplyApproval, ApplySend
    <3>3. ASSUME NEW s \in Registered, SonNext(s) PROVE UNCHANGED wallet
      BY <3>3 DEF SonNext, See, ProposeDeposit, ProposeWithdrawal, ProposeWallet, Send,
                  ProposeSign, ProposeSettle, Approve, ApproveAhead, RestartSon, Push
    <3> QED
      BY <3>1, <3>2, <3>3 DEF BNext
  <2> QED
    BY <1>1, <2>1 DEF FirstWallet
<1> QED
  BY <1>2, <1>3

\* What every task pushes.
LEMMA Pushed ==
    ASSUME BTypeOK, FirstWallet, NEW s \in Son,
           \/ \E d \in Deposit : ProposeDeposit(s, d)
           \/ \E w \in Withdrawal : ProposeWithdrawal(s, w)
           \/ ProposeWallet(s)
           \/ \E x \in Payment : ProposeSign(s, x) \/ ProposeSettle(s, x)
    PROVE  \E o \in Op :
             /\ Push(o)
             /\ UNCHANGED tries \/ (CanSonParticipate(s, o) /\ LogSonProposalRetry(s, o))
             /\ o.kind = "deposit" => Confirmed(report[o.item])
             /\ o.kind = "settle" => SettledOnHive(o.item)
<1>1. Active \in Range(Councils)
  BY ActiveCouncil
<1>2. CASE \E d \in Deposit : ProposeDeposit(s, d)
  <2> PICK d \in Deposit : ProposeDeposit(s, d)
    BY <1>2
  <2> DEFINE o == Ops("deposit", d, {})
  <2>1. o \in Op /\ o.kind = "deposit" /\ o.item = d
    BY OpsOp DEF Ops
  <2>2. Push(o) /\ CanSonParticipate(s, o) /\ LogSonProposalRetry(s, o) /\ Confirmed(report[d])
    BY DEF ProposeDeposit
  <2> QED
    BY <2>1, <2>2
<1>3. CASE \E w \in Withdrawal : ProposeWithdrawal(s, w)
  <2> PICK w \in Withdrawal : ProposeWithdrawal(s, w)
    BY <1>3
  <2> DEFINE o == Ops("withdraw", w, Active)
  <2>1. o \in Op /\ o.kind = "withdraw"
    BY <1>1, OpsOp DEF Ops
  <2>2. Push(o) /\ CanSonParticipate(s, o) /\ LogSonProposalRetry(s, o)
    BY DEF ProposeWithdrawal
  <2> QED
    BY <2>1, <2>2
<1>4. CASE ProposeWallet(s)
  <2> DEFINE o == Ops("wallet", wallet, Active)
  <2>1. wallet \in Wallet
    <3>1. wallet \notin address
      BY <1>4 DEF ProposeWallet
    <3>2. wallet # 1
      BY <3>1 DEF FirstWallet
    <3>3. wallet \in 1..Len(Councils) /\ Len(Councils) \in Nat
      BY ActiveCouncil DEF BTypeOK
    <3> QED
      BY <3>2, <3>3 DEF Wallet
  <2>2. o \in Op /\ o.kind = "wallet"
    BY <1>1, <2>1, OpsOp DEF Ops
  <2>3. Push(o) /\ UNCHANGED tries
    BY <1>4 DEF ProposeWallet
  <2> QED
    BY <2>2, <2>3
<1>5. CASE \E x \in Payment : ProposeSign(s, x)
  <2> PICK x \in Payment : ProposeSign(s, x)
    BY <1>5
  <2> DEFINE o == Ops("sign", x, {s})
  <2>1. o \in Op /\ o.kind = "sign"
    BY OpsOp DEF Ops
  <2>2. Push(o) /\ UNCHANGED tries
    BY DEF ProposeSign
  <2> QED
    BY <2>1, <2>2
<1>6. CASE \E x \in Payment : ProposeSettle(s, x)
  <2> PICK x \in Payment : ProposeSettle(s, x)
    BY <1>6
  <2> DEFINE o == Ops("settle", x, {})
  <2>1. o \in Op /\ o.kind = "settle" /\ o.item = x
    BY OpsOp DEF Ops
  <2>2. Push(o) /\ CanSonParticipate(s, o) /\ LogSonProposalRetry(s, o) /\ SettledOnHive(x)
    BY DEF ProposeSettle
  <2> QED
    BY <2>1, <2>2
<1> QED
  BY <1>2, <1>3, <1>4, <1>5, <1>6

\* Every step keeps the types of the proposals and what waits to become one.
LEMMA ProposalTypes ==
    ASSUME BTypeOK, FirstWallet, BNext
    PROVE  ProposalTypeOK'
<1> USE DEF ProposalTypeOK, mempool
<1>0. ProposalTypeOK /\ Registered \subseteq Son
  BY TypesTogether, RegisteredSons DEF BTypeOK
<1>1. CASE HiveNext
  BY <1>0, <1>1 DEF HiveNext, HiveTransfer, HiveInclude, HiveExpire, HiveReorg, HiveFinal
<1>2. CASE (\E w \in Withdrawal : Request(w) \/ Fork(w)) \/ (\E r \in reports : ApplyReport(r))
           \/ (\E x \in sends : ApplySend(x)) \/ Maintenance
  BY <1>0, <1>2 DEF Request, Fork, ApplyReport, ApplySend, Maintenance
<1>3. ASSUME NEW o \in pending, ApplyCreate(o) PROVE ProposalTypeOK'
  BY <1>0, <1>3, CreateTypes DEF ApplyCreate
<1>4. ASSUME NEW o \in pending, LoseCreate(o) PROVE ProposalTypeOK'
  BY <1>0, <1>4 DEF LoseCreate
<1>5. ASSUME NEW i \in DOMAIN open, Expire(i) PROVE ProposalTypeOK'
  BY <1>0, <1>5, OpenProposals, WithoutElements DEF Expire
<1>6. ASSUME NEW i \in DOMAIN open, NEW a \in open[i].coming, ApplyApproval(i, a)
      PROVE  ProposalTypeOK'
  BY <1>0, <1>6, OpenProposals, AddApprovalTypes DEF ApplyApproval
<1>7. ASSUME NEW s \in Son,
             \/ \E x \in Deposit \cup Withdrawal : See(s, x)
             \/ \E x \in Payment : Send(s, x)
             \/ RestartSon(s)
      PROVE  ProposalTypeOK'
  BY <1>0, <1>7 DEF See, Send, RestartSon
<1>8. ASSUME NEW s \in Son, NEW i \in DOMAIN open, Approve(s, i) PROVE ProposalTypeOK'
  <2> DEFINE a == <<s, open[i].op>>
             p == [open[i] EXCEPT !.coming = @ \cup {a}]
  <2>1. a \in Son \X Op
    BY OpenProposals
  <2>2. p \in Proposal
    BY <2>1, OpenProposals DEF Proposal
  <2>3. CASE open' = [open EXCEPT ![i].coming = @ \cup {a}] /\ UNCHANGED astray
    <3>1. open' = [open EXCEPT ![i] = p]
      BY <2>3
    <3>2. open' \in Seq(Proposal)
      BY <2>2, <3>1, OpenProposals
    <3> QED
      BY <1>0, <1>8, <2>3, <3>2 DEF Approve
  <2>4. CASE AddApproval(i, a)
    BY <1>0, <1>8, <2>1, <2>4, AddApprovalTypes DEF Approve
  <2> QED
    BY <1>8, <2>3, <2>4 DEF Approve
<1>9. ASSUME NEW s \in Son, NEW o \in pending, ApproveAhead(s, o) PROVE ProposalTypeOK'
  BY <1>0, <1>9 DEF ApproveAhead
<1>10. ASSUME NEW s \in Son,
              \/ \E d \in Deposit : ProposeDeposit(s, d)
              \/ \E w \in Withdrawal : ProposeWithdrawal(s, w)
              \/ ProposeWallet(s)
              \/ \E x \in Payment : ProposeSign(s, x) \/ ProposeSettle(s, x)
       PROVE  ProposalTypeOK'
  BY <1>10, Pushed, PushTypes
<1> QED
  BY <1>0, <1>1, <1>2, <1>3, <1>4, <1>5, <1>6, <1>7, <1>8, <1>9, <1>10
     DEF BNext, ChainNext, SonNext

\* Every step keeps the types of the reports on their way and of the attempts.
LEMMA RestTypes ==
    ASSUME BTypeOK, FirstWallet, BNext
    PROVE  RestTypeOK'
<1> USE DEF RestTypeOK, mempool
<1>0. RestTypeOK /\ Registered \subseteq Son
  BY TypesTogether, RegisteredSons DEF BTypeOK
<1>1. CASE HiveNext
  BY <1>0, <1>1 DEF HiveNext, HiveTransfer, HiveInclude, HiveExpire, HiveReorg, HiveFinal
<1>2. CASE ChainNext
  BY <1>0, <1>2 DEF ChainNext, Request, Fork, ApplyReport, ApplyCreate, LoseCreate,
                    Expire, ApplyApproval, ApplySend, Maintenance
<1>3. ASSUME NEW s \in Son, NEW x \in Deposit \cup Withdrawal, See(s, x) PROVE RestTypeOK'
  <2> DEFINE b == IF x \in Deposit THEN 0 ELSE where[x]
  <2>1. b \in 0..2
    <3>1. where \in [Withdrawal -> 0..2]
      BY DEF BTypeOK
    <3> QED
      BY <3>1
  <2>2. reports' \in {reports, reports \cup {[son |-> s, item |-> x, block |-> b]}}
        /\ UNCHANGED <<sends, tries>>
    BY <1>3 DEF See
  <2> HIDE DEF b
  <2> QED
    BY <1>0, <2>1, <2>2
<1>4. ASSUME NEW s \in Son, NEW x \in Payment, Send(s, x) PROVE RestTypeOK'
  BY <1>0, <1>4 DEF Send
<1>5. ASSUME NEW s \in Son, RestartSon(s) PROVE RestTypeOK'
  <2>1. 0 \in 0..Retries
    BY BridgeAssumption
  <2> QED
    BY <1>0, <1>5, <2>1 DEF RestartSon
<1>6. ASSUME NEW s \in Son, NEW i \in DOMAIN open, Approve(s, i) PROVE RestTypeOK'
  <2>1. open[i].op \in Op
    BY OpenProposals
  <2>2. CanSonParticipate(s, open[i].op) /\ LogSonProposalRetry(s, open[i].op)
    BY <1>6 DEF Approve, CanApprove
  <2> QED
    BY <1>0, <1>6, <2>1, <2>2, RetryBounded DEF Approve
<1>7. ASSUME NEW s \in Son, NEW o \in pending, ApproveAhead(s, o) PROVE RestTypeOK'
  <2>1. o \in Op
    BY DEF BTypeOK
  <2> QED
    BY <1>0, <1>7, <2>1, RetryBounded DEF ApproveAhead
<1>8. ASSUME NEW s \in Son,
             \/ \E d \in Deposit : ProposeDeposit(s, d)
             \/ \E w \in Withdrawal : ProposeWithdrawal(s, w)
             \/ ProposeWallet(s)
             \/ \E x \in Payment : ProposeSign(s, x) \/ ProposeSettle(s, x)
      PROVE  RestTypeOK'
  <2>1. PICK o \in Op : Push(o) /\ (UNCHANGED tries \/ (CanSonParticipate(s, o) /\ LogSonProposalRetry(s, o)))
    BY <1>8, Pushed
  <2>2. UNCHANGED <<reports, sends>>
    BY <2>1 DEF Push
  <2> QED
    BY <1>0, <2>1, <2>2, RetryBounded
<1> QED
  BY <1>0, <1>1, <1>2, <1>3, <1>4, <1>5, <1>6, <1>7, <1>8 DEF BNext, SonNext

\* Every step keeps all types.
LEMMA TypeStep ==
    ASSUME BTypeOK, FirstWallet, [BNext]_bvars
    PROVE  BTypeOK' /\ FirstWallet'
<1>1. CASE BNext
  BY <1>1, LedgerTypes, HiveTypes, CouncilTypes, ProposalTypes, RestTypes,
     TypesTogetherNext, FirstWalletStep
<1>2. CASE UNCHANGED bvars
  BY <1>2 DEF bvars, council, hive, ledger, mempool, BTypeOK, FirstWallet
<1> QED
  BY <1>1, <1>2

\* The types hold at the start.
LEMMA TypeInit ==
    ASSUME BInit
    PROVE  BTypeOK /\ FirstWallet
<1>1. plan.from \in 1..Len(Councils)
  BY BridgeAssumption DEF BInit
<1>2. Councils[era] \subseteq Son /\ 0 \in 0..Retries
  BY <1>1, BridgeAssumption DEF BInit
<1>3. LedgerTypeOK
  BY <1>1 DEF BInit, LedgerTypeOK
<1>4. HiveTypeOK
  BY <1>2 DEF BInit, HiveTypeOK
<1>5. CouncilTypeOK
  BY <1>1 DEF BInit, CouncilTypeOK
<1>6. ProposalTypeOK
  <2>1. open = << >> /\ pending = {} /\ ahead = {} /\ astray = {}
    BY DEF BInit
  <2>2. << >> \in Seq(Proposal)
    OBVIOUS
  <2> QED
    BY <2>1, <2>2 DEF ProposalTypeOK
<1>7. RestTypeOK
  BY <1>2 DEF BInit, RestTypeOK
<1> QED
  BY <1>3, <1>4, <1>5, <1>6, <1>7, TypesTogether DEF BInit, FirstWallet

\* No SON makes more attempts than son_retry_count allows, and every object of
\* the bridge has its type, whatever is delayed, reordered or lost.
THEOREM BridgeTypes == BSpec => []BTypeOK
<1>1. BInit => BTypeOK /\ FirstWallet
  BY TypeInit
<1>2. BTypeOK /\ FirstWallet /\ [BNext]_bvars => (BTypeOK /\ FirstWallet)'
  BY TypeStep
<1> QED
  BY <1>1, <1>2, PTL DEF BSpec
=============================================================================
