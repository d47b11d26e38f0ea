--------------------------- MODULE SonBridgeProofs ---------------------------
(***************************************************************************)
(* Proofs about the bridge for every set of SONs, every sequence of        *)
(* councils, every number of retries and every bound: that a deposit is    *)
(* credited once and only if Hive keeps it, and that a withdrawal's asset  *)
(* is reserved once and only after Hive paid.                              *)
(***************************************************************************)
EXTENDS SonBridgeTypes

-----------------------------------------------------------------------------
(* The ledger's invariant.                                                 *)

\* Only a complete transaction is offered to Hive.
LEMMA OfferedSteps ==
    ASSUME BTypeOK, BNext
    PROVE  \/ UNCHANGED offered
           \/ /\ \E x \in Payment : MaySend(sto[x]) /\ offered' = offered \cup {x}
              /\ UNCHANGED ledger
<1> USE DEF hive
<1>1. CASE HiveNext
  BY <1>1 DEF HiveNext, HiveTransfer, HiveInclude, HiveExpire, HiveReorg, HiveFinal
<1>2. CASE ChainNext
  BY <1>2 DEF ChainNext, Request, Fork, ApplyReport, ApplyCreate, LoseCreate,
              Expire, ApplyApproval, ApplySend, Maintenance
<1>3. ASSUME NEW s \in Registered, SonNext(s), ~ \E x \in Payment : Send(s, x)
      PROVE  UNCHANGED offered
  BY <1>3 DEF SonNext, See, ProposeDeposit, ProposeWithdrawal, ProposeWallet,
              ProposeSign, ProposeSettle, Approve, ApproveAhead, RestartSon, Push
<1>4. ASSUME NEW s \in Registered, NEW x \in Payment, Send(s, x)
      PROVE  \/ UNCHANGED offered
             \/ MaySend(sto[x]) /\ offered' = offered \cup {x} /\ UNCHANGED ledger
  BY <1>4 DEF Send
<1> QED
  BY <1>1, <1>2, <1>3, <1>4 DEF BNext

\* Every step keeps the ledger's invariant: each transfer is accounted for once.
LEMMA LedgerStep ==
    ASSUME BTypeOK, LedgerInv, BNext
    PROVE  LedgerInv'
<1>1. CASE UNCHANGED ledger /\ UNCHANGED offered
  BY <1>1 DEF ledger, LedgerInv, IssuedOnce, OneWay
<1>2. ASSUME NEW x \in Payment, MaySend(sto[x]), offered' = offered \cup {x}, UNCHANGED ledger
      PROVE  LedgerInv'
  <2>1. sto[x] # None /\ sto[x].status # "valid"
    BY <1>2 DEF MaySend
  <2>2. UNCHANGED <<report, sto, issued, reserved>>
    BY <1>2 DEF ledger
  <2>3. IssuedOnce'
    BY <2>2 DEF LedgerInv, IssuedOnce
  <2>4. OneWay'
    BY <1>2, <2>1, <2>2 DEF LedgerInv, OneWay
  <2> QED
    BY <1>2, <2>1, <2>2, <2>3, <2>4 DEF LedgerInv
<1>3. ASSUME UNCHANGED offered PROVE LedgerInv'
  <2>1. CASE Reporting
    BY <2>1, ReportKeeps DEF LedgerKept
  <2>2. CASE Sending
    BY <2>2, SendKeeps DEF LedgerKept
  <2>3. ASSUME NEW i \in DOMAIN open, Executed(i) PROVE LedgerKept
    BY <1>3, <2>3, OpenProposals, ExecuteKeeps DEF Executed
  <2> QED
    BY <1>1, <1>3, <2>1, <2>2, <2>3, LedgerSteps DEF LedgerKept
<1> QED
  BY <1>2, <1>3, OfferedSteps

-----------------------------------------------------------------------------
(* Proposals and their approvals.                                          *)

\* What the SON that proposes o has looked at.
Founded(o) ==
    /\ o.kind = "deposit" => Confirmed(report[o.item])
    /\ o.kind = "settle" => SettledOnHive(o.item)

\* What a SON that approves o has looked at, as far as it stays true.
Looked(o) ==
    /\ o.kind = "deposit" => InHistory(o.item) /\ o.item \notin Later
    /\ o.kind = "wallet" => o.sons = Councils[o.item]

\* A proposal was founded when it was made, and so were its approvals, or one
\* of them went astray.
Good(p) ==
    /\ Founded(p.op)
    /\ \A a \in p.coming : Looked(a[2])
    /\ p.approvals # {} => Looked(p.op) \/ p.op \in astray

ProposalInv ==
    /\ \A o \in Op : o \in pending => Founded(o)
    /\ \A a \in Son \X Op : a \in ahead => Looked(a[2])
    /\ \A p \in Proposal : (\E i \in DOMAIN open : open[i] = p) => Good(p)

\* What was looked at stays true.
Lasting ==
    /\ \A o \in Op : (Founded(o) => Founded(o)') /\ (Looked(o) => Looked(o)')
    /\ astray \subseteq astray'

\* Hive does not give up what is irreversible.
LEMMA HiveKeeps ==
    ASSUME BTypeOK, BNext
    PROVE  /\ \A d \in Deposit : deposited[d] = "final" => deposited'[d] = "final"
           /\ \A x \in Payment : paid[x] = "final" => paid'[x] = "final"
<1> USE DEF hive, BTypeOK
<1>1. ASSUME NEW d \in Deposit, HiveTransfer(d)
      PROVE  /\ \A e \in Deposit : deposited[e] = "final" => deposited'[e] = "final"
             /\ UNCHANGED paid
  BY <1>1 DEF HiveTransfer
<1>2. ASSUME NEW x \in Payment, HiveInclude(x) \/ HiveExpire(x)
      PROVE  /\ \A y \in Payment : paid[y] = "final" => paid'[y] = "final"
             /\ UNCHANGED deposited
  BY <1>2 DEF HiveInclude, HiveExpire
<1>3. CASE HiveReorg
  BY <1>3 DEF HiveReorg, Payment
<1>4. CASE HiveFinal
  BY <1>4 DEF HiveFinal
<1>5. CASE ChainNext
  BY <1>5 DEF ChainNext, Request, Fork, ApplyReport, ApplyCreate, LoseCreate,
              Expire, ApplyApproval, ApplySend, Maintenance
<1>6. ASSUME NEW s \in Registered, SonNext(s) PROVE UNCHANGED <<deposited, paid>>
  BY <1>6 DEF SonNext, See, ProposeDeposit, ProposeWithdrawal, ProposeWallet, Send,
              ProposeSign, ProposeSettle, Approve, ApproveAhead, RestartSon, Push
<1> QED
  BY <1>1, <1>2, <1>3, <1>4, <1>5, <1>6 DEF BNext, HiveNext

\* No step takes back a confirmation, a transaction or what Hive keeps.
LEMMA LastingStep ==
    ASSUME BTypeOK, BNext
    PROVE  Lasting
<1>1. Grows
  BY LedgerTypes
<1>2. ASSUME NEW o \in Op, Founded(o) PROVE Founded(o)'
  <2>1. o.kind = "deposit" => Confirmed(report'[o.item])
    BY <1>1, <1>2, OpFields DEF Founded, Grows
  <2>2. o.kind = "settle" => SettledOnHive(o.item)'
    BY <1>2, OpFields, HiveKeeps DEF Founded, SettledOnHive
  <2> QED
    BY <2>1, <2>2 DEF Founded
<1>3. ASSUME NEW o \in Op, Looked(o) PROVE Looked(o)'
  BY <1>3, OpFields, HiveKeeps DEF Looked, InHistory
<1>4. astray \subseteq astray'
  <2>1. CASE HiveNext
    BY <2>1 DEF HiveNext, HiveTransfer, HiveInclude, HiveExpire, HiveReorg, HiveFinal
  <2>2. CASE ChainNext
    BY <2>2 DEF ChainNext, Request, Fork, ApplyReport, ApplyCreate, LoseCreate,
                Expire, ApplyApproval, AddApproval, ApplySend, Maintenance
  <2>3. ASSUME NEW s \in Registered, SonNext(s) PROVE astray \subseteq astray'
    BY <2>3 DEF SonNext, See, ProposeDeposit, ProposeWithdrawal, ProposeWallet, Send,
                ProposeSign, ProposeSettle, Approve, AddApproval, ApproveAhead, RestartSon, Push
  <2> QED
    BY <2>1, <2>2, <2>3 DEF BNext
<1> QED
  BY <1>2, <1>3, <1>4 DEF Lasting
\* What held of what there was still holds of it.
LEMMA StillGood ==
    ASSUME ProposalInv, Lasting
    PROVE  /\ \A o \in Op : o \in pending => Founded(o)'
           /\ \A a \in Son \X Op : a \in ahead => Looked(a[2])'
           /\ \A p \in Proposal : (\E i \in DOMAIN open : open[i] = p) => Good(p)'
<1>1. ASSUME NEW o \in Op, o \in pending PROVE Founded(o)'
  BY <1>1 DEF ProposalInv, Lasting
<1>2. ASSUME NEW a \in Son \X Op, a \in ahead PROVE Looked(a[2])'
  BY <1>2 DEF ProposalInv, Lasting
<1>3. ASSUME NEW p \in Proposal, \E i \in DOMAIN open : open[i] = p PROVE Good(p)'
  <2>1. Good(p)
    BY <1>3 DEF ProposalInv
  <2>2. p.op \in Op /\ \A a \in p.coming : a[2] \in Op
    BY DEF Proposal
  <2> QED
    BY <2>1, <2>2 DEF Good, Lasting
<1> QED
  BY <1>1, <1>2, <1>3

\* A new proposal is good: it has no approval, and those that were pushed ahead
\* were given to something.
LEMMA CreateGood ==
    ASSUME BTypeOK, ProposalInv, Lasting, NEW o \in Op, Founded(o), Create(o)
    PROVE  \A p \in Proposal : (\E i \in DOMAIN open' : open'[i] = p) => Good(p)'
<1> DEFINE n == [op |-> o, approvals |-> {}, coming |-> ahead]
<1> SUFFICES ASSUME NEW p \in Proposal, NEW i \in DOMAIN open', open'[i] = p
             PROVE  Good(p)'
  OBVIOUS
<1>1. (\E j \in DOMAIN open : open[j] = p) \/ p = n
  BY OpenProposals DEF Create
<1>2. ASSUME p = n PROVE Good(p)'
  <2>1. Founded(o)'
    BY DEF Lasting
  <2>2. \A a \in ahead : Looked(a[2])'
    BY StillGood DEF BTypeOK
  <2>3. p.op = o /\ p.approvals = {} /\ p.coming = ahead
    BY <1>2
  <2> QED
    BY <2>1, <2>2, <2>3 DEF Good
<1> QED
  BY <1>1, <1>2, StillGood

\* An approval that is applied or given leaves good proposals.
LEMMA AddApprovalGood ==
    ASSUME BTypeOK, ProposalInv, Lasting, NEW i \in DOMAIN open, NEW a \in Son \X Op,
           AddApproval(i, a), Looked(a[2])
    PROVE  \A p \in Proposal : (\E j \in DOMAIN open' : open'[j] = p) => Good(p)'
<1> SUFFICES ASSUME NEW p \in Proposal, NEW j \in DOMAIN open', open'[j] = p
             PROVE  Good(p)'
  OBVIOUS
<1>1. CASE open' = Without(open, i)
  BY <1>1, OpenProposals, WithoutElements, StillGood
<1>2. CASE open' = [open EXCEPT ![i].approvals = open[i].approvals \cup {a[1]},
                               ![i].coming = @ \ {a}]
  <2>1. CASE j # i
    BY <1>2, <2>1, OpenProposals, StillGood
  <2>2. CASE j = i
    <3>1. PICK q \in Proposal : q = open[i]
      BY OpenProposals
    <3>2. p.op = q.op /\ p.coming = q.coming \ {a}
      BY <1>2, <2>2, <3>1, OpenProposals DEF Proposal
    <3>3. Good(q)'
      BY <3>1, StillGood
    <3>4. Looked(q.op)' \/ q.op \in astray'
      <4>1. CASE a[2] = q.op
        <5>1. Looked(a[2])'
          BY DEF Lasting
        <5> QED
          BY <4>1, <5>1
      <4>2. CASE a[2] # q.op
        BY <3>1, <4>2 DEF AddApproval
      <4> QED
        BY <4>1, <4>2
    <3> QED
      BY <3>2, <3>3, <3>4 DEF Good
  <2> QED
    BY <2>1, <2>2
<1> QED
  BY <1>1, <1>2 DEF AddApproval

\* What a SON pushes is founded.
LEMMA PushGood ==
    ASSUME BTypeOK, ProposalInv, Lasting, NEW o \in Op, Founded(o), Push(o)
    PROVE  ProposalInv'
<1>1. \A p \in Proposal : (\E i \in DOMAIN open' : open'[i] = p) => Good(p)'
  BY CreateGood, StillGood DEF Push
<1>2. \A q \in Op : q \in pending' => Founded(q)'
  BY StillGood DEF Push, Lasting
<1>3. \A a \in Son \X Op : a \in ahead' => Looked(a[2])'
  BY StillGood DEF Push
<1> QED
  BY <1>1, <1>2, <1>3 DEF ProposalInv
\* What a SON finds out before it approves.
LEMMA ApproverLooks ==
    ASSUME NEW o \in Op, ShouldApprove(o)
    PROVE  Looked(o)
BY OpFields DEF ShouldApprove, Looked

\* Every step keeps what proposals and approvals say about the world.
LEMMA ProposalStep ==
    ASSUME BTypeOK, FirstWallet, ProposalInv, BNext
    PROVE  ProposalInv'
<1> USE DEF mempool
<1>0. Lasting /\ Registered \subseteq Son
  BY LastingStep, RegisteredSons DEF BTypeOK
<1>1. ASSUME UNCHANGED open, pending' \subseteq pending, ahead' \subseteq ahead
      PROVE  ProposalInv'
  BY <1>0, <1>1, StillGood DEF ProposalInv
<1>2. CASE HiveNext
  <2>1. UNCHANGED <<open, pending, ahead>>
    BY <1>2 DEF HiveNext, HiveTransfer, HiveInclude, HiveExpire, HiveReorg, HiveFinal
  <2> QED
    BY <1>1, <2>1
<1>3. CASE (\E w \in Withdrawal : Request(w) \/ Fork(w)) \/ (\E r \in reports : ApplyReport(r))
           \/ (\E x \in sends : ApplySend(x)) \/ Maintenance
  <2>1. UNCHANGED <<open, pending, ahead>>
    BY <1>3 DEF Request, Fork, ApplyReport, ApplySend, Maintenance
  <2> QED
    BY <1>1, <2>1
<1>4. ASSUME NEW o \in pending, ApplyCreate(o) PROVE ProposalInv'
  <2>1. o \in Op /\ Founded(o)
    BY DEF BTypeOK, ProposalInv
  <2>2. \A p \in Proposal : (\E i \in DOMAIN open' : open'[i] = p) => Good(p)'
    BY <1>0, <1>4, <2>1, CreateGood DEF ApplyCreate
  <2>3. pending' \subseteq pending /\ ahead' \subseteq ahead
    BY <1>4 DEF ApplyCreate
  <2> QED
    BY <1>0, <2>2, <2>3, StillGood DEF ProposalInv
<1>5. ASSUME NEW o \in pending, LoseCreate(o) PROVE ProposalInv'
  BY <1>1, <1>5 DEF LoseCreate
<1>6. ASSUME NEW i \in DOMAIN open, Expire(i) PROVE ProposalInv'
  <2>1. \A p \in Proposal : (\E j \in DOMAIN open' : open'[j] = p) => Good(p)'
    BY <1>0, <1>6, OpenProposals, WithoutElements, StillGood DEF Expire
  <2> QED
    BY <1>0, <1>6, <2>1, StillGood DEF Expire, ProposalInv
<1>7. ASSUME NEW i \in DOMAIN open, NEW a \in open[i].coming, ApplyApproval(i, a)
      PROVE  ProposalInv'
  <2>1. a \in Son \X Op /\ open[i] \in Proposal
    BY OpenProposals
  <2>2. Looked(a[2])
    BY <2>1 DEF ProposalInv, Good
  <2>3. \A p \in Proposal : (\E j \in DOMAIN open' : open'[j] = p) => Good(p)'
    BY <1>0, <1>7, <2>1, <2>2, AddApprovalGood DEF ApplyApproval
  <2> QED
    BY <1>0, <1>7, <2>3, StillGood DEF ApplyApproval, ProposalInv
<1>8. ASSUME NEW s \in Son,
             \/ \E x \in Deposit \cup Withdrawal : See(s, x)
             \/ \E x \in Payment : Send(s, x)
             \/ RestartSon(s)
      PROVE  ProposalInv'
  <2>1. UNCHANGED <<open, pending, ahead>>
    BY <1>8 DEF See, Send, RestartSon
  <2> QED
    BY <1>1, <2>1
<1>9. ASSUME NEW s \in Son, NEW i \in DOMAIN open, Approve(s, i) PROVE ProposalInv'
  <2> DEFINE a == <<s, open[i].op>>
  <2>1. a \in Son \X Op /\ open[i] \in Proposal /\ open[i].op \in Op
    BY OpenProposals
  <2>2. Looked(a[2])
    BY <1>9, <2>1, ApproverLooks DEF Approve, CanApprove
  <2>3. CASE AddApproval(i, a)
    <3>1. \A p \in Proposal : (\E j \in DOMAIN open' : open'[j] = p) => Good(p)'
      BY <1>0, <2>1, <2>2, <2>3, AddApprovalGood
    <3> QED
      BY <1>0, <1>9, <3>1, StillGood DEF Approve, ProposalInv
  <2>4. CASE open' = [open EXCEPT ![i].coming = @ \cup {a}]
    <3>1. ASSUME NEW p \in Proposal, NEW j \in DOMAIN open', open'[j] = p PROVE Good(p)'
      <4>1. CASE j # i
        BY <1>0, <2>4, <3>1, <4>1, OpenProposals, StillGood
      <4>2. CASE j = i
        <5>1. PICK q \in Proposal : q = open[i]
          BY <2>1
        <5>2. p.op = q.op /\ p.approvals = q.approvals /\ p.coming = q.coming \cup {a}
          BY <2>4, <3>1, <4>2, <5>1, OpenProposals DEF Proposal
        <5>3. Good(q)'
          BY <1>0, <5>1, StillGood
        <5>4. PICK c \in Son \X Op : c = a
          BY <2>1
        <5>5. Looked(c[2])'
          BY <1>0, <2>2, <5>4 DEF Lasting
        <5> QED
          BY <5>2, <5>3, <5>4, <5>5 DEF Good
      <4> QED
        BY <4>1, <4>2
    <3> QED
      BY <1>0, <1>9, <3>1, StillGood DEF Approve, ProposalInv
  <2> QED
    BY <1>9, <2>3, <2>4 DEF Approve
<1>10. ASSUME NEW s \in Son, NEW o \in pending, ApproveAhead(s, o) PROVE ProposalInv'
  <2>1. o \in Op
    BY DEF BTypeOK
  <2>2. Looked(o)'
    BY <1>0, <1>10, <2>1, ApproverLooks DEF ApproveAhead, Lasting
  <2>3. \A a \in Son \X Op : a \in ahead' => Looked(a[2])'
    BY <1>0, <1>10, <2>2, StillGood DEF ApproveAhead
  <2> QED
    BY <1>0, <1>10, <2>3, StillGood DEF ApproveAhead, ProposalInv
<1>11. ASSUME NEW s \in Son,
              \/ \E d \in Deposit : ProposeDeposit(s, d)
              \/ \E w \in Withdrawal : ProposeWithdrawal(s, w)
              \/ ProposeWallet(s)
              \/ \E x \in Payment : ProposeSign(s, x) \/ ProposeSettle(s, x)
       PROVE  ProposalInv'
  <2>1. PICK o \in Op : Push(o) /\ Founded(o)
    BY <1>11, Pushed DEF Founded
  <2> QED
    BY <1>0, <2>1, PushGood
<1> QED
  BY <1>0, <1>2, <1>3, <1>4, <1>5, <1>6, <1>7, <1>8, <1>9, <1>10, <1>11
     DEF BNext, ChainNext, SonNext
-----------------------------------------------------------------------------
(* What the executed operations rest on.                                   *)

FinalInv ==
    /\ CreditedFinal
    /\ WalletSigners
    /\ \A w \in Withdrawal :
        sto[w] # None /\ sto[w].status = "settled" => paid[w] = "final"

\* A proposal is authorized by one approval at least.
LEMMA AuthorizedApproved ==
    ASSUME BTypeOK, NEW A, Authorized(A)
    PROVE  A # {}
<1>1. IsFiniteSet(Active)
  BY ActiveCouncil, SonAssumption, FS_Subset
<1>2. Cardinality(Active) \in Nat
  BY <1>1, FS_CardinalityType
<1>3. Threshold(Active) >= 1
  BY <1>2 DEF Threshold
<1>4. A = {} => Cardinality(A \cap Active) = 0
  <2>1. A = {} => A \cap Active = {}
    OBVIOUS
  <2> QED
    BY <2>1, FS_EmptySet
<1> QED
  BY <1>2, <1>3, <1>4 DEF Authorized, Threshold

\* An executed operation was founded, and looked at unless an approval went
\* astray.
LEMMA ExecutedGood ==
    ASSUME BTypeOK, ProposalInv, BNext, NEW i \in DOMAIN open, Executed(i)
    PROVE  \E o \in Op : /\ Execute(o) /\ o = open[i].op
                         /\ Founded(o)'
                         /\ Looked(o)' \/ o \in astray'
<1>0. PICK p \in Proposal : p = open[i]
  BY OpenProposals
<1>1. PICK o \in Op : o = p.op
  BY <1>0, OpenProposals
<1>2. Lasting /\ Good(p)
  BY <1>0, LastingStep DEF ProposalInv
<1>3. ASSUME Authorized(p.approvals) PROVE Looked(o)' \/ o \in astray'
  BY <1>1, <1>2, <1>3, AuthorizedApproved DEF Good, Lasting
<1>4. ASSUME NEW a, Approval(i, a) PROVE Looked(o)' \/ o \in astray'
  <2>1. PICK c \in Son \X Op : c = a
    BY <1>4 DEF Approval
  <2>2. c[2] \in Op
    OBVIOUS
  <2>3. Looked(c[2])
    BY <1>0, <1>2, <1>4, <2>1, <2>2, ApproverLooks DEF Approval, Good
  <2>4. Looked(c[2])'
    BY <1>2, <2>2, <2>3 DEF Lasting
  <2>5. CASE c[2] = o
    BY <2>4, <2>5
  <2>6. CASE c[2] # o
    BY <1>0, <1>1, <1>4, <2>1, <2>6 DEF Approval
  <2> QED
    BY <2>5, <2>6
<1>5. Looked(o)' \/ o \in astray'
  BY <1>0, <1>3, <1>4 DEF Executed
<1>6. Founded(o)'
  BY <1>1, <1>2 DEF Good, Lasting
<1> QED
  BY <1>0, <1>1, <1>5, <1>6 DEF Executed

\* What was credited, signed for and settled stays so, if a step adds nothing.
LEMMA FinalKeeps ==
    ASSUME BTypeOK, FinalInv, BNext,
           \A d \in Deposit : issued'[d] > 0 => issued[d] > 0,
           \A x \in Payment :
               sto'[x] # None =>
                   /\ sto[x] # None /\ sto'[x].signers = sto[x].signers
                   /\ sto'[x].status = "settled" => sto[x].status = "settled"
    PROVE  FinalInv'
<1>1. Grows /\ astray \subseteq astray'
  BY LedgerTypes, LastingStep DEF Lasting
<1>2. CreditedFinal'
  BY <1>1, HiveKeeps DEF FinalInv, CreditedFinal, Grows
<1>3. WalletSigners'
  BY <1>1 DEF FinalInv, WalletSigners, Payment
<1>4. \A w \in Withdrawal :
        sto'[w] # None /\ sto'[w].status = "settled" => paid'[w] = "final"
  BY HiveKeeps DEF FinalInv, Payment
<1> QED
  BY <1>2, <1>3, <1>4 DEF FinalInv

\* Executing an authorized proposal credits, signs for or settles only what it may.
LEMMA ExecutedFinal ==
    ASSUME BTypeOK, FinalInv, BNext, NEW o \in Op, Execute(o),
           Founded(o)', Looked(o)' \/ o \in astray'
    PROVE  FinalInv'
<1>0. /\ sto \in [Payment -> Transaction \cup {None}] /\ issued \in [Deposit -> Nat]
      /\ Grows /\ astray \subseteq astray'
      /\ Range(Councils) \subseteq SUBSET Son
  <2>1. sto \in [Payment -> Transaction \cup {None}] /\ issued \in [Deposit -> Nat]
    BY DEF BTypeOK
  <2>2. Grows /\ Range(Councils) \subseteq SUBSET Son
    BY LedgerTypes, ActiveCouncil
  <2>3. astray \subseteq astray'
    BY LastingStep DEF Lasting
  <2> QED
    BY <2>1, <2>2, <2>3
<1>1. CASE o.kind = "deposit" /\ ProcessDeposit(o.item)
  <2>1. o.item \in Deposit /\ UNCHANGED sto
        /\ \A d \in Deposit \ {o.item} : issued'[d] = issued[d]
    BY <1>0, <1>1, OpFields DEF ProcessDeposit
  <2>2. \/ deposited'[o.item] = "final" /\ Confirmed(report'[o.item]) /\ o.item \notin Later
        \/ o \in astray'
    BY <1>1, <2>1 DEF Founded, Looked, InHistory
  <2>3. CreditedFinal'
    BY <1>0, <1>1, <2>1, <2>2, HiveKeeps DEF FinalInv, CreditedFinal, Grows
  <2>4. WalletSigners'
    BY <1>0, <2>1 DEF FinalInv, WalletSigners
  <2> QED
    BY <2>1, <2>3, <2>4, HiveKeeps DEF FinalInv, Payment
<1>2. ASSUME NEW x \in Payment, NEW S \in SUBSET Son, sto[x] = None,
             sto' = [sto EXCEPT ![x] = NewTransaction(S)], UNCHANGED issued,
             x \in Wallet => S = Councils[x] \/ \E q \in astray' : q.kind = "wallet" /\ q.item = x
      PROVE  FinalInv'
  <2> DEFINE t == NewTransaction(S)
  <2>1. t.status = "valid" /\ t.signers = S
    BY TransactionObject
  <2>2. sto'[x] = t /\ \A y \in Payment \ {x} : sto'[y] = sto[y]
    BY <1>0, <1>2
  <2> HIDE DEF t
  <2>3. CreditedFinal'
    BY <1>0, <1>2, HiveKeeps DEF FinalInv, CreditedFinal, Grows
  <2>4. WalletSigners'
    <3>1. ASSUME NEW n \in Wallet, sto'[n] # None
          PROVE  \/ sto'[n].signers = Councils[n]
                 \/ \E q \in astray' : q.kind = "wallet" /\ q.item = n
      <4>1. CASE n = x
        BY <1>2, <2>1, <2>2, <4>1
      <4>2. CASE n # x
        <5>1. sto'[n] = sto[n]
          BY <2>2, <4>2 DEF Payment
        <5>2. \/ sto[n].signers = Councils[n]
              \/ \E q \in astray : q.kind = "wallet" /\ q.item = n
          BY <3>1, <5>1 DEF FinalInv, WalletSigners
        <5> QED
          BY <1>0, <5>1, <5>2
      <4> QED
        BY <4>1, <4>2
    <3> QED
      BY <3>1 DEF WalletSigners
  <2>5. \A w \in Withdrawal :
          sto'[w] # None /\ sto'[w].status = "settled" => paid'[w] = "final"
    BY <2>1, <2>2, HiveKeeps DEF FinalInv, Payment
  <2> QED
    BY <2>3, <2>4, <2>5 DEF FinalInv
<1>3. CASE o.kind = "withdraw" /\ ProcessWithdraw(o.item, o.sons)
  <2>1. o.item \in Payment /\ o.item \notin Wallet /\ o.sons \in SUBSET Son
    BY <1>0, <1>3, OpFields, BridgeAssumption DEF Payment, Wallet
  <2> QED
    BY <1>2, <1>3, <2>1 DEF ProcessWithdraw
<1>4. CASE o.kind = "wallet" /\ UpdateWallet(o.item, o.sons)
  <2>1. o.item \in Payment /\ o.sons \in SUBSET Son
    BY <1>0, <1>4, OpFields DEF Payment
  <2>2. o.sons = Councils[o.item] \/ \E q \in astray' : q.kind = "wallet" /\ q.item = o.item
    BY <1>4 DEF Looked
  <2> QED
    BY <1>2, <1>4, <2>1, <2>2 DEF UpdateWallet
<1>5. CASE o.kind = "sign" /\ \E s \in o.sons : Sign(o.item, s)
  <2>1. PICK s \in Son : Sign(o.item, s)
    BY <1>5, OpFields
  <2>2. o.item \in Payment
    BY <1>5, OpFields
  <2>3. sto[o.item] \in Transaction /\ sto[o.item].status = "valid"
    BY <1>0, <2>1, <2>2 DEF Sign, MaySign
  <2>4. /\ sto'[o.item] = Signed(sto[o.item], s)
        /\ \A x \in Payment \ {o.item} : sto'[x] = sto[x]
    BY <1>0, <2>1, <2>2 DEF Sign
  <2>5. /\ Signed(sto[o.item], s).status # "settled"
        /\ Signed(sto[o.item], s).signers = sto[o.item].signers
        /\ sto[o.item] # None
    BY <2>3, TransactionObject
  <2>6. UNCHANGED issued
    BY <2>1 DEF Sign
  <2> QED
    BY <2>4, <2>5, <2>6, FinalKeeps
<1>6. CASE o.kind = "settle" /\ Settle(o.item)
  <2>1. o.item \in Payment
    BY <1>6, OpFields
  <2>2. sto[o.item] \in Transaction /\ sto[o.item] # None
    BY <1>0, <1>6, <2>1 DEF Settle, MaySettle
  <2>3. /\ sto'[o.item] = Settled(sto[o.item])
        /\ \A x \in Payment \ {o.item} : sto'[x] = sto[x]
    BY <1>0, <1>6, <2>1 DEF Settle
  <2>4. Settled(sto[o.item]).signers = sto[o.item].signers
    BY <2>2, TransactionObject
  <2>5. UNCHANGED issued
    BY <1>6 DEF Settle
  <2>6. o.item \in Withdrawal => paid'[o.item] = "final"
    BY <1>6, BridgeAssumption DEF Founded, SettledOnHive, Wallet
  <2>7. CreditedFinal'
    BY <1>0, <2>5, HiveKeeps DEF FinalInv, CreditedFinal, Grows
  <2>8. WalletSigners'
    BY <1>0, <2>2, <2>3, <2>4 DEF FinalInv, WalletSigners, Payment
  <2>9. \A w \in Withdrawal :
          sto'[w] # None /\ sto'[w].status = "settled" => paid'[w] = "final"
    BY <2>3, <2>6, HiveKeeps DEF FinalInv, Payment
  <2> QED
    BY <2>7, <2>8, <2>9 DEF FinalInv
<1> QED
  BY <1>1, <1>3, <1>4, <1>5, <1>6 DEF Execute

\* Every step keeps FinalInv.
LEMMA FinalStep ==
    ASSUME BTypeOK, ProposalInv, FinalInv, BNext
    PROVE  FinalInv'
<1>1. CASE UNCHANGED ledger \/ Reporting
  <2>1. UNCHANGED <<sto, issued>>
    BY <1>1 DEF ledger, Reporting, AddReport
  <2> QED
    BY <2>1, FinalKeeps
<1>2. CASE Sending
  <2>1. PICK x \in Payment : MaySend(sto[x]) /\ sto' = [sto EXCEPT ![x] = Sent(@)]
    BY <1>2 DEF Sending
  <2>2. sto \in [Payment -> Transaction \cup {None}] /\ UNCHANGED issued
    BY <1>2 DEF Sending, BTypeOK
  <2>3. sto[x] \in Transaction /\ sto[x] # None
    BY <2>1, <2>2 DEF MaySend
  <2>4. Sent(sto[x]).status # "settled" /\ Sent(sto[x]).signers = sto[x].signers
    BY <2>3, TransactionObject
  <2>5. sto'[x] = Sent(sto[x]) /\ \A y \in Payment \ {x} : sto'[y] = sto[y]
    BY <2>1, <2>2
  <2> QED
    BY <2>2, <2>3, <2>4, <2>5, FinalKeeps
<1>3. ASSUME NEW i \in DOMAIN open, Executed(i) PROVE FinalInv'
  BY <1>3, ExecutedGood, ExecutedFinal
<1> QED
  BY <1>1, <1>2, <1>3, LedgerSteps

-----------------------------------------------------------------------------
(* The theorems.                                                           *)

BridgeInv ==
    BTypeOK /\ FirstWallet /\ LedgerInv /\ ProposalInv /\ FinalInv

\* The inductive invariant holds at the start.
LEMMA BridgeInit ==
    ASSUME BInit
    PROVE  BridgeInv
<1>1. BTypeOK /\ FirstWallet
  BY TypeInit
<1>2. LedgerInv
  BY DEF BInit, LedgerInv, IssuedOnce, OneWay, Payment
<1>3. ProposalInv
  <2>1. pending = {} /\ ahead = {} /\ DOMAIN open = {}
    BY DEF BInit
  <2> QED
    BY <2>1, Zenon DEF ProposalInv
<1>4. FinalInv
  BY DEF BInit, FinalInv, CreditedFinal, WalletSigners, Payment
<1> QED
  BY <1>1, <1>2, <1>3, <1>4 DEF BridgeInv

\* Every step keeps the inductive invariant.
LEMMA BridgeStep ==
    ASSUME BridgeInv, [BNext]_bvars
    PROVE  BridgeInv'
<1>1. CASE BNext
  BY <1>1, TypeStep, LedgerStep, ProposalStep, FinalStep DEF BridgeInv
<1>2. CASE UNCHANGED bvars
  <2>1. UNCHANGED <<council, ledger, hive, mempool, open, astray>>
    BY <1>2 DEF bvars
  <2>2. BTypeOK' /\ FirstWallet'
    BY TypeStep DEF BridgeInv
  <2>3. LedgerInv'
    BY <2>1 DEF BridgeInv, ledger, hive, LedgerInv, IssuedOnce, OneWay
  <2>4. ProposalInv'
    BY <2>1 DEF BridgeInv, ledger, hive, mempool, ProposalInv, Good, Founded, Looked,
                InHistory, SettledOnHive
  <2>5. FinalInv'
    BY <2>1 DEF BridgeInv, ledger, hive, FinalInv, CreditedFinal, WalletSigners
  <2> QED
    BY <2>2, <2>3, <2>4, <2>5 DEF BridgeInv
<1> QED
  BY <1>1, <1>2

\* The inductive invariant holds in every state: the ledger accounts for every
\* transfer once, and proposals and approvals are backed by what SONs have seen.
THEOREM BridgeInvariant == BSpec => []BridgeInv
<1>1. BInit => BridgeInv
  BY BridgeInit
<1>2. BridgeInv /\ [BNext]_bvars => BridgeInv'
  BY BridgeStep
<1> QED
  BY <1>1, <1>2, PTL DEF BSpec

\* However many proposals for a deposit are open and approved at a time, and
\* whatever is delayed, lost or tried again, the process operation and the
\* issue that goes with it succeed once.
THEOREM DepositIssuedOnce == BSpec => []IssuedOnce
<1>1. BridgeInv => IssuedOnce
  BY DEF BridgeInv, LedgerInv
<1> QED
  BY <1>1, BridgeInvariant, PTL

\* What is credited is confirmed, and irreversible on Hive, which each SON that
\* approves looks up for itself, unless an approval reached another proposal
\* than the one that was looked at.
THEOREM DepositFinal == BSpec => []CreditedFinal
<1>1. BridgeInv => CreditedFinal
  BY DEF BridgeInv, FinalInv
<1> QED
  BY <1>1, BridgeInvariant, PTL

\* A withdrawal's object, its transaction, Hive and the asset agree on how far
\* it has got.
THEOREM WithdrawalOneWay == BSpec => []OneWay
<1>1. BridgeInv => OneWay
  BY DEF BridgeInv, LedgerInv
<1> QED
  BY <1>1, BridgeInvariant, PTL

\* The asset of a withdrawal is destroyed once, after Hive's payment cannot be
\* undone, although a SON approves a settlement without looking.
THEOREM WithdrawalReserved == BSpec => []ReservedAfterPaid
<1>1. ASSUME BridgeInv PROVE ReservedAfterPaid
  <2>1. LedgerInv /\ FinalInv
    BY <1>1 DEF BridgeInv
  <2> SUFFICES ASSUME NEW w \in Withdrawal
               PROVE  /\ reserved[w] <= 1
                      /\ reserved[w] = 1 => paid[w] = "final" /\ sto[w].status = "settled"
    BY DEF ReservedAfterPaid
  <2>2. reserved[w] <= 1
    BY <2>1 DEF LedgerInv
  <2>3. reserved[w] = 1 => sto[w] # None /\ sto[w].status = "settled"
    BY <2>1 DEF LedgerInv, OneWay
  <2>4. sto[w] # None /\ sto[w].status = "settled" => paid[w] = "final"
    BY <2>1 DEF FinalInv
  <2> QED
    BY <2>2, <2>3, <2>4
<1> QED
  BY <1>1, BridgeInvariant, PTL

\* The Hive account is handed over by the SONs of the wallet it goes to.
THEOREM HandoverSigners == BSpec => []WalletSigners
<1>1. BridgeInv => WalletSigners
  BY DEF BridgeInv, FinalInv
<1> QED
  BY <1>1, BridgeInvariant, PTL
=============================================================================
