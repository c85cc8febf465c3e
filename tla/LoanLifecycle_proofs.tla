----------------------- MODULE LoanLifecycle_proofs -----------------------
(***************************************************************************)
(* Proofs about LoanLifecycle, for any number of requests in flight, any   *)
(* number of proposals and any bounds.                                     *)
(***************************************************************************)
EXTENDS LoanLifecycle, FiniteSetTheorems, TLAPS

\* Every session step, by name: the case split of all the proofs below.
LEMMA NextCases ==
    ASSUME Next
    PROVE  \/ \E s \in Sessions :
                 \/ LoadForApprove(s) \/ LoadForEdit(s) \/ LoadForDelete(s)
                 \/ LoadForNightly(s)
                 \/ \E p \in Proposals : LoadForReview(s, p) \/ LoadForReopen(s, p)
           \/ \E s \in Sessions : Approve(s)
           \/ \E s \in Sessions : UpdateLoan(s)
           \/ \E s \in Sessions : SoftDeleteLoan(s)
           \/ \E s \in Sessions : ReviewApprove(s)
           \/ \E s \in Sessions : ReviewReject(s)
           \/ \E s \in Sessions : Reopen(s)
           \/ \E s \in Sessions : Refuse(s) \/ NightlyNothingCapped(s)
           \/ \E s \in Sessions : NightlyCap(s)
           \/ Propose
           \/ ClassifyLate
           \/ ClassifyCapped
           \/ ReclassifyDown
           \/ ReclassifyCapped
           \/ \E amount \in 1..MaxPaid, allocated \in BOOLEAN :
                 ConfirmTransaction(amount, allocated)
           \/ \E p \in 0..MaxPaid : EditLedger(p)
           \/ \E type \in ClosureType, settlement \in 0..Outstanding :
                 CloseLoan(type, settlement)
  BY Zenon DEF Next, SessionStep

\* What a step that only reads or refuses leaves alone.
LEMMA ReadsChangeNothing ==
    ASSUME NEW s \in Sessions,
           \/ LoadForApprove(s) \/ LoadForEdit(s) \/ LoadForDelete(s)
           \/ LoadForNightly(s) \/ Refuse(s) \/ NightlyNothingCapped(s)
           \/ \E p \in Proposals : LoadForReview(s, p) \/ LoadForReopen(s, p)
    PROVE  UNCHANGED <<loanVars, moneyVars, proposalVars, closure>>
  BY Zenon DEF LoadForApprove, LoadForEdit, LoadForDelete, LoadForNightly, Refuse,
     NightlyNothingCapped, LoadForReview, LoadForReopen, Begin
-----------------------------------------------------------------------------
(* Type correctness.                                                       *)

\* A review or reopen in flight is about a proposal row.
LEMMA RequestTarget ==
    ASSUME NEW r \in Requests, r.op \in {"review", "reopen"}
    PROVE  r.pid \in Proposals
  BY DEF Requests

\* What the nightly job remembers of a loan is a loan status.
LEMMA RequestSeen ==
    ASSUME NEW r \in Requests, r.op = "nightly"
    PROVE  r.seen \in LoanStatus
  BY DEF Requests

\* The two writers of proposals shared by several actions keep the types.
LEMMA InsertProposalType ==
    ASSUME TypeOK, NEW isAuto \in BOOLEAN, NEW seen, InsertProposal(isAuto, seen)
    PROVE  /\ status' \in LoanStatus
           /\ proposal' \in [Proposals -> {"none", "PROPOSED", "APPROVED", "REJECTED"}]
           /\ auto' \subseteq Proposals
  BY DEF TypeOK, InsertProposal, LoanStatus

\* The automatic proposal writes what the inserted row allows, or nothing.
LEMMA AutoProposeType ==
    ASSUME TypeOK, NEW seen, AutoProposeBadDebt(seen)
    PROVE  /\ status' \in LoanStatus
           /\ proposal' \in [Proposals -> {"none", "PROPOSED", "APPROVED", "REJECTED"}]
           /\ auto' \subseteq Proposals
  BY InsertProposalType DEF TypeOK, AutoProposeBadDebt

\* The variables have their types in every reachable state, whatever the
\* bounds: in particular no reclassification supersedes an event that is not
\* there (late and capped stay natural numbers).
THEOREM TypeCorrect == Spec => []TypeOK
<1>1. Init => TypeOK
  <2> SUFFICES ASSUME Init PROVE TypeOK
    OBVIOUS
  <2>1. NoClosure \in Closures /\ Idle \in Requests
    BY DEF Closures, Requests, Idle
  <2>2. base \in Nat
    BY ConstantsAssumption DEF Init
  <2>3. req \in [Sessions -> Requests]
    BY <2>1 DEF Init
  <2> QED BY <2>1, <2>2, <2>3 DEF Init, TypeOK, LoanStatus
<1>2. TypeOK /\ [Next]_vars => TypeOK'
  <2> SUFFICES ASSUME TypeOK, [Next]_vars PROVE TypeOK'
    OBVIOUS
  <2>1. ASSUME NEW s \in Sessions, NEW r \in Requests, Begin(s, r) PROVE TypeOK'
    BY <2>1 DEF TypeOK, Begin, loanVars, moneyVars, proposalVars
  <2>2. ASSUME NEW s \in Sessions, Done(s) PROVE req' \in [Sessions -> Requests]
    <3>1. Idle \in Requests
      BY DEF Idle, Requests
    <3> QED BY <2>2, <3>1 DEF TypeOK, Done
  <2>3. ASSUME NEW s \in Sessions,
               \/ LoadForApprove(s) \/ LoadForEdit(s) \/ LoadForDelete(s)
               \/ LoadForNightly(s)
               \/ \E p \in Proposals : LoadForReview(s, p) \/ LoadForReopen(s, p)
        PROVE  TypeOK'
    <3>1. [op |-> "approve"] \in Requests /\ [op |-> "delete"] \in Requests
      BY DEF Requests
    <3>2. /\ [op |-> "nightly", seen |-> status] \in Requests
          /\ [op |-> "edit", seen |-> status] \in Requests
      BY DEF Requests, TypeOK
    <3>3. \A p \in Proposals : /\ [op |-> "review", pid |-> p] \in Requests
                               /\ [op |-> "reopen", pid |-> p] \in Requests
      BY DEF Requests
    <3>4. CASE LoadForApprove(s)
      BY <2>1, <3>1, <3>4 DEF LoadForApprove
    <3>5. CASE LoadForEdit(s)
      BY <2>1, <3>2, <3>5 DEF LoadForEdit
    <3>6. CASE LoadForDelete(s)
      BY <2>1, <3>1, <3>6 DEF LoadForDelete
    <3>7. CASE LoadForNightly(s)
      BY <2>1, <3>2, <3>7 DEF LoadForNightly
    <3>8. ASSUME NEW p \in Proposals, LoadForReview(s, p) \/ LoadForReopen(s, p)
          PROVE  TypeOK'
      BY <2>1, <3>3, <3>8 DEF LoadForReview, LoadForReopen
    <3> QED BY <2>3, <3>4, <3>5, <3>6, <3>7, <3>8
  <2>4. ASSUME NEW s \in Sessions, Approve(s) PROVE TypeOK'
    <3>1. CASE scheduled
      BY <2>2, <2>4, <3>1 DEF TypeOK, Approve, loanVars, moneyVars, proposalVars
    <3>2. CASE ~scheduled
      <4>1. PICK dp \in 0..1 : paid' = paid + dp /\ downPayments' = downPayments + dp
        BY <2>4, <3>2 DEF Approve
      <4>2. paid' \in Nat /\ downPayments' \in Nat
        BY <4>1 DEF TypeOK
      <4> QED BY <2>2, <2>4, <3>2, <4>2 DEF TypeOK, Approve, LoanStatus, proposalVars
    <3> QED BY <3>1, <3>2
  <2>5. ASSUME NEW s \in Sessions, UpdateLoan(s) PROVE TypeOK'
    <3>1. status' \in LoanStatus /\ base' \in Nat
      BY <2>5, PatchAssumption, ConstantsAssumption DEF TypeOK, UpdateLoan
    <3> QED BY <2>2, <2>5, <3>1 DEF TypeOK, UpdateLoan, moneyVars, proposalVars
  <2>6. ASSUME NEW s \in Sessions, SoftDeleteLoan(s) PROVE TypeOK'
    BY <2>2, <2>6 DEF TypeOK, SoftDeleteLoan, moneyVars, proposalVars
  <2>7. ASSUME NEW s \in Sessions, ReviewApprove(s) \/ ReviewReject(s) \/ Reopen(s)
        PROVE  TypeOK'
    <3>1. status' \in LoanStatus
      BY <2>7 DEF TypeOK, ReviewApprove, ReviewReject, Reopen, LoanStatus, loanVars
    <3>2. proposal' \in [Proposals -> {"none", "PROPOSED", "APPROVED", "REJECTED"}]
      BY <2>7 DEF TypeOK, ReviewApprove, ReviewReject, Reopen
    <3> QED BY <2>2, <2>7, <3>1, <3>2 DEF TypeOK, ReviewApprove, ReviewReject, Reopen,
            loanVars, moneyVars
  <2>8. ASSUME NEW s \in Sessions, Refuse(s) \/ NightlyNothingCapped(s) PROVE TypeOK'
    BY <2>2, <2>8 DEF TypeOK, Refuse, NightlyNothingCapped, loanVars, moneyVars, proposalVars
  <2>9. ASSUME NEW s \in Sessions, NightlyCap(s) PROVE TypeOK'
    BY <2>2, <2>9, AutoProposeType DEF TypeOK, NightlyCap
  <2>10. CASE Propose
    BY <2>10, InsertProposalType DEF TypeOK, Propose, moneyVars
  <2>11. CASE ClassifyLate
    BY <2>11 DEF TypeOK, ClassifyLate, loanVars, proposalVars
  <2>12. CASE ClassifyCapped
    BY <2>12, AutoProposeType DEF TypeOK, ClassifyCapped
  <2>13. CASE ReclassifyDown
    <3>1. late' \in Nat /\ capped' \in Nat
      BY <2>13 DEF TypeOK, ReclassifyDown
    <3>2. status' \in LoanStatus
      BY <2>13 DEF TypeOK, ReclassifyDown, WithdrawAutoProposalIfNoCapRemains, LoanStatus
    <3>3. proposal' \in [Proposals -> {"none", "PROPOSED", "APPROVED", "REJECTED"}]
      BY <2>13 DEF TypeOK, ReclassifyDown, WithdrawAutoProposalIfNoCapRemains
    <3> QED BY <2>13, <3>1, <3>2, <3>3 DEF TypeOK, ReclassifyDown
  <2>14. CASE ReclassifyCapped
    <3>1. late' \in Nat /\ capped' \in Nat
      BY <2>14 DEF TypeOK, ReclassifyCapped
    <3> QED BY <2>14, <3>1, AutoProposeType DEF TypeOK, ReclassifyCapped
  <2>15. ASSUME NEW amount \in 1..MaxPaid, NEW allocated \in BOOLEAN,
                ConfirmTransaction(amount, allocated)
         PROVE  TypeOK'
    <3>1. paid' \in Nat
      BY <2>15 DEF TypeOK, ConfirmTransaction
    <3>2. status' \in LoanStatus
      BY <2>15 DEF TypeOK, ConfirmTransaction, LoanStatus
    <3>3. proposal' \in [Proposals -> {"none", "PROPOSED", "APPROVED", "REJECTED"}]
      BY <2>15 DEF TypeOK, ConfirmTransaction, WithdrawAutoProposalOnFullPayment
    <3> QED BY <2>15, <3>1, <3>2, <3>3 DEF TypeOK, ConfirmTransaction
  <2>16. ASSUME NEW p \in 0..MaxPaid, EditLedger(p) PROVE TypeOK'
    BY <2>16, ConstantsAssumption DEF TypeOK, EditLedger, loanVars, proposalVars
  <2>17. ASSUME NEW type \in ClosureType, NEW settlement \in 0..Outstanding,
                CloseLoan(type, settlement)
         PROVE  TypeOK'
    <3>1. Outstanding \in Nat
      BY DEF TypeOK, Outstanding, OutstandingAfter, Payable
    <3>2. closure' \in Closures /\ status' \in LoanStatus
      BY <2>17, <3>1 DEF CloseLoan, WriteClosure, Closures, LoanStatus
    <3> QED BY <2>17, <3>2 DEF TypeOK, CloseLoan, moneyVars, proposalVars
  <2>18. CASE UNCHANGED vars
    BY <2>18 DEF TypeOK, vars, loanVars, moneyVars, proposalVars
  <2> QED BY <2>3, <2>4, <2>5, <2>6, <2>7, <2>8, <2>9, <2>10, <2>11, <2>12, <2>13,
          <2>14, <2>15, <2>16, <2>17, <2>18, NextCases
<1> QED BY <1>1, <1>2, PTL DEF Spec

-----------------------------------------------------------------------------
(* One open proposal per loan.                                             *)

\* OneOpenProposal without cardinalities: two open proposals are the same one.
OpenProposalUnique == \A p, q \in OpenProposals : p = q

\* How a step may move the set of open proposals: it opens none, or it opens
\* p at a moment when no other proposal is open.
OpensNone == OpenProposals' \subseteq OpenProposals
OpensOnly(p) == OpenProposals \subseteq {p} /\ OpenProposals' \subseteq {p}

\* A new proposal is the only open one.
LEMMA InsertOpensOne ==
    ASSUME TypeOK, OpenProposals = {}, NEW isAuto \in BOOLEAN, NEW seen,
           InsertProposal(isAuto, seen)
    PROVE  \E p \in Proposals : OpensOnly(p)
  BY DEF TypeOK, InsertProposal, OpensOnly, OpenProposals

\* An automatic proposal opens nothing while another one is open.
LEMMA AutoProposeOpens ==
    ASSUME TypeOK, NEW seen, AutoProposeBadDebt(seen)
    PROVE  OpensNone \/ \E p \in Proposals : OpensOnly(p)
<1>1. CASE OpenProposals # {}
  BY <1>1 DEF AutoProposeBadDebt, OpensNone, OpenProposals
<1>2. CASE OpenProposals = {}
  BY <1>2, InsertOpensOne DEF AutoProposeBadDebt
<1> QED BY <1>1, <1>2

\* Every step either opens no proposal or leaves exactly the one it opens.
LEMMA StepOpens ==
    ASSUME TypeOK, [Next]_vars
    PROVE  OpensNone \/ \E p \in Proposals : OpensOnly(p)
<1>1. CASE UNCHANGED proposal
  BY <1>1 DEF OpensNone, OpenProposals
<1>2. ASSUME NEW s \in Sessions, ReviewApprove(s) \/ ReviewReject(s) PROVE OpensNone
  <2>1. PICK d \in {"APPROVED", "REJECTED"} :
            proposal' = [proposal EXCEPT ![req[s].pid] = d]
    BY <1>2 DEF ReviewApprove, ReviewReject
  <2> QED BY <2>1 DEF TypeOK, OpensNone, OpenProposals
<1>3. ASSUME NEW s \in Sessions, Reopen(s) PROVE \E p \in Proposals : OpensOnly(p)
  <2>1. req[s].pid \in Proposals
    BY <1>3, RequestTarget DEF TypeOK, Reopen
  <2>2. OpensOnly(req[s].pid)
    BY <1>3, <2>1 DEF TypeOK, Reopen, OpensOnly, OpenProposals
  <2> QED BY <2>1, <2>2
<1>4. CASE Propose
  BY <1>4, InsertOpensOne DEF Propose
<1>5. ASSUME NEW seen, AutoProposeBadDebt(seen)
      PROVE  OpensNone \/ \E p \in Proposals : OpensOnly(p)
  BY <1>5, AutoProposeOpens
<1>6. CASE WithdrawAutoProposalIfNoCapRemains
  BY <1>6 DEF TypeOK, WithdrawAutoProposalIfNoCapRemains, OpensNone, OpenProposals
<1>7. CASE WithdrawAutoProposalOnFullPayment
  BY <1>7 DEF TypeOK, WithdrawAutoProposalOnFullPayment, OpensNone, OpenProposals
<1>8. ASSUME Next, ~ UNCHANGED proposal
      PROVE  \/ \E s \in Sessions : ReviewApprove(s) \/ ReviewReject(s)
             \/ \E s \in Sessions : Reopen(s)
             \/ Propose
             \/ \E seen : AutoProposeBadDebt(seen)
             \/ WithdrawAutoProposalIfNoCapRemains
             \/ WithdrawAutoProposalOnFullPayment
  <2> USE <1>8
  <2>1. ASSUME NEW s \in Sessions,
               \/ LoadForApprove(s) \/ LoadForEdit(s) \/ LoadForDelete(s)
               \/ LoadForNightly(s) \/ Refuse(s) \/ NightlyNothingCapped(s)
               \/ \E p \in Proposals : LoadForReview(s, p) \/ LoadForReopen(s, p)
        PROVE  FALSE
    BY <2>1, ReadsChangeNothing DEF proposalVars
  <2>2. ASSUME NEW s \in Sessions, Approve(s) \/ UpdateLoan(s) \/ SoftDeleteLoan(s)
        PROVE  FALSE
    BY <2>2 DEF Approve, UpdateLoan, SoftDeleteLoan, proposalVars
  <2>3. ASSUME NEW s \in Sessions, NightlyCap(s) PROVE \E seen : AutoProposeBadDebt(seen)
    BY <2>3 DEF NightlyCap
  <2>4. ASSUME ClassifyCapped \/ ReclassifyCapped PROVE \E seen : AutoProposeBadDebt(seen)
    BY <2>4 DEF ClassifyCapped, ReclassifyCapped
  <2>5. CASE ReclassifyDown
    BY <2>5 DEF ReclassifyDown
  <2>6. ASSUME NEW amount \in 1..MaxPaid, NEW allocated \in BOOLEAN,
               ConfirmTransaction(amount, allocated)
        PROVE  WithdrawAutoProposalOnFullPayment
    BY <2>6 DEF ConfirmTransaction
  <2>7. ASSUME NEW p \in 0..MaxPaid, EditLedger(p) \/ ClassifyLate PROVE FALSE
    BY <2>7 DEF EditLedger, ClassifyLate, proposalVars
  <2>8. ASSUME NEW type \in ClosureType, NEW settlement \in 0..Outstanding,
               CloseLoan(type, settlement)
        PROVE  FALSE
    BY <2>8 DEF CloseLoan, proposalVars
  <2>9. CASE ClassifyLate
    BY <2>9 DEF ClassifyLate, proposalVars
  <2> QED BY <2>1, <2>2, <2>3, <2>4, <2>5, <2>6, <2>7, <2>8, <2>9, NextCases
<1> QED BY <1>1, <1>2, <1>3, <1>4, <1>5, <1>6, <1>7, <1>8 DEF vars, proposalVars

\* At any moment at most one proposal of the loan is open, with any number of
\* overlapping proposers, reviewers and nightly runs: the checks of
\* propose_bad_debt and reopen_proposal under the loan lock are enough, and
\* the partial unique index never has to refuse a write.
THEOREM OneOpenProposalAlways == Spec => []OneOpenProposal
<1>1. Init => OpenProposalUnique
  BY DEF Init, OpenProposalUnique, OpenProposals
<1>2. TypeOK /\ OpenProposalUnique /\ [Next]_vars => OpenProposalUnique'
  <2> SUFFICES ASSUME TypeOK, OpenProposalUnique, [Next]_vars
               PROVE  OpenProposalUnique'
    OBVIOUS
  <2>1. CASE OpensNone
    BY <2>1 DEF OpensNone, OpenProposalUnique
  <2>2. CASE \E p \in Proposals : OpensOnly(p)
    BY <2>2 DEF OpensOnly, OpenProposalUnique
  <2> QED BY <2>1, <2>2, StepOpens
<1>3. OpenProposalUnique => OneOpenProposal
  <2> SUFFICES ASSUME OpenProposalUnique PROVE OneOpenProposal
    OBVIOUS
  <2>1. CASE OpenProposals = {}
    BY <2>1, FS_EmptySet DEF OneOpenProposal
  <2>2. CASE OpenProposals # {}
    <3>1. PICK p \in OpenProposals : TRUE
      BY <2>2
    <3>2. OpenProposals = {p}
      BY <3>1 DEF OpenProposalUnique
    <3>3. Cardinality({p}) = 1
      BY FS_Singleton, Zenon
    <3> QED BY <3>2, <3>3 DEF OneOpenProposal
  <2> QED BY <2>1, <2>2
<1> QED BY <1>1, <1>2, <1>3, TypeCorrect, PTL DEF Spec

-----------------------------------------------------------------------------
(* A proposed loan has a proposal to act on.                               *)

LiveProposals == {p \in Proposals : proposal[p] \in {"PROPOSED", "APPROVED"}}

\* A new proposal is one an admin can act on.
LEMMA InsertKeepsLive ==
    ASSUME TypeOK, NEW isAuto \in BOOLEAN, NEW seen, InsertProposal(isAuto, seen)
    PROVE  LiveProposals' # {}
  BY DEF TypeOK, InsertProposal, LiveProposals

\* An automatic proposal is made only where none is left to act on.
LEMMA AutoProposeKeepsLive ==
    ASSUME TypeOK, NEW seen, AutoProposeBadDebt(seen)
    PROVE  LiveProposals' # {}
<1>1. CASE OpenProposals # {}
  BY <1>1 DEF AutoProposeBadDebt, OpenProposals, LiveProposals
<1>2. CASE OpenProposals = {}
  BY <1>2, InsertKeepsLive DEF AutoProposeBadDebt
<1> QED BY <1>1, <1>2

\* As long as no client writes loans.status through PATCH, a loan shown as
\* BAD_DEBT_PROPOSED has a proposal that is open or approved: an admin can
\* review it, reopen it or write the loan off.
THEOREM ProposedLoanAlwaysHasLiveProposal ==
    ASSUME PatchedStatuses = {}
    PROVE  Spec => []ProposedLoanHasLiveProposal
<1> DEFINE Inv == status = "BAD_DEBT_PROPOSED" => LiveProposals # {}
<1>1. Init => Inv
  BY DEF Init
<1>2. TypeOK /\ Inv /\ [Next]_vars => Inv'
  <2> SUFFICES ASSUME TypeOK, Inv, [Next]_vars PROVE Inv'
    OBVIOUS
  <2>1. CASE UNCHANGED <<status, proposal>>
    BY <2>1 DEF LiveProposals
  <2>2. CASE status' # "BAD_DEBT_PROPOSED"
    BY <2>2
  <2>3. ASSUME NEW s \in Sessions, NightlyCap(s) PROVE Inv'
    BY <2>3, AutoProposeKeepsLive DEF NightlyCap
  <2>4. CASE ClassifyCapped \/ ReclassifyCapped
    BY <2>4, AutoProposeKeepsLive DEF ClassifyCapped, ReclassifyCapped
  <2>5. CASE Propose
    BY <2>5, InsertKeepsLive DEF Propose
  <2>6. ASSUME NEW s \in Sessions, ReviewApprove(s) \/ Reopen(s) PROVE Inv'
    <3>1. req[s].pid \in Proposals
      BY <2>6, RequestTarget DEF TypeOK, ReviewApprove, Reopen
    <3>2. proposal'[req[s].pid] \in {"PROPOSED", "APPROVED"}
      BY <2>6, <3>1 DEF TypeOK, ReviewApprove, Reopen
    <3> QED BY <3>1, <3>2 DEF LiveProposals
  <2>7. CASE ReclassifyDown
    <3>1. UNCHANGED <<status, proposal>> \/ status' # "BAD_DEBT_PROPOSED"
      BY <2>7 DEF ReclassifyDown, WithdrawAutoProposalIfNoCapRemains
    <3> QED BY <2>1, <3>1
  <2>8. ASSUME NEW amount \in 1..MaxPaid, NEW allocated \in BOOLEAN,
               ConfirmTransaction(amount, allocated)
        PROVE  Inv'
    <3>1. UNCHANGED <<status, proposal>> \/ status' = "AWAITING_CLOSURE"
      BY <2>8 DEF ConfirmTransaction
    <3> QED BY <2>1, <3>1
  <2>9. ASSUME NEW s \in Sessions, Approve(s) PROVE Inv'
    <3>1. UNCHANGED <<status, proposal>> \/ status' = "ACTIVE"
      BY <2>9 DEF Approve, loanVars, proposalVars
    <3> QED BY <2>1, <3>1
  <2>10. ASSUME NEW s \in Sessions, ReviewReject(s) PROVE Inv'
    BY <2>10 DEF ReviewReject
  <2>11. ASSUME NEW s \in Sessions,
                \/ LoadForApprove(s) \/ LoadForEdit(s) \/ LoadForDelete(s)
                \/ LoadForNightly(s) \/ Refuse(s) \/ NightlyNothingCapped(s)
                \/ \E p \in Proposals : LoadForReview(s, p) \/ LoadForReopen(s, p)
         PROVE  Inv'
    BY <2>1, <2>11, ReadsChangeNothing DEF loanVars, proposalVars
  <2>12. ASSUME NEW s \in Sessions, UpdateLoan(s) \/ SoftDeleteLoan(s)
         PROVE  Inv'
    BY <2>1, <2>12 DEF UpdateLoan, SoftDeleteLoan, proposalVars
  <2>13. ASSUME NEW p \in 0..MaxPaid, EditLedger(p) PROVE Inv'
    BY <2>1, <2>13 DEF EditLedger, loanVars, proposalVars
  <2>14. CASE ClassifyLate
    BY <2>1, <2>14 DEF ClassifyLate, loanVars, proposalVars
  <2>15. ASSUME NEW type \in ClosureType, NEW settlement \in 0..Outstanding,
                CloseLoan(type, settlement)
         PROVE  Inv'
    BY <2>15 DEF CloseLoan, WriteClosure
  <2>16. CASE UNCHANGED vars
    BY <2>1, <2>16 DEF vars, loanVars, proposalVars
  <2> QED BY <2>3, <2>4, <2>5, <2>6, <2>7, <2>8, <2>9, <2>10, <2>11, <2>12, <2>13,
          <2>14, <2>15, <2>16, NextCases
<1>3. Inv => ProposedLoanHasLiveProposal
  BY DEF LiveProposals, ProposedLoanHasLiveProposal
<1> QED BY <1>1, <1>2, <1>3, TypeCorrect, PTL DEF Spec
-----------------------------------------------------------------------------
(* Closures and the down payment.                                          *)

\* A step that ends in a terminal status either started there with the same
\* status and closure, or is the closure that explains it.
LEMMA TerminalStep ==
    ASSUME PatchedStatuses = {}, TypeOK, [Next]_vars
    PROVE  \/ status' \notin Terminal
           \/ UNCHANGED <<status, closure>>
           \/ status' = "CLOSED" /\ closure'.type \in ClosureType \ {"WRITE_OFF"}
           \/ status' = "BAD_DEBT" /\ closure'.type = "WRITE_OFF"
<1> DEFINE Goal == \/ status' \notin Terminal
                   \/ UNCHANGED <<status, closure>>
                   \/ status' = "CLOSED" /\ closure'.type \in ClosureType \ {"WRITE_OFF"}
                   \/ status' = "BAD_DEBT" /\ closure'.type = "WRITE_OFF"
<1>1. ASSUME NEW s \in Sessions,
             \/ LoadForApprove(s) \/ LoadForEdit(s) \/ LoadForDelete(s)
             \/ LoadForNightly(s) \/ Refuse(s) \/ NightlyNothingCapped(s)
             \/ \E p \in Proposals : LoadForReview(s, p) \/ LoadForReopen(s, p)
      PROVE  Goal
  BY <1>1, ReadsChangeNothing DEF loanVars
<1>2. ASSUME NEW s \in Sessions,
             Approve(s) \/ ReviewApprove(s) \/ ReviewReject(s) \/ Reopen(s)
      PROVE  Goal
  BY <1>2 DEF Approve, ReviewApprove, ReviewReject, Reopen, loanVars, Terminal
<1>3. ASSUME NEW s \in Sessions, UpdateLoan(s) \/ SoftDeleteLoan(s) PROVE Goal
  BY <1>3 DEF UpdateLoan, SoftDeleteLoan
<1>4. ASSUME NEW isAuto, NEW seen, InsertProposal(isAuto, seen), UNCHANGED closure
      PROVE  Goal
  BY <1>4 DEF InsertProposal, Terminal
<1>5. ASSUME NEW seen, AutoProposeBadDebt(seen), UNCHANGED closure PROVE Goal
  BY <1>4, <1>5 DEF AutoProposeBadDebt
<1>6. ASSUME NEW s \in Sessions, NightlyCap(s) PROVE Goal
  BY <1>5, <1>6 DEF NightlyCap
<1>7. CASE Propose \/ ClassifyLate
  BY <1>4, <1>7 DEF Propose, ClassifyLate, loanVars
<1>8. CASE ClassifyCapped \/ ReclassifyCapped
  BY <1>5, <1>8 DEF ClassifyCapped, ReclassifyCapped
<1>9. CASE ReclassifyDown
  BY <1>9 DEF ReclassifyDown, WithdrawAutoProposalIfNoCapRemains, Terminal
<1>10. ASSUME NEW amount \in 1..MaxPaid, NEW allocated \in BOOLEAN,
              ConfirmTransaction(amount, allocated)
       PROVE  Goal
  BY <1>10 DEF ConfirmTransaction, Terminal
<1>11. ASSUME NEW p \in 0..MaxPaid, EditLedger(p) PROVE Goal
  BY <1>11 DEF EditLedger, loanVars
<1>12. ASSUME NEW type \in ClosureType, NEW settlement \in 0..Outstanding,
              CloseLoan(type, settlement)
       PROVE  Goal
  BY <1>12 DEF CloseLoan, WriteClosure, ClosureType
<1>13. CASE UNCHANGED vars
  BY <1>13 DEF vars, loanVars
<1>14. Goal
  BY <1>1, <1>2, <1>3, <1>6, <1>7, <1>8, <1>9, <1>10, <1>11, <1>12, <1>13, NextCases
<1> QED BY <1>14

\* As long as no client writes loans.status through PATCH, a CLOSED loan has a
\* payoff or settlement closure and a BAD_DEBT loan a write-off: no race makes
\* a loan terminal without the row that says who closed it and for how much.
THEOREM TerminalLoanAlwaysHasItsClosure ==
    ASSUME PatchedStatuses = {}
    PROVE  Spec => []TerminalLoanHasItsClosure
<1>1. Init => TerminalLoanHasItsClosure
  BY DEF Init, TerminalLoanHasItsClosure
<1>2. TypeOK /\ TerminalLoanHasItsClosure /\ [Next]_vars => TerminalLoanHasItsClosure'
  BY TerminalStep DEF TerminalLoanHasItsClosure, Terminal, NoClosure, ClosureType
<1> QED BY <1>1, <1>2, TypeCorrect, PTL DEF Spec

\* What the single schedule depends on: money exists only on a scheduled loan,
\* and the schedule is what makes a second approval fail.
DownPaymentInv ==
    /\ downPayments \in 0..1
    /\ downPayments = 1 => scheduled
    /\ paid > 0 => scheduled

\* The steps that leave payments and schedule alone keep the invariant.
LEMMA MoneyUntouched ==
    ASSUME DownPaymentInv, UNCHANGED <<downPayments, paid, scheduled>>
    PROVE  DownPaymentInv'
  BY DEF DownPaymentInv

\* On a scheduled loan payments may change freely.
LEMMA ScheduledMoney ==
    ASSUME DownPaymentInv, scheduled', UNCHANGED downPayments
    PROVE  DownPaymentInv'
  BY DEF DownPaymentInv

\* The down payment is recorded once however many approvals of the same draft
\* overlap, and no payment exists on a loan that has no schedule.
THEOREM DownPaymentAtMostOnce == Spec => []DownPaymentOnce
<1>1. Init => DownPaymentInv
  BY DEF Init, DownPaymentInv
<1>2. TypeOK /\ DownPaymentInv /\ [Next]_vars => DownPaymentInv'
  <2> SUFFICES ASSUME TypeOK, DownPaymentInv, [Next]_vars PROVE DownPaymentInv'
    OBVIOUS
  <2>1. ASSUME NEW s \in Sessions,
               \/ LoadForApprove(s) \/ LoadForEdit(s) \/ LoadForDelete(s)
               \/ LoadForNightly(s) \/ Refuse(s) \/ NightlyNothingCapped(s)
               \/ \E p \in Proposals : LoadForReview(s, p) \/ LoadForReopen(s, p)
        PROVE  DownPaymentInv'
    BY <2>1, ReadsChangeNothing, MoneyUntouched DEF loanVars, moneyVars
  <2>2. ASSUME NEW s \in Sessions, Approve(s) PROVE DownPaymentInv'
    <3>1. CASE scheduled
      BY <2>2, <3>1, MoneyUntouched DEF Approve, loanVars, moneyVars
    <3>2. CASE ~scheduled
      <4>1. PICK dp \in 0..1 : downPayments' = downPayments + dp
        BY <2>2, <3>2 DEF Approve
      <4>2. downPayments = 0 /\ scheduled'
        BY <2>2, <3>2 DEF DownPaymentInv, Approve
      <4> QED BY <4>1, <4>2 DEF DownPaymentInv
    <3> QED BY <3>1, <3>2
  <2>3. ASSUME NEW s \in Sessions,
               \/ UpdateLoan(s) \/ SoftDeleteLoan(s) \/ ReviewApprove(s)
               \/ ReviewReject(s) \/ Reopen(s) \/ NightlyCap(s)
        PROVE  DownPaymentInv'
    BY <2>3, MoneyUntouched DEF UpdateLoan, SoftDeleteLoan, ReviewApprove, ReviewReject,
       Reopen, NightlyCap, loanVars, moneyVars
  <2>4. CASE \/ Propose \/ ClassifyLate \/ ClassifyCapped \/ ReclassifyDown
             \/ ReclassifyCapped
    BY <2>4, MoneyUntouched DEF Propose, ClassifyLate, ClassifyCapped, ReclassifyDown,
       ReclassifyCapped, loanVars, moneyVars
  <2>5. ASSUME NEW amount \in 1..MaxPaid, NEW allocated \in BOOLEAN,
               ConfirmTransaction(amount, allocated)
        PROVE  DownPaymentInv'
    BY <2>5, ScheduledMoney DEF ConfirmTransaction
  <2>6. ASSUME NEW p \in 0..MaxPaid, EditLedger(p) PROVE DownPaymentInv'
    BY <2>6, ScheduledMoney DEF EditLedger, loanVars
  <2>7. ASSUME NEW type \in ClosureType, NEW settlement \in 0..Outstanding,
               CloseLoan(type, settlement)
        PROVE  DownPaymentInv'
    BY <2>7, MoneyUntouched DEF CloseLoan, moneyVars
  <2>8. CASE UNCHANGED vars
    BY <2>8, MoneyUntouched DEF vars, loanVars, moneyVars
  <2> QED BY <2>1, <2>2, <2>3, <2>4, <2>5, <2>6, <2>7, <2>8, NextCases
<1>3. DownPaymentInv => DownPaymentOnce
  BY DEF DownPaymentInv, DownPaymentOnce
<1> QED BY <1>1, <1>2, <1>3, TypeCorrect, PTL DEF Spec

\* No step replaces a closure: what was written off stays what it was, even
\* when a rejected proposal puts the closed loan back to ACTIVE.
THEOREM ClosureNeverReplaced == Spec => ClosureIsFinal
<1>1. ASSUME [Next]_vars, closure # NoClosure PROVE closure' = closure
  <2> USE <1>1
  <2>1. ASSUME NEW s \in Sessions,
               \/ LoadForApprove(s) \/ LoadForEdit(s) \/ LoadForDelete(s)
               \/ LoadForNightly(s) \/ Refuse(s) \/ NightlyNothingCapped(s)
               \/ \E p \in Proposals : LoadForReview(s, p) \/ LoadForReopen(s, p)
        PROVE  UNCHANGED closure
    BY <2>1, ReadsChangeNothing
  <2>2. ASSUME NEW s \in Sessions,
               \/ Approve(s) \/ UpdateLoan(s) \/ SoftDeleteLoan(s) \/ ReviewApprove(s)
               \/ ReviewReject(s) \/ Reopen(s) \/ NightlyCap(s)
        PROVE  UNCHANGED closure
    BY <2>2 DEF Approve, UpdateLoan, SoftDeleteLoan, ReviewApprove, ReviewReject,
       Reopen, NightlyCap
  <2>3. CASE \/ Propose \/ ClassifyLate \/ ClassifyCapped \/ ReclassifyDown
             \/ ReclassifyCapped
    BY <2>3 DEF Propose, ClassifyLate, ClassifyCapped, ReclassifyDown, ReclassifyCapped
  <2>4. ASSUME NEW amount \in 1..MaxPaid, NEW allocated \in BOOLEAN,
               ConfirmTransaction(amount, allocated)
        PROVE  UNCHANGED closure
    BY <2>4 DEF ConfirmTransaction
  <2>5. ASSUME NEW p \in 0..MaxPaid, EditLedger(p) PROVE UNCHANGED closure
    BY <2>5 DEF EditLedger
  <2>6. ASSUME NEW type \in ClosureType, NEW settlement \in 0..Outstanding,
               CloseLoan(type, settlement)
        PROVE  FALSE
    BY <2>6 DEF CloseLoan
  <2>7. CASE UNCHANGED vars
    BY <2>7 DEF vars
  <2> QED BY <2>1, <2>2, <2>3, <2>4, <2>5, <2>6, <2>7, NextCases
<1>2. [Next]_vars => [closure # NoClosure => closure' = closure]_vars
  BY <1>1
<1> QED BY <1>2, PTL DEF Spec, ClosureIsFinal

\* A penalty at the cap does not move a terminal loan, as long as the caller
\* looks at the locked row.
LEMMA AutoProposeKeepsTerminal ==
    ASSUME AutoProposeBadDebt(status), status \in Terminal
    PROVE  UNCHANGED status
  BY DEF AutoProposeBadDebt

\* As long as no client writes loans.status through PATCH, a closed loan is
\* put back into service only by a REJECT review, or by an approval or a
\* nightly run that had read the loan before it was closed.
THEOREM TerminalLeftOnlyByThose ==
    ASSUME PatchedStatuses = {}
    PROVE  Spec => TerminalLeftOnlyByRejectOrStaleRead
<1> DEFINE Cause == \E s \in Sessions : ReviewReject(s) \/ Approve(s) \/ NightlyCap(s)
<1>1. ASSUME [Next]_vars, status \in Terminal, status' \notin Terminal PROVE Cause
  <2> USE <1>1
  <2>1. ASSUME NEW s \in Sessions,
               \/ LoadForApprove(s) \/ LoadForEdit(s) \/ LoadForDelete(s)
               \/ LoadForNightly(s) \/ Refuse(s) \/ NightlyNothingCapped(s)
               \/ \E p \in Proposals : LoadForReview(s, p) \/ LoadForReopen(s, p)
        PROVE  FALSE
    BY <2>1, ReadsChangeNothing DEF loanVars
  <2>2. ASSUME NEW s \in Sessions,
               \/ UpdateLoan(s) \/ SoftDeleteLoan(s) \/ ReviewApprove(s) \/ Reopen(s)
        PROVE  FALSE
    BY <2>2 DEF UpdateLoan, SoftDeleteLoan, ReviewApprove, Reopen, loanVars
  <2>3. CASE Propose \/ ClassifyLate
    BY <2>3 DEF Propose, ClassifyLate, loanVars
  <2>4. CASE ClassifyCapped \/ ReclassifyCapped
    BY <2>4, AutoProposeKeepsTerminal DEF ClassifyCapped, ReclassifyCapped
  <2>5. CASE ReclassifyDown
    BY <2>5 DEF ReclassifyDown, WithdrawAutoProposalIfNoCapRemains, Terminal
  <2>6. ASSUME NEW amount \in 1..MaxPaid, NEW allocated \in BOOLEAN,
               ConfirmTransaction(amount, allocated)
        PROVE  FALSE
    BY <2>6 DEF ConfirmTransaction, PaymentAcceptingLoanStatuses, Terminal
  <2>7. ASSUME NEW p \in 0..MaxPaid, EditLedger(p) PROVE FALSE
    BY <2>7 DEF EditLedger, loanVars
  <2>8. ASSUME NEW type \in ClosureType, NEW settlement \in 0..Outstanding,
               CloseLoan(type, settlement)
        PROVE  FALSE
    BY <2>8 DEF CloseLoan, CloseableStatuses, Terminal
  <2>9. CASE UNCHANGED vars
    BY <2>9 DEF vars, loanVars
  <2> QED BY <2>1, <2>2, <2>3, <2>4, <2>5, <2>6, <2>7, <2>8, <2>9, NextCases
<1>2. [Next]_vars =>
        [(status \in Terminal /\ status' \notin Terminal) => Cause]_vars
  BY <1>1
<1> QED BY <1>2, PTL DEF Spec, TerminalLeftOnlyByRejectOrStaleRead
-----------------------------------------------------------------------------
(***************************************************************************)
(* What LoanLifecycle keeps when requests on one loan do not overlap:      *)
(* without overlap, what a request has read is still so when it acts.      *)
(***************************************************************************)

\* At most one request is in flight.
Alone == \A s, t \in Sessions : req[s] # Idle /\ req[t] # Idle => s = t
AllIdle == \A s \in Sessions : req[s] = Idle

\* What a request in flight has read still holds.
ReadHolds(s) ==
    /\ req[s].op = "approve" => status = "DRAFT" /\ ~deleted
    /\ req[s].op = "delete" => status # "ACTIVE"
    /\ req[s].op = "review" => proposal[req[s].pid] = "PROPOSED"
    /\ req[s].op = "reopen" => proposal[req[s].pid] = "APPROVED"
    /\ req[s].op = "nightly" => req[s].seen = status /\ ~deleted

ReadsHold == \A s \in Sessions : ReadHolds(s)

\* The three invariants, which lean on each other.
Queue ==
    /\ NoOpenProposalOnRunningLoan
    /\ AwaitingClosureHasNoAutoProposal
    /\ ActiveLoanIsNotDeleted

IInv == Alone /\ ReadsHold /\ OpenProposalUnique /\ Queue
-----------------------------------------------------------------------------
(* Requests one at a time.                                                 *)

\* Nothing is claimed of requests when there are none.
LEMMA IdleReads == AllIdle' => Alone' /\ ReadsHold'
  BY DEF AllIdle, Alone, ReadsHold, ReadHolds, Idle

\* A request that ends leaves none behind.
LEMMA LastOneEnds ==
    ASSUME TypeOK, Alone, NEW s \in Sessions, req[s].op # "idle", Done(s)
    PROVE  AllIdle'
<1>1. req[s] # Idle
  BY DEF Idle
<1> QED
  BY <1>1 DEF TypeOK, Alone, AllIdle, Done

\* What opens with the lock happens when no request is in flight.
LEMMA LockedStep ==
    ASSUME ~Overlap, MayStart, UNCHANGED req
    PROVE  AllIdle'
  BY DEF MayStart, AllIdle

\* A request that begins is the only one.
LEMMA FirstOneBegins ==
    ASSUME ~Overlap, TypeOK, NEW s \in Sessions, NEW r, Begin(s, r)
    PROVE  Alone' /\ req'[s] = r /\ \A t \in Sessions \ {s} : req'[t] = Idle
  BY DEF MayStart, Begin, TypeOK, Alone

\* What was read just now holds.
LEMMA LoadKeepsReads ==
    ASSUME ~Overlap, TypeOK, NEW s \in Sessions,
           \/ LoadForApprove(s) \/ LoadForEdit(s) \/ LoadForDelete(s)
           \/ LoadForNightly(s)
           \/ \E p \in Proposals : LoadForReview(s, p) \/ LoadForReopen(s, p)
    PROVE  Alone' /\ ReadsHold'
<1>1. UNCHANGED <<status, deleted, proposal>>
  BY ReadsChangeNothing DEF loanVars, proposalVars
<1>2. ASSUME NEW r, Begin(s, r), ReadHolds(s)' PROVE Alone' /\ ReadsHold'
  <2>1. Alone' /\ \A t \in Sessions \ {s} : req'[t] = Idle
    BY <1>2, FirstOneBegins
  <2>2. ASSUME NEW t \in Sessions \ {s} PROVE ReadHolds(t)'
    BY <2>1 DEF ReadHolds, Idle
  <2> QED
    BY <1>2, <2>1, <2>2 DEF ReadsHold
<1>3. CASE LoadForApprove(s)
  <2>1. Begin(s, [op |-> "approve"]) /\ status = "DRAFT" /\ ~deleted
    BY <1>3 DEF LoadForApprove
  <2>2. req'[s] = [op |-> "approve"]
    BY <2>1, FirstOneBegins
  <2> QED
    BY <1>1, <1>2, <2>1, <2>2 DEF ReadHolds
<1>4. CASE LoadForEdit(s)
  <2>1. Begin(s, [op |-> "edit", seen |-> status])
    BY <1>4 DEF LoadForEdit
  <2>2. req'[s] = [op |-> "edit", seen |-> status]
    BY <2>1, FirstOneBegins
  <2> QED
    BY <1>2, <2>1, <2>2 DEF ReadHolds
<1>5. CASE LoadForDelete(s)
  <2>1. Begin(s, [op |-> "delete"]) /\ status # "ACTIVE"
    BY <1>5 DEF LoadForDelete
  <2>2. req'[s] = [op |-> "delete"]
    BY <2>1, FirstOneBegins
  <2> QED
    BY <1>1, <1>2, <2>1, <2>2 DEF ReadHolds
<1>6. CASE LoadForNightly(s)
  <2>1. Begin(s, [op |-> "nightly", seen |-> status]) /\ ~deleted
    BY <1>6 DEF LoadForNightly
  <2>2. req'[s] = [op |-> "nightly", seen |-> status]
    BY <2>1, FirstOneBegins
  <2> QED
    BY <1>1, <1>2, <2>1, <2>2 DEF ReadHolds
<1>7. ASSUME NEW p \in Proposals, LoadForReview(s, p) PROVE Alone' /\ ReadsHold'
  <2>1. Begin(s, [op |-> "review", pid |-> p]) /\ proposal[p] = "PROPOSED"
    BY <1>7 DEF LoadForReview
  <2>2. req'[s] = [op |-> "review", pid |-> p]
    BY <2>1, FirstOneBegins
  <2> QED
    BY <1>1, <1>2, <2>1, <2>2 DEF ReadHolds
<1>8. ASSUME NEW p \in Proposals, LoadForReopen(s, p) PROVE Alone' /\ ReadsHold'
  <2>1. Begin(s, [op |-> "reopen", pid |-> p]) /\ proposal[p] = "APPROVED"
    BY <1>8 DEF LoadForReopen
  <2>2. req'[s] = [op |-> "reopen", pid |-> p]
    BY <2>1, FirstOneBegins
  <2> QED
    BY <1>1, <1>2, <2>1, <2>2 DEF ReadHolds
<1> QED
  BY <1>3, <1>4, <1>5, <1>6, <1>7, <1>8

\* Every step that is not a read leaves no request in flight, or is none.
LEMMA StepKeepsReads ==
    ASSUME ~Overlap, TypeOK, Alone, ReadsHold, [Next]_vars
    PROVE  Alone' /\ ReadsHold'
<1>1. ASSUME NEW s \in Sessions,
             \/ LoadForApprove(s) \/ LoadForEdit(s) \/ LoadForDelete(s)
             \/ LoadForNightly(s)
             \/ \E p \in Proposals : LoadForReview(s, p) \/ LoadForReopen(s, p)
      PROVE  Alone' /\ ReadsHold'
  BY <1>1, LoadKeepsReads
<1>2. ASSUME NEW s \in Sessions,
             \/ Approve(s) \/ UpdateLoan(s) \/ SoftDeleteLoan(s) \/ ReviewApprove(s)
             \/ ReviewReject(s) \/ Reopen(s) \/ Refuse(s) \/ NightlyNothingCapped(s)
             \/ NightlyCap(s)
      PROVE  AllIdle'
  <2>1. Done(s) /\ req[s].op # "idle"
    BY <1>2 DEF Approve, UpdateLoan, SoftDeleteLoan, ReviewApprove, ReviewReject, Reopen,
       Refuse, NightlyNothingCapped, NightlyCap
  <2> QED
    BY <2>1, LastOneEnds
<1>3. CASE Propose \/ ClassifyLate \/ ClassifyCapped \/ ReclassifyDown \/ ReclassifyCapped
  <2>1. MayStart /\ UNCHANGED req
    BY <1>3 DEF Propose, ClassifyLate, ClassifyCapped, ReclassifyDown, ReclassifyCapped
  <2> QED
    BY <2>1, LockedStep, IdleReads
<1>4. ASSUME NEW amount \in 1..MaxPaid, NEW allocated \in BOOLEAN,
             ConfirmTransaction(amount, allocated)
      PROVE  AllIdle'
  BY <1>4, LockedStep DEF ConfirmTransaction
<1>5. ASSUME NEW p \in 0..MaxPaid, EditLedger(p) PROVE AllIdle'
  BY <1>5, LockedStep DEF EditLedger
<1>6. ASSUME NEW type \in ClosureType, NEW settlement \in 0..Outstanding,
             CloseLoan(type, settlement)
      PROVE  AllIdle'
  BY <1>6, LockedStep DEF CloseLoan
<1>7. CASE UNCHANGED vars
  BY <1>7 DEF vars, loanVars, proposalVars, Alone, ReadsHold, ReadHolds
<1> QED
  BY <1>1, <1>2, <1>3, <1>4, <1>5, <1>6, <1>7, IdleReads, NextCases
-----------------------------------------------------------------------------
(* The queue of proposals and the loan.                                    *)

\* Where the reviews, withdrawals and payments leave no proposal behind: the only
\* open one is decided.
LEMMA DecidesTheOnlyOne ==
    ASSUME TypeOK, OpenProposalUnique, NEW p \in OpenProposals, NEW d \in {"APPROVED", "REJECTED"},
           proposal' = [proposal EXCEPT ![p] = d]
    PROVE  OpenProposals' = {}
  BY DEF TypeOK, OpenProposalUnique, OpenProposals

\* What is closed stays closed when nothing is opened.
LEMMA QueueShrinks ==
    ASSUME Queue, UNCHANGED <<status, deleted, auto>>, OpensNone
    PROVE  Queue'
  BY DEF Queue, NoOpenProposalOnRunningLoan, AwaitingClosureHasNoAutoProposal,
     ActiveLoanIsNotDeleted, OpensNone

\* A proposal, new or found open, leaves the loan proposed or as it was.
LEMMA AutoProposeKeepsQueue ==
    ASSUME Queue, AutoProposeBadDebt(status), UNCHANGED deleted
    PROVE  Queue'
<1>1. CASE UNCHANGED <<status, proposal, auto>>
  BY <1>1 DEF Queue, NoOpenProposalOnRunningLoan, AwaitingClosureHasNoAutoProposal,
     ActiveLoanIsNotDeleted, OpenProposals
<1>2. CASE status' = "BAD_DEBT_PROPOSED"
  BY <1>2 DEF Queue, NoOpenProposalOnRunningLoan, AwaitingClosureHasNoAutoProposal,
     ActiveLoanIsNotDeleted
<1> QED
  BY <1>1, <1>2 DEF AutoProposeBadDebt, InsertProposal

\* When the last cap goes, the withdrawn proposal was the only open one.
LEMMA WithdrawalKeepsQueue ==
    ASSUME TypeOK, OpenProposalUnique, Queue, ~deleted, UNCHANGED <<deleted, auto>>,
           WithdrawAutoProposalIfNoCapRemains
    PROVE  Queue'
<1>1. CASE UNCHANGED <<proposal, status>>
  BY <1>1 DEF Queue, NoOpenProposalOnRunningLoan, AwaitingClosureHasNoAutoProposal,
     ActiveLoanIsNotDeleted, OpenProposals
<1>2. CASE capped' = 0 /\ OpenProposals \cap auto # {}
  <2>1. PICK p \in OpenProposals \cap auto : TRUE
    BY <1>2
  <2>2. OpenProposals = {p}
    BY <2>1 DEF OpenProposalUnique
  <2>3. proposal' = [q \in Proposals |-> IF q \in OpenProposals \cap auto THEN "REJECTED"
                                                                        ELSE proposal[q]]
    BY <1>2 DEF WithdrawAutoProposalIfNoCapRemains
  <2>4. OpenProposals' = {}
    BY <2>1, <2>2, <2>3 DEF OpenProposals, TypeOK
  <2> QED
    BY <2>4 DEF Queue, NoOpenProposalOnRunningLoan, AwaitingClosureHasNoAutoProposal,
       ActiveLoanIsNotDeleted
<1> QED
  BY <1>1, <1>2 DEF WithdrawAutoProposalIfNoCapRemains

\* A full payment leaves no automatic proposal open.
LEMMA PaymentKeepsQueue ==
    ASSUME TypeOK, Queue, NEW amount \in 1..MaxPaid, NEW allocated \in BOOLEAN,
           ConfirmTransaction(amount, allocated)
    PROVE  Queue'
<1>1. UNCHANGED <<deleted, auto>>
  BY DEF ConfirmTransaction
<1>2. CASE UNCHANGED <<status, proposal>>
  BY <1>1, <1>2 DEF Queue, NoOpenProposalOnRunningLoan, AwaitingClosureHasNoAutoProposal,
     ActiveLoanIsNotDeleted, OpenProposals
<1>3. CASE status' = "AWAITING_CLOSURE" /\ status = "ACTIVE" /\ UNCHANGED proposal
  BY <1>1, <1>3 DEF Queue, NoOpenProposalOnRunningLoan, AwaitingClosureHasNoAutoProposal,
     ActiveLoanIsNotDeleted, OpenProposals
<1>4. CASE status' = "AWAITING_CLOSURE" /\ WithdrawAutoProposalOnFullPayment
  <2>1. OpenProposals' \cap auto = {}
    BY <1>4 DEF WithdrawAutoProposalOnFullPayment, OpenProposals, TypeOK
  <2> QED
    BY <1>1, <1>4, <2>1 DEF Queue, NoOpenProposalOnRunningLoan,
       AwaitingClosureHasNoAutoProposal, ActiveLoanIsNotDeleted
<1> QED
  BY <1>2, <1>3, <1>4 DEF ConfirmTransaction, PaymentAcceptingLoanStatuses

\* Under IInv a step keeps Queue.  The one open proposal is decided exactly where the
\* loan goes back to ACTIVE.
LEMMA StepKeepsQueue ==
    ASSUME PatchedStatuses = {}, TypeOK, IInv, [Next]_vars
    PROVE  Queue'
<1> USE DEF IInv
<1>1. ASSUME UNCHANGED <<status, deleted, proposal, auto>> PROVE Queue'
  BY <1>1, QueueShrinks DEF OpensNone, OpenProposals
<1>2. ASSUME NEW s \in Sessions,
             \/ LoadForApprove(s) \/ LoadForEdit(s) \/ LoadForDelete(s)
             \/ LoadForNightly(s) \/ Refuse(s) \/ NightlyNothingCapped(s)
             \/ \E p \in Proposals : LoadForReview(s, p) \/ LoadForReopen(s, p)
      PROVE  Queue'
  BY <1>1, <1>2, ReadsChangeNothing DEF loanVars, proposalVars
<1>3. ASSUME NEW s \in Sessions, Approve(s) PROVE Queue'
  <2>1. status = "DRAFT" /\ ~deleted
    BY <1>3 DEF Approve, ReadsHold, ReadHolds
  <2>2. UNCHANGED <<proposal, auto, deleted>>
    BY <1>3 DEF Approve, proposalVars, loanVars
  <2>3. status' \in {status, "ACTIVE"}
    BY <1>3 DEF Approve, loanVars
  <2> QED
    BY <2>1, <2>2, <2>3 DEF Queue, NoOpenProposalOnRunningLoan,
       AwaitingClosureHasNoAutoProposal, ActiveLoanIsNotDeleted, OpenProposals
<1>4. ASSUME NEW s \in Sessions, UpdateLoan(s) PROVE Queue'
  BY <1>1, <1>4 DEF UpdateLoan, proposalVars
<1>5. ASSUME NEW s \in Sessions, SoftDeleteLoan(s) PROVE Queue'
  <2>1. status # "ACTIVE"
    BY <1>5 DEF SoftDeleteLoan, ReadsHold, ReadHolds
  <2>2. UNCHANGED <<status, proposal, auto>>
    BY <1>5 DEF SoftDeleteLoan, proposalVars
  <2> QED
    BY <2>1, <2>2 DEF Queue, NoOpenProposalOnRunningLoan,
       AwaitingClosureHasNoAutoProposal, ActiveLoanIsNotDeleted, OpenProposals
<1>6. ASSUME NEW s \in Sessions, ReviewApprove(s) \/ ReviewReject(s) PROVE Queue'
  <2>1. req[s].pid \in OpenProposals
    <3>1. req[s].op = "review"
      BY <1>6 DEF ReviewApprove, ReviewReject
    <3>2. req[s].pid \in Proposals
      BY <3>1, RequestTarget DEF TypeOK
    <3> QED
      BY <3>1, <3>2 DEF ReadsHold, ReadHolds, OpenProposals
  <2>2. PICK d \in {"APPROVED", "REJECTED"} : proposal' = [proposal EXCEPT ![req[s].pid] = d]
    BY <1>6 DEF ReviewApprove, ReviewReject
  <2>3. OpenProposals' = {}
    BY <2>1, <2>2, DecidesTheOnlyOne
  <2>4. ~deleted /\ UNCHANGED deleted
    BY <1>6 DEF ReviewApprove, ReviewReject, loanVars
  <2> QED
    BY <2>3, <2>4 DEF Queue, NoOpenProposalOnRunningLoan,
       AwaitingClosureHasNoAutoProposal, ActiveLoanIsNotDeleted
<1>7. ASSUME NEW s \in Sessions, Reopen(s) PROVE Queue'
  BY <1>7 DEF Reopen, loanVars, Queue, NoOpenProposalOnRunningLoan,
     AwaitingClosureHasNoAutoProposal, ActiveLoanIsNotDeleted
<1>8. ASSUME NEW s \in Sessions, NightlyCap(s) PROVE Queue'
  BY <1>8, AutoProposeKeepsQueue DEF NightlyCap, ReadsHold, ReadHolds
<1>9. CASE Propose
  BY <1>9 DEF Propose, InsertProposal, Queue, NoOpenProposalOnRunningLoan,
     AwaitingClosureHasNoAutoProposal, ActiveLoanIsNotDeleted
<1>10. CASE ClassifyLate
  BY <1>1, <1>10 DEF ClassifyLate, loanVars, proposalVars
<1>11. CASE ClassifyCapped \/ ReclassifyCapped
  BY <1>11, AutoProposeKeepsQueue DEF ClassifyCapped, ReclassifyCapped
<1>12. CASE ReclassifyDown
  BY <1>12, WithdrawalKeepsQueue DEF ReclassifyDown
<1>13. ASSUME NEW amount \in 1..MaxPaid, NEW allocated \in BOOLEAN,
              ConfirmTransaction(amount, allocated)
       PROVE  Queue'
  BY <1>13, PaymentKeepsQueue
<1>14. ASSUME NEW p \in 0..MaxPaid, EditLedger(p) PROVE Queue'
  BY <1>1, <1>14 DEF EditLedger, loanVars, proposalVars
<1>15. ASSUME NEW type \in ClosureType, NEW settlement \in 0..Outstanding,
              CloseLoan(type, settlement)
       PROVE  Queue'
  <2>1. status' \in Terminal /\ UNCHANGED <<proposal, auto, deleted>>
    BY <1>15 DEF CloseLoan, WriteClosure, Terminal, proposalVars
  <2> QED
    BY <2>1 DEF Terminal, Queue, NoOpenProposalOnRunningLoan,
       AwaitingClosureHasNoAutoProposal, ActiveLoanIsNotDeleted
<1>16. CASE UNCHANGED vars
  BY <1>1, <1>16 DEF vars, loanVars, proposalVars
<1> QED
  BY <1>2, <1>3, <1>4, <1>5, <1>6, <1>7, <1>8, <1>9, <1>10, <1>11, <1>12, <1>13,
     <1>14, <1>15, <1>16, NextCases

\* The serial invariant holds in every reachable state.
THEOREM SerialInvariant ==
    ASSUME ~Overlap, PatchedStatuses = {}
    PROVE  Spec => []IInv
<1>1. Init => IInv
  <2> SUFFICES ASSUME Init PROVE IInv
    OBVIOUS
  <2>1. OpenProposals = {}
    BY DEF Init, OpenProposals
  <2> QED
    BY <2>1 DEF Init, IInv, Alone, ReadsHold, ReadHolds, Idle, OpenProposalUnique, Queue,
       NoOpenProposalOnRunningLoan, AwaitingClosureHasNoAutoProposal, ActiveLoanIsNotDeleted
<1>2. TypeOK /\ IInv /\ [Next]_vars => IInv'
  <2> SUFFICES ASSUME TypeOK, IInv, [Next]_vars PROVE IInv'
    OBVIOUS
  <2>1. Alone' /\ ReadsHold'
    BY StepKeepsReads DEF IInv
  <2>2. OpenProposalUnique'
    BY StepOpens DEF IInv, OpensNone, OpensOnly, OpenProposalUnique
  <2>3. Queue'
    BY StepKeepsQueue
  <2> QED
    BY <2>1, <2>2, <2>3 DEF IInv
<1> QED
  BY <1>1, <1>2, TypeCorrect, PTL DEF Spec

\* Without overlap a DRAFT or ACTIVE loan has no proposal in the review queue: what is
\* proposed is decided, or withdrawn, where the loan runs again.
THEOREM RunningLoanHasNoOpenProposal ==
    ASSUME ~Overlap, PatchedStatuses = {}
    PROVE  Spec => []NoOpenProposalOnRunningLoan
<1>1. IInv => NoOpenProposalOnRunningLoan
  BY DEF IInv, Queue
<1> QED
  BY <1>1, SerialInvariant, PTL

\* Without overlap a loan that waits for closure has no automatic proposal left.
THEOREM PaidLoanHasNoAutoProposal ==
    ASSUME ~Overlap, PatchedStatuses = {}
    PROVE  Spec => []AwaitingClosureHasNoAutoProposal
<1>1. IInv => AwaitingClosureHasNoAutoProposal
  BY DEF IInv, Queue
<1> QED
  BY <1>1, SerialInvariant, PTL

\* Without overlap no ACTIVE loan is deleted, and no deleted one becomes ACTIVE.
THEOREM ActiveLoanNeverDeleted ==
    ASSUME ~Overlap, PatchedStatuses = {}
    PROVE  Spec => []ActiveLoanIsNotDeleted
<1>1. IInv => ActiveLoanIsNotDeleted
  BY DEF IInv, Queue
<1> QED
  BY <1>1, SerialInvariant, PTL

\* Without overlap a rejected proposal stays rejected: a review decides only what is
\* open, a reopening takes up only what was approved.
THEOREM RejectionIsFinal ==
    ASSUME ~Overlap, PatchedStatuses = {}
    PROVE  Spec => RejectedStaysRejected
<1> DEFINE Kept == \A p \in Proposals : proposal[p] = "REJECTED" => proposal'[p] = "REJECTED"
<1>1. ASSUME TypeOK, IInv, [Next]_vars PROVE Kept
  <2> USE <1>1
  <2>1. CASE UNCHANGED proposal
    BY <2>1
  <2>2. ASSUME NEW s \in Sessions,
               \/ LoadForApprove(s) \/ LoadForEdit(s) \/ LoadForDelete(s)
               \/ LoadForNightly(s) \/ Refuse(s) \/ NightlyNothingCapped(s)
               \/ \E p \in Proposals : LoadForReview(s, p) \/ LoadForReopen(s, p)
        PROVE  Kept
    BY <2>2, ReadsChangeNothing DEF proposalVars
  <2>3. ASSUME NEW s \in Sessions, ReviewApprove(s) \/ ReviewReject(s) \/ Reopen(s)
        PROVE  Kept
    <3>1. proposal[req[s].pid] \in {"PROPOSED", "APPROVED"}
      BY <2>3 DEF IInv, ReadsHold, ReadHolds, ReviewApprove, ReviewReject, Reopen
    <3>2. \E d \in {"PROPOSED", "APPROVED", "REJECTED"} :
              proposal' = [proposal EXCEPT ![req[s].pid] = d]
      BY <2>3 DEF ReviewApprove, ReviewReject, Reopen
    <3> QED
      BY <3>1, <3>2 DEF TypeOK
  <2>4. ASSUME NEW isAuto \in BOOLEAN, NEW seen, InsertProposal(isAuto, seen) PROVE Kept
    BY <2>4 DEF InsertProposal, TypeOK
  <2>5. ASSUME NEW seen, AutoProposeBadDebt(seen) PROVE Kept
    BY <2>4, <2>5 DEF AutoProposeBadDebt
  <2>6. ASSUME NEW s \in Sessions, Approve(s) \/ UpdateLoan(s) \/ SoftDeleteLoan(s)
        PROVE  Kept
    BY <2>6 DEF Approve, UpdateLoan, SoftDeleteLoan, proposalVars
  <2>7. ASSUME NEW s \in Sessions, NightlyCap(s) PROVE Kept
    BY <2>5, <2>7 DEF NightlyCap
  <2>8. CASE Propose
    BY <2>4, <2>8 DEF Propose
  <2>9. CASE ClassifyCapped \/ ReclassifyCapped
    BY <2>5, <2>9 DEF ClassifyCapped, ReclassifyCapped
  <2>10. CASE ReclassifyDown
    BY <2>10 DEF ReclassifyDown, WithdrawAutoProposalIfNoCapRemains
  <2>11. CASE ClassifyLate
    BY <2>11 DEF ClassifyLate, proposalVars
  <2>12. ASSUME NEW amount \in 1..MaxPaid, NEW allocated \in BOOLEAN,
                ConfirmTransaction(amount, allocated)
         PROVE  Kept
    BY <2>12 DEF ConfirmTransaction, WithdrawAutoProposalOnFullPayment
  <2>13. ASSUME NEW p \in 0..MaxPaid, EditLedger(p) PROVE Kept
    BY <2>13 DEF EditLedger, proposalVars
  <2>14. ASSUME NEW type \in ClosureType, NEW settlement \in 0..Outstanding,
                CloseLoan(type, settlement)
         PROVE  Kept
    BY <2>14 DEF CloseLoan, proposalVars
  <2>15. CASE UNCHANGED vars
    BY <2>15 DEF vars, proposalVars
  <2> QED
    BY <2>2, <2>3, <2>6, <2>7, <2>8, <2>9, <2>10, <2>11, <2>12, <2>13, <2>14, <2>15,
       NextCases
<1>2. TypeOK /\ IInv /\ [Next]_vars => [Kept]_vars
  BY <1>1
<1> QED
  BY <1>2, SerialInvariant, TypeCorrect, PTL DEF Spec, RejectedStaysRejected
-----------------------------------------------------------------------------
(***************************************************************************)
(* Requests one at a time implement LoanCase: every step is one of its     *)
(* steps or changes nothing that it sees.                                  *)
(***************************************************************************)

\* What LoanCase sees is well formed: there is always a balance to speak of, and a
\* loan is in the queue for the system or for a user exactly when a proposal is open.
LEMMA CaseView ==
    ASSUME TypeOK
    PROVE  /\ Outstanding \in Nat
           /\ InQueue \in {"nobody", "user", "system"}
           /\ InQueue = "nobody" <=> OpenProposals = {}
           /\ InQueue = "system" <=> OpenProposals \cap auto # {}
  BY DEF TypeOK, Outstanding, OutstandingAfter, Payable, InQueue

\* So there is after a step.
LEMMA NextBalance == (TypeOK => Outstanding \in Nat)'
<1>1. TypeOK => Outstanding \in Nat
  BY CaseView
<1> QED
  BY <1>1, PTL

\* The queue moves only with the proposals.
LEMMA SameQueue == ASSUME UNCHANGED <<proposal, auto>> PROVE UNCHANGED InQueue
  BY DEF InQueue, OpenProposals

\* The balance moves only with the money and the terms.
LEMMA SameBalance ==
    ASSUME UNCHANGED <<base, paid, late, capped>>
    PROVE  UNCHANGED Outstanding
  BY DEF Outstanding, OutstandingAfter, Payable

\* A new row puts the loan into the queue; one of the system is the system's.
LEMMA InsertEntersQueue ==
    ASSUME TypeOK, TypeOK', NEW isAuto \in BOOLEAN, NEW seen, InsertProposal(isAuto, seen)
    PROVE  InQueue' \in {"user", "system"} /\ (isAuto => InQueue' = "system")
<1>1. PICK p \in Proposals : /\ proposal' = [proposal EXCEPT ![p] = "PROPOSED"]
                             /\ auto' = IF isAuto THEN auto \cup {p} ELSE auto
  BY DEF InsertProposal
<1>2. p \in OpenProposals'
  BY <1>1 DEF TypeOK, OpenProposals
<1> QED
  BY <1>1, <1>2 DEF InQueue

\* When nothing is open any more, nobody has the loan in the queue.
LEMMA EmptyQueue == ASSUME OpenProposals' = {} PROVE InQueue' = "nobody"
  BY DEF InQueue

\* The steps that propose: nothing where a proposal is open, else into the queue.
LEMMA AutoProposeIsPropose ==
    ASSUME TypeOK, TypeOK', AutoProposeBadDebt(status), ~deleted, UNCHANGED <<deleted, closure>>
    PROVE  Case!Next
<1>1. Outstanding' \in Nat
  BY NextBalance
<1>2. CASE UNCHANGED <<status, proposal, auto>>
  <2>1. UNCHANGED InQueue
    BY <1>2, SameQueue
  <2> QED
    BY <1>1, <1>2, <2>1 DEF Case!Next, Case!MoveMoney, Case!Recount
<1>3. CASE OpenProposals = {} /\ status \notin Terminal /\ InsertProposal(TRUE, status)
  <2>1. InQueue = "nobody" /\ InQueue' = "system"
    BY <1>3, CaseView, InsertEntersQueue
  <2>2. status' = "BAD_DEBT_PROPOSED"
    BY <1>3 DEF InsertProposal
  <2> QED
    BY <1>1, <1>3, <2>1, <2>2 DEF Case!Next, Case!Propose, Case!Recount, Terminal
<1> QED
  BY <1>2, <1>3 DEF AutoProposeBadDebt

\* A withdrawal takes back the system's proposal and no other.
LEMMA WithdrawalIsWithdraw ==
    ASSUME TypeOK, TypeOK', OpenProposalUnique, WithdrawAutoProposalIfNoCapRemains,
           ~deleted, UNCHANGED <<deleted, closure, auto>>
    PROVE  Case!Next
<1>1. Outstanding' \in Nat
  BY NextBalance
<1>2. CASE UNCHANGED <<proposal, status>>
  <2>1. UNCHANGED InQueue
    BY <1>2, SameQueue
  <2> QED
    BY <1>1, <1>2, <2>1 DEF Case!Next, Case!MoveMoney, Case!Recount
<1>3. CASE capped' = 0 /\ OpenProposals \cap auto # {}
  <2>1. InQueue = "system"
    BY <1>3, CaseView
  <2>2. OpenProposals \subseteq auto
    BY <1>3 DEF OpenProposalUnique
  <2>3. proposal' = [p \in Proposals |-> IF p \in OpenProposals \cap auto THEN "REJECTED"
                                                                        ELSE proposal[p]]
    BY <1>3 DEF WithdrawAutoProposalIfNoCapRemains
  <2>4. InQueue' = "nobody"
    <3>1. OpenProposals' = {}
      BY <2>2, <2>3 DEF OpenProposals
    <3> QED
      BY <3>1, EmptyQueue
  <2>5. status' = IF status = "BAD_DEBT_PROPOSED" THEN "ACTIVE" ELSE status
    BY <1>3 DEF WithdrawAutoProposalIfNoCapRemains
  <2> QED
    BY <1>1, <2>1, <2>4, <2>5 DEF Case!Next, Case!Withdraw, Case!Recount
<1> QED
  BY <1>2, <1>3 DEF WithdrawAutoProposalIfNoCapRemains

\* A full payment rejects the system's open proposal, which is the only one, or leaves
\* the user's where it is.
LEMMA FullPaymentClearsQueue ==
    ASSUME TypeOK, OpenProposalUnique, UNCHANGED auto, WithdrawAutoProposalOnFullPayment
    PROVE  InQueue' = IF InQueue = "system" THEN "nobody" ELSE InQueue
<1>1. OpenProposals' = OpenProposals \ auto
  BY DEF TypeOK, OpenProposals, WithdrawAutoProposalOnFullPayment
<1>2. CASE OpenProposals \cap auto # {}
  <2>1. OpenProposals' = {}
    BY <1>1, <1>2 DEF OpenProposalUnique
  <2> QED
    BY <1>2, <2>1, CaseView, EmptyQueue
<1>3. CASE OpenProposals \cap auto = {}
  <2>1. OpenProposals' = OpenProposals
    BY <1>1, <1>3
  <2>2. InQueue # "system"
    BY <1>3, CaseView
  <2> QED
    BY <1>3, <2>1, <2>2 DEF InQueue
<1> QED
  BY <1>2, <1>3

\* A payment that finds nothing left to pay leaves nothing to pay, also where the balance
\* was read before the payment was flushed.
LEMMA NothingLeft ==
    ASSUME TypeOK, NEW amount \in 1..MaxPaid, NEW allocated \in BOOLEAN,
           ConfirmTransaction(amount, allocated),
           OutstandingAfter(IF allocated THEN paid' ELSE paid) = 0
    PROVE  Outstanding' = 0
<1>1. paid' = paid + amount /\ UNCHANGED <<base, late, capped>>
  BY DEF ConfirmTransaction
<1>2. amount \in Nat
  BY ConstantsAssumption
<1>3. Payable \in Nat /\ paid \in Nat /\ Payable' = Payable
  BY <1>1 DEF TypeOK, Payable
<1>4. Payable <= paid'
  BY <1>1, <1>2, <1>3 DEF OutstandingAfter
<1> QED
  BY <1>1, <1>2, <1>3, <1>4 DEF Outstanding, OutstandingAfter

\* A confirmation moves the balance, or is the payment in full.
LEMMA PaymentIsPayInFull ==
    ASSUME TypeOK, TypeOK', IInv, NEW amount \in 1..MaxPaid, NEW allocated \in BOOLEAN,
           ConfirmTransaction(amount, allocated)
    PROVE  Case!Next
<1>1. Outstanding' \in Nat
  BY NextBalance
<1>2. UNCHANGED <<deleted, closure, auto>> /\ status \in {"ACTIVE", "BAD_DEBT_PROPOSED"}
  BY DEF ConfirmTransaction, PaymentAcceptingLoanStatuses
<1>3. CASE UNCHANGED <<status, proposal>>
  <2>1. UNCHANGED InQueue
    BY <1>2, <1>3, SameQueue
  <2> QED
    BY <1>1, <1>2, <1>3, <2>1 DEF Case!Next, Case!MoveMoney, Case!Recount
<1>4. CASE /\ OutstandingAfter(IF allocated THEN paid' ELSE paid) = 0
           /\ status' = "AWAITING_CLOSURE"
           /\ IF status = "BAD_DEBT_PROPOSED" THEN WithdrawAutoProposalOnFullPayment
                                              ELSE UNCHANGED proposal
  <2>1. Outstanding' = 0
    BY <1>4, NothingLeft
  <2>2. InQueue' = IF InQueue = "system" THEN "nobody" ELSE InQueue
    <3>1. CASE status = "BAD_DEBT_PROPOSED"
      BY <1>2, <1>4, <3>1, FullPaymentClearsQueue DEF IInv
    <3>2. CASE status = "ACTIVE"
      <4>1. OpenProposals = {}
        BY <3>2 DEF IInv, Queue, NoOpenProposalOnRunningLoan
      <4>2. UNCHANGED InQueue
        BY <1>2, <1>4, <3>2, SameQueue
      <4> QED
        BY <4>1, <4>2, CaseView
    <3> QED
      BY <1>2, <3>1, <3>2
  <2> QED
    BY <1>2, <1>4, <2>1, <2>2 DEF Case!Next, Case!PayInFull
<1> QED
  BY <1>3, <1>4 DEF ConfirmTransaction

\* A closure writes what its type allows: nothing off, a part of the balance, or all of it.
LEMMA ClosureIsClose ==
    ASSUME TypeOK, NEW type \in ClosureType, NEW settlement \in 0..Outstanding,
           CloseLoan(type, settlement)
    PROVE  Case!Next
<1>1. UNCHANGED <<deleted, base, paid, late, capped, proposal, auto>>
  BY DEF CloseLoan, moneyVars, proposalVars
<1>2. UNCHANGED InQueue /\ UNCHANGED Outstanding
  BY <1>1, SameQueue, SameBalance
<1>3. ~deleted /\ status \in {"ACTIVE", "AWAITING_CLOSURE", "BAD_DEBT_PROPOSED"}
  BY DEF CloseLoan, CloseableStatuses
<1>4. closure = Case!Unclosed
  BY DEF CloseLoan, NoClosure, Case!Unclosed
<1>5. Outstanding \in Nat
  BY CaseView
<1>6. CASE /\ type \in {"NORMAL_TENURE", "EARLY_FORECLOSURE"}
           /\ Outstanding = 0
           /\ WriteClosure(type, 0, "CLOSED")
  BY <1>1, <1>2, <1>3, <1>4, <1>6 DEF WriteClosure, Case!Next, Case!Close
<1>7. CASE type = "NEGOTIATED_SETTLEMENT" /\ WriteClosure(type, Outstanding - settlement, "CLOSED")
  <2>1. Outstanding - settlement \in 0..Outstanding
    BY <1>5
  <2> QED
    BY <1>1, <1>2, <1>3, <1>4, <1>7, <2>1 DEF WriteClosure, Case!Next, Case!Close
<1>8. CASE type = "WRITE_OFF" /\ WriteClosure(type, Outstanding, "BAD_DEBT")
  BY <1>1, <1>2, <1>3, <1>4, <1>8 DEF WriteClosure, Case!Next, Case!Close
<1> QED
  BY <1>6, <1>7, <1>8 DEF CloseLoan

\* A review decides the open proposal, which is the only one.
LEMMA ReviewIsReview ==
    ASSUME TypeOK, IInv, NEW s \in Sessions, ReviewApprove(s) \/ ReviewReject(s)
    PROVE  Case!Next
<1>1. req[s].pid \in OpenProposals
  <2>1. req[s].op = "review"
    BY DEF ReviewApprove, ReviewReject
  <2>2. req[s].pid \in Proposals
    BY <2>1, RequestTarget DEF TypeOK
  <2> QED
    BY <2>1, <2>2 DEF IInv, ReadsHold, ReadHolds, OpenProposals
<1>2. InQueue # "nobody"
  BY <1>1, CaseView
<1>3. InQueue' = "nobody"
  <2>1. PICK d \in {"APPROVED", "REJECTED"} : proposal' = [proposal EXCEPT ![req[s].pid] = d]
    BY DEF ReviewApprove, ReviewReject
  <2>2. OpenProposals' = {}
    BY <1>1, <2>1, DecidesTheOnlyOne DEF IInv
  <2> QED
    BY <2>2, EmptyQueue
<1>4. /\ ~deleted
      /\ status' \in {status, "ACTIVE"}
      /\ UNCHANGED <<deleted, closure, base, paid, late, capped>>
  BY DEF ReviewApprove, ReviewReject, loanVars, moneyVars
<1>5. UNCHANGED Outstanding
  BY <1>4, SameBalance
<1> QED
  BY <1>2, <1>3, <1>4, <1>5 DEF Case!Next, Case!Review

\* A reopening puts a loan that is still proposed back into the queue.
LEMMA ReopenIsPropose ==
    ASSUME TypeOK, IInv, NEW s \in Sessions, Reopen(s)
    PROVE  Case!Next
<1> DEFINE p == req[s].pid
<1>1. p \in Proposals /\ proposal[p] = "APPROVED"
  <2>1. req[s].op = "reopen"
    BY DEF Reopen
  <2> QED
    BY <2>1, RequestTarget DEF TypeOK, IInv, ReadsHold, ReadHolds
<1>2. proposal' = [proposal EXCEPT ![p] = "PROPOSED"] /\ OpenProposals \subseteq {p}
  BY DEF Reopen
<1> HIDE DEF p
<1>3. InQueue = "nobody"
  <2>1. OpenProposals = {}
    BY <1>1, <1>2 DEF OpenProposals
  <2> QED
    BY <2>1, CaseView
<1>4. InQueue' \in {"user", "system"}
  <2>1. p \in OpenProposals'
    BY <1>1, <1>2 DEF TypeOK, OpenProposals
  <2> QED
    BY <2>1 DEF InQueue
<1>5. /\ ~deleted /\ status = "BAD_DEBT_PROPOSED"
      /\ UNCHANGED <<status, deleted, closure, base, paid, late, capped>>
  BY DEF Reopen, loanVars, moneyVars
<1>6. UNCHANGED Outstanding
  BY <1>5, SameBalance
<1> QED
  BY <1>3, <1>4, <1>5, <1>6 DEF Case!Next, Case!Propose

\* Without overlap, and while nobody writes the status directly, the requests on a loan
\* implement LoanCase: the table of proposals acts as one place in a queue, the system takes
\* back only what it proposed itself, a closed loan is left only by a rejection, a deleted
\* one moves only by payments, and what is written off is what was left to pay.
THEOREM RequestsImplementLoanCase ==
    ASSUME ~Overlap, PatchedStatuses = {}
    PROVE  Spec => ImplementsLoanCase
<1>1. Init => Case!Init
  <2> SUFFICES ASSUME Init PROVE Case!Init
    OBVIOUS
  <2>1. Outstanding \in Nat
    <3>1. base \in Nat
      BY ConstantsAssumption DEF Init
    <3> QED
      BY <3>1 DEF Init, Outstanding, OutstandingAfter, Payable
  <2>2. InQueue = "nobody"
    BY DEF Init, InQueue, OpenProposals
  <2> QED
    BY <2>1, <2>2 DEF Init, NoClosure, Case!Init, Case!Unclosed
<1>2. TypeOK /\ TypeOK' /\ IInv /\ [Next]_vars => [Case!Next]_(Case!caseVars)
  <2> SUFFICES ASSUME TypeOK, TypeOK', IInv, [Next]_vars
               PROVE  Case!Next \/ UNCHANGED Case!caseVars
    OBVIOUS
  <2>1. Outstanding' \in Nat
    BY NextBalance
  <2>2. ASSUME UNCHANGED <<status, deleted, closure, proposal, auto>> PROVE Case!Next
    BY <2>1, <2>2, SameQueue DEF Case!Next, Case!MoveMoney, Case!Recount
  <2>3. ASSUME NEW s \in Sessions,
               \/ LoadForApprove(s) \/ LoadForEdit(s) \/ LoadForDelete(s)
               \/ LoadForNightly(s) \/ Refuse(s) \/ NightlyNothingCapped(s)
               \/ \E p \in Proposals : LoadForReview(s, p) \/ LoadForReopen(s, p)
        PROVE  Case!Next
    BY <2>2, <2>3, ReadsChangeNothing DEF loanVars, proposalVars
  <2>4. ASSUME NEW s \in Sessions, Approve(s) PROVE Case!Next
    <3>1. status = "DRAFT" /\ ~deleted
      BY <2>4 DEF Approve, IInv, ReadsHold, ReadHolds
    <3>2. UNCHANGED <<deleted, closure, proposal, auto>> /\ status' \in {status, "ACTIVE"}
      BY <2>4 DEF Approve, loanVars, proposalVars
    <3>3. CASE status' = "ACTIVE"
      BY <2>1, <3>1, <3>2, <3>3, SameQueue DEF Case!Next, Case!Approve, Case!Recount
    <3> QED
      BY <2>2, <3>2, <3>3
  <2>5. ASSUME NEW s \in Sessions, UpdateLoan(s) PROVE Case!Next
    BY <2>2, <2>5 DEF UpdateLoan, proposalVars
  <2>6. ASSUME NEW s \in Sessions, SoftDeleteLoan(s) PROVE Case!Next \/ UNCHANGED Case!caseVars
    <3>1. status # "ACTIVE" /\ deleted' = TRUE
      BY <2>6 DEF SoftDeleteLoan, IInv, ReadsHold, ReadHolds
    <3>2. UNCHANGED <<status, closure, proposal, auto, base, paid, late, capped>>
      BY <2>6 DEF SoftDeleteLoan, moneyVars, proposalVars
    <3>3. UNCHANGED InQueue /\ UNCHANGED Outstanding
      BY <3>2, SameQueue, SameBalance
    <3>4. CASE ~deleted
      BY <3>1, <3>2, <3>3, <3>4 DEF Case!Next, Case!Delete
    <3>5. CASE deleted
      BY <3>1, <3>2, <3>5, <2>2 DEF TypeOK
    <3> QED
      BY <3>4, <3>5
  <2>7. ASSUME NEW s \in Sessions, ReviewApprove(s) \/ ReviewReject(s) PROVE Case!Next
    BY <2>7, ReviewIsReview
  <2>8. ASSUME NEW s \in Sessions, Reopen(s) PROVE Case!Next
    BY <2>8, ReopenIsPropose
  <2>9. ASSUME NEW s \in Sessions, NightlyCap(s) PROVE Case!Next
    <3>1. req[s].seen = status /\ ~deleted
      BY <2>9 DEF NightlyCap, IInv, ReadsHold, ReadHolds
    <3> QED
      BY <2>9, <3>1, AutoProposeIsPropose DEF NightlyCap
  <2>10. CASE Propose
    <3>1. InsertProposal(FALSE, status)
      BY <2>10 DEF Propose
    <3>2. InQueue = "nobody" /\ InQueue' \in {"user", "system"}
      BY <2>10, <3>1, CaseView, InsertEntersQueue DEF Propose
    <3>3. UNCHANGED Outstanding
      BY <2>10, SameBalance DEF Propose, moneyVars
    <3>4. status' = "BAD_DEBT_PROPOSED"
      BY <3>1 DEF InsertProposal
    <3> QED
      BY <2>10, <3>2, <3>3, <3>4 DEF Propose, Terminal, Case!Next, Case!Propose
  <2>11. CASE ClassifyLate
    BY <2>2, <2>11 DEF ClassifyLate, loanVars, proposalVars
  <2>12. CASE ClassifyCapped \/ ReclassifyCapped
    BY <2>12, AutoProposeIsPropose DEF ClassifyCapped, ReclassifyCapped
  <2>13. CASE ReclassifyDown
    BY <2>13, WithdrawalIsWithdraw DEF ReclassifyDown, IInv
  <2>14. ASSUME NEW amount \in 1..MaxPaid, NEW allocated \in BOOLEAN,
                ConfirmTransaction(amount, allocated)
         PROVE  Case!Next
    BY <2>14, PaymentIsPayInFull
  <2>15. ASSUME NEW p \in 0..MaxPaid, EditLedger(p) PROVE Case!Next
    BY <2>2, <2>15 DEF EditLedger, loanVars, proposalVars
  <2>16. ASSUME NEW type \in ClosureType, NEW settlement \in 0..Outstanding,
                CloseLoan(type, settlement)
         PROVE  Case!Next
    BY <2>16, ClosureIsClose
  <2>17. CASE UNCHANGED vars
    BY <2>2, <2>17 DEF vars, loanVars, proposalVars
  <2> QED
    BY <2>3, <2>4, <2>5, <2>6, <2>7, <2>8, <2>9, <2>10, <2>11, <2>12, <2>13, <2>14,
       <2>15, <2>16, <2>17, NextCases
<1> QED
  BY <1>1, <1>2, SerialInvariant, TypeCorrect, PTL DEF Spec, ImplementsLoanCase, Case!Spec
-----------------------------------------------------------------------------
(***************************************************************************)
(* What is left of the two claims of the documentation that the code does  *)
(* not keep: the rejection of a proposal is the only way to break them.    *)
(***************************************************************************)

\* "No ACTIVE loan lacks a schedule" (models/loan.py), but for the rejection of a proposal:
\* however requests overlap, no other step makes an unscheduled loan ACTIVE.
THEOREM UnscheduledOnlyByRejection ==
    ASSUME PatchedStatuses = {}
    PROVE  Spec => [][ActiveLoanHasSchedule =>
                        ActiveLoanHasSchedule' \/ \E s \in Sessions : ReviewReject(s)]_vars
<1> DEFINE Rejection == \E s \in Sessions : ReviewReject(s)
<1>1. ASSUME TypeOK, [Next]_vars, ActiveLoanHasSchedule, ~Rejection
      PROVE  ActiveLoanHasSchedule'
  <2> USE <1>1 DEF ActiveLoanHasSchedule
  <2>1. ASSUME UNCHANGED loanVars PROVE ActiveLoanHasSchedule'
    BY <2>1 DEF loanVars
  <2>2. ASSUME NEW s \in Sessions,
               \/ LoadForApprove(s) \/ LoadForEdit(s) \/ LoadForDelete(s)
               \/ LoadForNightly(s) \/ Refuse(s) \/ NightlyNothingCapped(s)
               \/ \E p \in Proposals : LoadForReview(s, p) \/ LoadForReopen(s, p)
        PROVE  ActiveLoanHasSchedule'
    BY <2>1, <2>2, ReadsChangeNothing
  <2>3. ASSUME NEW s \in Sessions, Approve(s) PROVE ActiveLoanHasSchedule'
    BY <2>1, <2>3 DEF Approve
  <2>4. ASSUME NEW s \in Sessions, UpdateLoan(s) \/ SoftDeleteLoan(s)
        PROVE  ActiveLoanHasSchedule'
    BY <2>4 DEF UpdateLoan, SoftDeleteLoan
  <2>5. ASSUME NEW s \in Sessions, ReviewApprove(s) \/ Reopen(s) PROVE ActiveLoanHasSchedule'
    BY <2>1, <2>5 DEF ReviewApprove, Reopen
  <2>6. ASSUME NEW seen, AutoProposeBadDebt(seen), UNCHANGED scheduled
        PROVE  ActiveLoanHasSchedule'
    BY <2>6 DEF AutoProposeBadDebt, InsertProposal
  <2>7. ASSUME NEW s \in Sessions, NightlyCap(s) PROVE ActiveLoanHasSchedule'
    BY <2>6, <2>7 DEF NightlyCap
  <2>8. CASE Propose
    BY <2>8 DEF Propose, InsertProposal
  <2>9. CASE ClassifyLate
    BY <2>1, <2>9 DEF ClassifyLate
  <2>10. CASE ClassifyCapped \/ ReclassifyCapped
    BY <2>6, <2>10 DEF ClassifyCapped, ReclassifyCapped
  <2>11. CASE ReclassifyDown
    BY <2>11 DEF ReclassifyDown
  <2>12. ASSUME NEW amount \in 1..MaxPaid, NEW allocated \in BOOLEAN,
                ConfirmTransaction(amount, allocated)
         PROVE  ActiveLoanHasSchedule'
    BY <2>12 DEF ConfirmTransaction
  <2>13. ASSUME NEW p \in 0..MaxPaid, EditLedger(p) PROVE ActiveLoanHasSchedule'
    BY <2>1, <2>13 DEF EditLedger
  <2>14. ASSUME NEW type \in ClosureType, NEW settlement \in 0..Outstanding,
                CloseLoan(type, settlement)
         PROVE  ActiveLoanHasSchedule'
    BY <2>14 DEF CloseLoan, WriteClosure
  <2>15. CASE UNCHANGED vars
    BY <2>1, <2>15 DEF vars
  <2> QED
    BY <2>2, <2>3, <2>4, <2>5, <2>7, <2>8, <2>9, <2>10, <2>11, <2>12, <2>13, <2>14, <2>15,
       NextCases
<1>2. TypeOK /\ [Next]_vars => [ActiveLoanHasSchedule => ActiveLoanHasSchedule' \/ Rejection]_vars
  BY <1>1
<1> QED
  BY <1>2, TypeCorrect, PTL DEF Spec

\* "Into a terminal state" (loan_closure.py), but for the rejection of a proposal: without
\* overlap no other step takes a loan out of CLOSED or BAD_DEBT.  An approval and the
\* nightly job, which could do so with what they had read before the closure, act on what
\* still holds.
THEOREM TerminalLeftOnlyByRejection ==
    ASSUME ~Overlap, PatchedStatuses = {}
    PROVE  Spec => [][(status \in Terminal /\ status' \notin Terminal) =>
                        (\E s \in Sessions : ReviewReject(s))]_vars
<1> DEFINE Rejection == \E s \in Sessions : ReviewReject(s)
<1>1. ASSUME TypeOK, IInv, NEW s \in Sessions, Approve(s), status \in Terminal
      PROVE  FALSE
  BY <1>1 DEF IInv, ReadsHold, ReadHolds, Approve, Terminal
<1>2. ASSUME TypeOK, IInv, NEW s \in Sessions, NightlyCap(s), status \in Terminal
      PROVE  status' \in Terminal
  <2>1. AutoProposeBadDebt(status)
    BY <1>2 DEF IInv, ReadsHold, ReadHolds, NightlyCap
  <2> QED
    BY <1>2, <2>1 DEF AutoProposeBadDebt
<1>3. TypeOK /\ IInv
      /\ [(status \in Terminal /\ status' \notin Terminal) =>
            (\E s \in Sessions : ReviewReject(s) \/ Approve(s) \/ NightlyCap(s))]_vars
      => [(status \in Terminal /\ status' \notin Terminal) => Rejection]_vars
  BY <1>1, <1>2
<1> QED
  BY <1>3, SerialInvariant, TypeCorrect, TerminalLeftOnlyByThose, PTL
     DEF TerminalLeftOnlyByRejectOrStaleRead
=============================================================================
