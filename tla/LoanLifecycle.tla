--------------------------- MODULE LoanLifecycle ---------------------------
(***************************************************************************)
(* The life of one loan in the finance-erp backend: approval, bad-debt     *)
(* proposals and their review, penalties at the cap, payments, closure and *)
(* deletion, as the requests of several users and the nightly job          *)
(* interleave.                                                             *)
(*                                                                         *)
(* Every request runs in one READ COMMITTED transaction.  A handler that   *)
(* opens with SELECT .. FOR UPDATE on the loan row is one action here.  A  *)
(* handler that first reads a row WITHOUT the lock and later acts on what  *)
(* it read is two actions: Load..., which remembers what was seen in       *)
(* req[s], and the step that acts on it.  Between the two, other requests  *)
(* commit (unless Overlap = FALSE).                                        *)
(*                                                                         *)
(* Money is counted in small units: every penalty adds one unit to what is *)
(* payable, and PaymentLedger models the transactions behind `paid`.       *)
(***************************************************************************)
EXTENDS Integers, FiniteSets

CONSTANTS
    Sessions,        \* requests that can be in flight between read and write
    Proposals,       \* rows the table bad_debt_proposals can hold
    MaxTerms,        \* bound: largest schedule total, in units
    MaxPaid,         \* bound: largest sum of SUCCESS payments, in units
    MaxEvents,       \* bound: active penalty events on the loan
    Overlap,         \* may requests on this loan overlap in time?
    AutoPropose,     \* settings.NIGHTLY_AUTO_PROPOSE_BAD_DEBT
    PatchedStatuses  \* values of `status` clients send in PATCH /loans/{id}

ASSUME ConstantsAssumption ==
    /\ MaxTerms \in Nat \ {0} /\ MaxPaid \in Nat /\ MaxEvents \in Nat
    /\ Overlap \in BOOLEAN /\ AutoPropose \in BOOLEAN

LoanStatus == {"DRAFT", "ACTIVE", "AWAITING_CLOSURE", "CLOSED",
               "BAD_DEBT_PROPOSED", "BAD_DEBT"}
Terminal == {"CLOSED", "BAD_DEBT"}
ClosureType == {"NORMAL_TENURE", "EARLY_FORECLOSURE",
                "NEGOTIATED_SETTLEMENT", "WRITE_OFF"}

\* services/transaction.py, services/loan_closure.py, routes/loans.py and the nightly job
PaymentAcceptingLoanStatuses == {"ACTIVE", "BAD_DEBT_PROPOSED"}
CloseableStatuses == {"ACTIVE", "AWAITING_CLOSURE", "BAD_DEBT_PROPOSED"}
EditableLoanStatuses == {"DRAFT", "ACTIVE"}
ActiveStatuses == {"ACTIVE", "AWAITING_CLOSURE", "BAD_DEBT_PROPOSED"}

ASSUME PatchAssumption == PatchedStatuses \subseteq LoanStatus

VARIABLES
    status,        \* loans.status
    deleted,       \* loans.is_deleted
    scheduled,     \* does the loan have its due_cycles rows?
    base,          \* schedule total from principal, rate and tenure; 0: unset
    downPayments,  \* number of DOWN_PAYMENT transactions
    paid,          \* sum of the SUCCESS transactions
    late,          \* active penalty events below the cap
    capped,        \* active penalty events with cap_hit
    proposal,      \* status of each bad_debt_proposals row, "none": no row
    auto,          \* the proposals with auto_proposed
    closure,       \* the active loan_closures row
    req            \* what each in-flight request has read

loanVars == <<status, deleted, scheduled, base>>
moneyVars == <<downPayments, paid, late, capped>>
proposalVars == <<proposal, auto>>
vars == <<loanVars, moneyVars, proposalVars, closure, req>>

NoClosure == [type |-> "none", writtenOff |-> 0]
Closures == [type : ClosureType, writtenOff : Nat] \cup {NoClosure}

Idle == [op |-> "idle"]
Requests == [op : {"idle", "approve", "delete"}]
            \cup [op : {"review", "reopen"}, pid : Proposals]
            \cup [op : {"edit", "nightly"}, seen : LoanStatus]

TypeOK ==
    /\ status \in LoanStatus
    /\ deleted \in BOOLEAN
    /\ scheduled \in BOOLEAN
    /\ base \in Nat
    /\ downPayments \in Nat
    /\ paid \in Nat
    /\ late \in Nat
    /\ capped \in Nat
    /\ proposal \in [Proposals -> {"none", "PROPOSED", "APPROVED", "REJECTED"}]
    /\ auto \subseteq Proposals
    /\ closure \in Closures
    /\ req \in [Sessions -> Requests]

\* get_loan_transaction_summary: outstanding = max(total_payable - total_paid, 0)
Payable == base + late + capped
OutstandingAfter(p) == IF Payable > p THEN Payable - p ELSE 0
Outstanding == OutstandingAfter(paid)

\* get_open_proposal
OpenProposals == {p \in Proposals : proposal[p] = "PROPOSED"}

\* With Overlap = FALSE a request starts only when no other is in flight.
MayStart == Overlap \/ \A s \in Sessions : req[s] = Idle

Begin(s, r) ==
    /\ req[s] = Idle
    /\ MayStart
    /\ req' = [req EXCEPT ![s] = r]
    /\ UNCHANGED <<loanVars, moneyVars, proposalVars, closure>>

Done(s) == req' = [req EXCEPT ![s] = Idle]

\* create_loan: a DRAFT whose financial terms may still be unset
Init ==
    /\ status = "DRAFT"
    /\ deleted = FALSE
    /\ scheduled = FALSE
    /\ base \in 0..MaxTerms
    /\ downPayments = 0
    /\ paid = 0
    /\ late = 0
    /\ capped = 0
    /\ proposal = [p \in Proposals |-> "none"]
    /\ auto = {}
    /\ closure = NoClosure
    /\ req = [s \in Sessions |-> Idle]
-----------------------------------------------------------------------------
(* Approval, edits and deletion: none of them locks the loan row.          *)

LoadForApprove(s) ==
    /\ ~deleted
    /\ status = "DRAFT"
    /\ base > 0
    /\ Begin(s, [op |-> "approve"])

\* Mutant of Approve: nothing refuses the second approval of the same draft.
ApproveTwice(s) ==
    /\ req[s].op = "approve"
    /\ Done(s)
    /\ status' = "ACTIVE"
    /\ scheduled' = TRUE
    /\ paid' = paid + 1
    /\ downPayments' = downPayments + 1
    /\ UNCHANGED <<deleted, base, late, capped, proposalVars, closure>>

\* approve_loan: the due_cycles rows are unique per (loan, cycle_number), so a
\* second approval of the same loan is refused or fails on them and rolls back.
Approve(s) ==
    /\ req[s].op = "approve"
    /\ Done(s)
    /\ \/ /\ ~scheduled
          /\ status' = "ACTIVE"
          /\ scheduled' = TRUE
          /\ \E dp \in 0..1 :
                /\ dp <= MaxPaid
                /\ paid' = paid + dp
                /\ downPayments' = downPayments + dp
          /\ UNCHANGED <<deleted, base, late, capped>>
       \/ /\ scheduled
          /\ UNCHANGED <<loanVars, moneyVars>>
    /\ UNCHANGED <<proposalVars, closure>>

LoadForEdit(s) ==
    /\ ~deleted
    /\ status \in EditableLoanStatuses
    /\ Begin(s, [op |-> "edit", seen |-> status])

\* update_loan writes the fields of the body that differ from what it read over
\* whatever the row holds by now; LoanUpdate accepts `status` as such a field.
UpdateLoan(s) ==
    /\ req[s].op = "edit"
    /\ Done(s)
    /\ \/ base' \in 0..MaxTerms /\ UNCHANGED status
       \/ status' \in PatchedStatuses \ {req[s].seen} /\ UNCHANGED base
    /\ UNCHANGED <<deleted, scheduled, moneyVars, proposalVars, closure>>

\* Mutant of LoadForDelete: the route forgets to refuse ACTIVE loans.
LoadAnyForDelete(s) == ~deleted /\ Begin(s, [op |-> "delete"])

LoadForDelete(s) ==
    /\ ~deleted
    /\ status # "ACTIVE"
    /\ Begin(s, [op |-> "delete"])

SoftDeleteLoan(s) ==
    /\ req[s].op = "delete"
    /\ Done(s)
    /\ deleted' = TRUE
    /\ UNCHANGED <<status, scheduled, base, moneyVars, proposalVars, closure>>
-----------------------------------------------------------------------------
(* Bad-debt proposals.                                                     *)

\* The insert and the status change of propose_bad_debt.  `seen` is the loan
\* status the session holds in memory: the ORM writes the column only when it
\* changes.
InsertProposal(isAuto, seen) ==
    \E p \in Proposals :
        /\ proposal[p] = "none"
        /\ proposal' = [proposal EXCEPT ![p] = "PROPOSED"]
        /\ auto' = IF isAuto THEN auto \cup {p} ELSE auto
        /\ status' = IF seen = "BAD_DEBT_PROPOSED" THEN status
                     ELSE "BAD_DEBT_PROPOSED"

\* POST /loans/{id}/bad-debt/propose
Propose ==
    /\ MayStart
    /\ ~deleted
    /\ status \notin Terminal
    /\ OpenProposals = {}
    /\ InsertProposal(FALSE, status)
    /\ UNCHANGED <<deleted, scheduled, base, moneyVars, closure, req>>

\* The proposal is read and only then the loan is locked.
LoadForReview(s, p) ==
    /\ proposal[p] = "PROPOSED"
    /\ Begin(s, [op |-> "review", pid |-> p])

\* Mutant of LoadForReopen: any decided proposal may be reopened.
LoadDecidedForReopen(s, p) ==
    /\ proposal[p] \in {"APPROVED", "REJECTED"}
    /\ Begin(s, [op |-> "reopen", pid |-> p])

LoadForReopen(s, p) ==
    /\ proposal[p] = "APPROVED"
    /\ Begin(s, [op |-> "reopen", pid |-> p])

ReviewApprove(s) ==
    /\ req[s].op = "review"
    /\ ~deleted
    /\ Done(s)
    /\ proposal' = [proposal EXCEPT ![req[s].pid] = "APPROVED"]
    /\ UNCHANGED <<loanVars, moneyVars, auto, closure>>

\* The loan goes back to ACTIVE whatever its status is.
ReviewReject(s) ==
    /\ req[s].op = "review"
    /\ ~deleted
    /\ Done(s)
    /\ proposal' = [proposal EXCEPT ![req[s].pid] = "REJECTED"]
    /\ status' = "ACTIVE"
    /\ UNCHANGED <<deleted, scheduled, base, moneyVars, auto, closure>>

\* Mutant of Reopen: without the check for another open proposal.
ReopenUnchecked(s) ==
    /\ req[s].op = "reopen"
    /\ ~deleted
    /\ status = "BAD_DEBT_PROPOSED"
    /\ Done(s)
    /\ proposal' = [proposal EXCEPT ![req[s].pid] = "PROPOSED"]
    /\ UNCHANGED <<loanVars, moneyVars, auto, closure>>

Reopen(s) ==
    /\ req[s].op = "reopen"
    /\ ~deleted
    /\ status = "BAD_DEBT_PROPOSED"
    /\ OpenProposals \subseteq {req[s].pid}
    /\ Done(s)
    /\ proposal' = [proposal EXCEPT ![req[s].pid] = "PROPOSED"]
    /\ UNCHANGED <<loanVars, moneyVars, auto, closure>>

\* A request refused after the lock: 400/404 and rollback.
Refuse(s) ==
    /\ \/ /\ req[s].op \in {"review", "reopen"}
          /\ deleted
       \/ /\ req[s].op = "reopen"
          /\ \/ status # "BAD_DEBT_PROPOSED"
             \/ ~ OpenProposals \subseteq {req[s].pid}
    /\ Done(s)
    /\ UNCHANGED <<loanVars, moneyVars, proposalVars, closure>>

\* auto_propose_bad_debt, called when a penalty event hits the cap: an open
\* proposal is enough, otherwise propose_bad_debt refuses terminal loans.
AutoProposeBadDebt(seen) ==
    \/ /\ OpenProposals # {}
       /\ UNCHANGED <<status, proposal, auto>>
    \/ /\ OpenProposals = {}
       /\ seen \notin Terminal
       /\ InsertProposal(TRUE, seen)
-----------------------------------------------------------------------------
(* Penalties: classify and reclassify hold the loan lock and do not look   *)
(* at the loan's status.                                                   *)

ClassifyLate ==
    /\ MayStart
    /\ ~deleted /\ scheduled
    /\ late + capped < MaxEvents
    /\ late' = late + 1
    /\ UNCHANGED <<loanVars, downPayments, paid, capped, proposalVars, closure, req>>

ClassifyCapped ==
    /\ MayStart
    /\ ~deleted /\ scheduled
    /\ late + capped < MaxEvents
    /\ capped' = capped + 1
    /\ AutoProposeBadDebt(status)
    /\ UNCHANGED <<deleted, scheduled, base, downPayments, paid, late, closure, req>>

\* Mutant of WithdrawAutoProposalIfNoCapRemains: the loan is left as it was.
WithdrawAndLeaveLoan ==
    LET open == OpenProposals \cap auto
    IN  /\ IF capped' = 0 /\ open # {}
           THEN proposal' = [p \in Proposals |->
                               IF p \in open THEN "REJECTED" ELSE proposal[p]]
           ELSE UNCHANGED proposal
        /\ UNCHANGED status

\* Mutant of WithdrawAutoProposalIfNoCapRemains: the loan becomes ACTIVE
\* whatever its status was.
WithdrawAndActivate ==
    LET open == OpenProposals \cap auto
    IN  IF capped' = 0 /\ open # {}
        THEN /\ proposal' = [p \in Proposals |->
                                IF p \in open THEN "REJECTED" ELSE proposal[p]]
             /\ status' = "ACTIVE"
        ELSE UNCHANGED <<proposal, status>>

\* Mutant of WithdrawAutoProposalIfNoCapRemains: the loan runs again but the
\* proposal stays in the queue.
ActivateAndForgetProposal ==
    /\ status' = IF capped' = 0 /\ OpenProposals \cap auto # {} /\ status = "BAD_DEBT_PROPOSED"
                 THEN "ACTIVE" ELSE status
    /\ UNCHANGED proposal

\* Mutant of WithdrawAutoProposalIfNoCapRemains: also takes back what a user proposed.
WithdrawAnyProposal ==
    IF capped' = 0 /\ OpenProposals # {}
    THEN /\ proposal' = [p \in Proposals |->
                            IF p \in OpenProposals THEN "REJECTED" ELSE proposal[p]]
         /\ status' = IF status = "BAD_DEBT_PROPOSED" THEN "ACTIVE" ELSE status
    ELSE UNCHANGED <<proposal, status>>

\* _withdraw_auto_proposal_if_no_cap_remains
WithdrawAutoProposalIfNoCapRemains ==
    LET open == OpenProposals \cap auto
    IN  IF capped' = 0 /\ open # {}
        THEN /\ proposal' = [p \in Proposals |->
                                IF p \in open THEN "REJECTED" ELSE proposal[p]]
             /\ status' = IF status = "BAD_DEBT_PROPOSED" THEN "ACTIVE" ELSE status
        ELSE UNCHANGED <<proposal, status>>

\* Mutant of ReclassifyDown: supersedes an event the cycle does not have.
ReclassifyDownUnchecked ==
    /\ MayStart
    /\ ~deleted /\ scheduled
    /\ late' = late - 1
    /\ capped' = capped
    /\ WithdrawAutoProposalIfNoCapRemains
    /\ UNCHANGED <<deleted, scheduled, base, downPayments, paid, auto, closure, req>>

\* reclassify_cycle to PAID_ON_TIME or to a penalty below the cap: the cycle's
\* active event (if it has one) is superseded, a new one may replace it.
ReclassifyDown ==
    /\ MayStart
    /\ ~deleted /\ scheduled
    /\ \E oldLate, oldCapped, newLate \in 0..1 :
          /\ oldLate + oldCapped <= 1
          /\ late >= oldLate /\ capped >= oldCapped
          /\ late' = late - oldLate + newLate
          /\ capped' = capped - oldCapped
          /\ late' + capped' <= MaxEvents
    /\ WithdrawAutoProposalIfNoCapRemains
    /\ UNCHANGED <<deleted, scheduled, base, downPayments, paid, auto, closure, req>>

\* reclassify_cycle to a penalty at the cap
ReclassifyCapped ==
    /\ MayStart
    /\ ~deleted /\ scheduled
    /\ \E oldLate, oldCapped \in 0..1 :
          /\ oldLate + oldCapped <= 1
          /\ late >= oldLate /\ capped >= oldCapped
          /\ late' = late - oldLate
          /\ capped' = capped - oldCapped + 1
          /\ late' + capped' <= MaxEvents
    /\ AutoProposeBadDebt(status)
    /\ UNCHANGED <<deleted, scheduled, base, downPayments, paid, closure, req>>

\* run_once: the loan object is in the session before its row is locked, and
\* the locked query does not refresh it.
LoadForNightly(s) ==
    /\ ~deleted /\ scheduled
    /\ status \in ActiveStatuses
    /\ Begin(s, [op |-> "nightly", seen |-> status])

NightlyCap(s) ==
    /\ req[s].op = "nightly"
    /\ AutoPropose
    /\ late + capped < MaxEvents
    /\ Done(s)
    /\ capped' = capped + 1
    /\ AutoProposeBadDebt(req[s].seen)
    /\ UNCHANGED <<deleted, scheduled, base, downPayments, paid, late, closure>>

NightlyNothingCapped(s) ==
    /\ req[s].op = "nightly"
    /\ Done(s)
    /\ UNCHANGED <<loanVars, moneyVars, proposalVars, closure>>
-----------------------------------------------------------------------------
(* Payments and closure.                                                   *)

\* Mutant of WithdrawAutoProposalOnFullPayment: the proposal lingers.
LeaveProposalOnFullPayment == UNCHANGED proposal

\* withdraw_auto_proposal_on_full_payment
WithdrawAutoProposalOnFullPayment ==
    proposal' = [p \in Proposals |->
                    IF p \in OpenProposals \cap auto THEN "REJECTED" ELSE proposal[p]]

\* confirm_transaction.  A payment without a due cycle is not flushed before
\* the outstanding balance is read again, so that balance does not include it.
ConfirmTransaction(amount, allocated) ==
    /\ MayStart
    /\ scheduled
    /\ status \in PaymentAcceptingLoanStatuses
    /\ paid + amount <= MaxPaid
    /\ paid' = paid + amount
    /\ LET balance == OutstandingAfter(IF allocated THEN paid' ELSE paid)
       IN  \/ /\ balance > 0
              /\ UNCHANGED <<status, proposal>>
           \/ /\ balance = 0
              /\ status' = "AWAITING_CLOSURE"
              /\ IF status = "BAD_DEBT_PROPOSED"
                 THEN WithdrawAutoProposalOnFullPayment
                 ELSE UNCHANGED proposal
    /\ UNCHANGED <<deleted, scheduled, base, downPayments, late, capped, auto, closure, req>>

\* update_transaction, soft_delete_transaction and restore_transaction of a
\* SUCCESS payment: the sum moves, the loan's status does not.
EditLedger(p) ==
    /\ MayStart
    /\ ~deleted /\ scheduled
    /\ p # paid
    /\ paid' = p
    /\ UNCHANGED <<loanVars, downPayments, late, capped, proposalVars, closure, req>>

\* Mutant of WriteClosure: the status flips without the closure row.
FlipStatusOnly(type, writtenOff, newStatus) ==
    /\ closure' = closure
    /\ status' = newStatus

WriteClosure(type, writtenOff, newStatus) ==
    /\ closure' = [type |-> type, writtenOff |-> writtenOff]
    /\ status' = newStatus

\* Mutant of CloseLoan: without the check for an active closure.
CloseLoanAgain(type, settlement) ==
    /\ MayStart
    /\ ~deleted
    /\ status \in CloseableStatuses
    /\ \/ /\ type = "NEGOTIATED_SETTLEMENT"
          /\ settlement <= Outstanding
          /\ WriteClosure(type, Outstanding - settlement, "CLOSED")
       \/ /\ type = "WRITE_OFF"
          /\ settlement = 0
          /\ WriteClosure(type, Outstanding, "BAD_DEBT")
    /\ UNCHANGED <<deleted, scheduled, base, moneyVars, proposalVars, req>>

\* close_loan: settlement is the final_settlement_amount of the form
CloseLoan(type, settlement) ==
    /\ MayStart
    /\ ~deleted
    /\ status \in CloseableStatuses
    /\ closure = NoClosure
    /\ \/ /\ type \in {"NORMAL_TENURE", "EARLY_FORECLOSURE"}
          /\ Outstanding = 0
          /\ WriteClosure(type, 0, "CLOSED")
       \/ /\ type = "NEGOTIATED_SETTLEMENT"
          /\ settlement <= Outstanding
          /\ WriteClosure(type, Outstanding - settlement, "CLOSED")
       \/ /\ type = "WRITE_OFF"
          /\ settlement = 0
          /\ WriteClosure(type, Outstanding, "BAD_DEBT")
    /\ UNCHANGED <<deleted, scheduled, base, moneyVars, proposalVars, req>>
-----------------------------------------------------------------------------
SessionStep(s) ==
    \/ LoadForApprove(s) \/ Approve(s)
    \/ LoadForEdit(s) \/ UpdateLoan(s)
    \/ LoadForDelete(s) \/ SoftDeleteLoan(s)
    \/ \E p \in Proposals : LoadForReview(s, p) \/ LoadForReopen(s, p)
    \/ ReviewApprove(s) \/ ReviewReject(s) \/ Reopen(s) \/ Refuse(s)
    \/ LoadForNightly(s) \/ NightlyCap(s) \/ NightlyNothingCapped(s)

Next ==
    \/ \E s \in Sessions : SessionStep(s)
    \/ Propose
    \/ ClassifyLate \/ ClassifyCapped \/ ReclassifyDown \/ ReclassifyCapped
    \/ \E amount \in 1..MaxPaid, allocated \in BOOLEAN :
          ConfirmTransaction(amount, allocated)
    \/ \E p \in 0..MaxPaid : EditLedger(p)
    \/ \E type \in ClosureType, settlement \in 0..Outstanding :
          CloseLoan(type, settlement)

Spec == Init /\ [][Next]_vars
-----------------------------------------------------------------------------
(* Properties that hold however requests overlap.                          *)

\* A loan shown as BAD_DEBT_PROPOSED has a proposal an admin can still act on:
\* every path that rejects or withdraws the last one also moves the loan on
\* (review_proposal, the two withdraw helpers, reopen_proposal).
ProposedLoanHasLiveProposal ==
    status = "BAD_DEBT_PROPOSED" =>
        \E p \in Proposals : proposal[p] \in {"PROPOSED", "APPROVED"}

\* A terminal loan has the closure row that explains it: CLOSED with a payoff
\* or a settlement, BAD_DEBT with a write-off (close_loan is the only writer).
TerminalLoanHasItsClosure ==
    /\ status = "CLOSED" => closure.type \in ClosureType \ {"WRITE_OFF"}
    /\ status = "BAD_DEBT" => closure.type = "WRITE_OFF"

\* The checks under the loan lock (propose_bad_debt, reopen_proposal,
\* auto_propose_bad_debt) already keep one open proposal per loan: the unique
\* index uq_bad_debt_proposals_open never has to refuse a write.
OneOpenProposal == Cardinality(OpenProposals) <= 1

\* However many admins approve the same draft at once, its down payment is
\* recorded once, and no money is recorded on a loan without a schedule.
DownPaymentOnce ==
    /\ downPayments <= 1
    /\ paid > 0 => scheduled

\* A closure, with the amount it writes off, is decided once: no later request
\* replaces it, not even after a rejected proposal put the loan back to ACTIVE.
ClosureIsFinal == [][closure # NoClosure => closure' = closure]_vars

\* A loan leaves CLOSED or BAD_DEBT only through a REJECT review or through a
\* request that had read the loan before it was closed (an approval or the
\* nightly job): no request that looks at the locked row reopens it.
TerminalLeftOnlyByRejectOrStaleRead ==
    [][(status \in Terminal /\ status' \notin Terminal) =>
         (\E s \in Sessions : ReviewReject(s) \/ Approve(s) \/ NightlyCap(s))]_vars
-----------------------------------------------------------------------------
(* Properties that need requests not to overlap.                           *)

\* A loan nobody proposes any more has no proposal in the review queue.
NoOpenProposalOnRunningLoan ==
    status \in {"DRAFT", "ACTIVE"} => OpenProposals = {}

\* "A customer who clears the whole balance is, by definition, not a bad debt":
\* a loan that waits for closure has no automatic proposal in the queue.
AwaitingClosureHasNoAutoProposal ==
    status = "AWAITING_CLOSURE" => OpenProposals \cap auto = {}

\* "Cannot delete an ACTIVE loan": delete_loan_route refuses it.
ActiveLoanIsNotDeleted == deleted => status # "ACTIVE"

\* "Proposal is already ...; cannot review again": a rejection is final.
RejectedStaysRejected ==
    [][\A p \in Proposals :
          (proposal[p] = "REJECTED") => (proposal'[p] = "REJECTED")]_vars

\* The loan as LoanCase sees it: its one open proposal, and what is left to pay.
InQueue == IF OpenProposals = {} THEN "nobody"
           ELSE IF OpenProposals \cap auto # {} THEN "system" ELSE "user"

Case == INSTANCE LoanCase WITH queue <- InQueue, outstanding <- Outstanding

\* Requests one at a time come to what LoanCase describes: the table of proposals acts
\* as one place in a queue, a closed loan is left only by a rejection, a deleted one moves
\* only by payments, and every change of status has the cause its handler states
\* (routes/bad_debt.py, services/bad_debt.py, loan_closure.py, penalty.py, transaction.py).
ImplementsLoanCase == Case!Spec
-----------------------------------------------------------------------------
(* What the documentation says and the code does not keep.                 *)

\* loan_closure.py: closing is the transition "into a terminal state".
TerminalIsTerminal == [][(status \in Terminal) => (status' \in Terminal)]_vars

\* models/loan.py: "so no ACTIVE loan lacks a schedule".
ActiveLoanHasSchedule == status = "ACTIVE" => scheduled
=============================================================================
