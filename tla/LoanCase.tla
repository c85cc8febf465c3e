------------------------------ MODULE LoanCase ------------------------------
(***************************************************************************)
(* What the requests of LoanLifecycle amount to when they do not overlap:  *)
(* one loan, one place in the review queue, one closure and what is left   *)
(* to pay.  Who read what and when, the table of proposals and the penalty *)
(* events behind them are gone.                                            *)
(***************************************************************************)
EXTENDS Naturals

VARIABLES
    status,       \* loans.status
    deleted,      \* loans.is_deleted
    queue,        \* who put the loan into the review queue
    closure,      \* what its closure says
    outstanding   \* what is left to pay

caseVars == <<status, deleted, queue, closure, outstanding>>

Unclosed == [type |-> "none", writtenOff |-> 0]

\* What is left to pay changes with payments, penalties and terms.
Recount == outstanding' \in Nat

Init ==
    /\ status = "DRAFT"
    /\ ~deleted
    /\ queue = "nobody"
    /\ closure = Unclosed
    /\ outstanding \in Nat

\* A payment, a correction, a penalty or an edit: the balance moves and nothing else.
MoveMoney == Recount /\ UNCHANGED <<status, deleted, queue, closure>>

Approve ==
    /\ ~deleted /\ status = "DRAFT"
    /\ status' = "ACTIVE"
    /\ Recount
    /\ UNCHANGED <<deleted, queue, closure>>

\* A proposal by hand, one reopened, or an automatic one: the loan is not closed, and
\* only one proposal waits at a time.
Propose ==
    /\ ~deleted /\ status \notin {"CLOSED", "BAD_DEBT"}
    /\ queue = "nobody"
    /\ queue' \in {"user", "system"}
    /\ status' = "BAD_DEBT_PROPOSED"
    /\ \/ UNCHANGED outstanding
       \/ queue' = "system" /\ Recount
    /\ UNCHANGED <<deleted, closure>>

\* A review takes the proposal out of the queue.  Rejecting makes the loan ACTIVE, from
\* whatever status: a closed loan is left in no other way.
Review ==
    /\ ~deleted
    /\ queue # "nobody"
    /\ queue' = "nobody"
    /\ status' \in {status, "ACTIVE"}
    /\ UNCHANGED <<deleted, closure, outstanding>>

\* The cap the system proposed the loan for is gone: only its own proposal is taken back,
\* and only a loan that is still proposed runs again.
Withdraw ==
    /\ ~deleted
    /\ queue = "system"
    /\ queue' = "nobody"
    /\ status' = IF status = "BAD_DEBT_PROPOSED" THEN "ACTIVE" ELSE status
    /\ Recount
    /\ UNCHANGED <<deleted, closure>>

\* A payment that leaves nothing to pay, also on a deleted loan: it clears the system's
\* proposal and leaves a user's in the queue.
PayInFull ==
    /\ status \in {"ACTIVE", "BAD_DEBT_PROPOSED"}
    /\ status' = "AWAITING_CLOSURE"
    /\ outstanding' = 0
    /\ queue' = IF queue = "system" THEN "nobody" ELSE queue
    /\ UNCHANGED <<deleted, closure>>

\* A loan is closed once, as paid when nothing is left, else with what it writes off.
Close ==
    /\ ~deleted
    /\ status \in {"ACTIVE", "AWAITING_CLOSURE", "BAD_DEBT_PROPOSED"}
    /\ closure = Unclosed
    /\ \/ /\ outstanding = 0
          /\ \E type \in {"NORMAL_TENURE", "EARLY_FORECLOSURE"} :
                closure' = [type |-> type, writtenOff |-> 0]
          /\ status' = "CLOSED"
       \/ /\ \E w \in 0..outstanding :
                closure' = [type |-> "NEGOTIATED_SETTLEMENT", writtenOff |-> w]
          /\ status' = "CLOSED"
       \/ /\ closure' = [type |-> "WRITE_OFF", writtenOff |-> outstanding]
          /\ status' = "BAD_DEBT"
    /\ UNCHANGED <<deleted, queue, outstanding>>

Delete ==
    /\ ~deleted /\ status # "ACTIVE"
    /\ deleted' = TRUE
    /\ UNCHANGED <<status, queue, closure, outstanding>>

Next ==
    \/ MoveMoney \/ Approve \/ Propose \/ Review \/ Withdraw \/ PayInFull \/ Close \/ Delete

Spec == Init /\ [][Next]_caseVars
=============================================================================
