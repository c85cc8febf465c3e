---------------------------- MODULE LedgerRows ----------------------------
(***************************************************************************)
(* The rows of the payment ledger: `transactions`, and the total a due     *)
(* cycle shows in total_received.                                          *)
(***************************************************************************)
EXTENDS Naturals, FiniteSets, Sums

CONSTANTS
    Txns,      \* ids of transaction rows, used or not
    Cycles,    \* the due cycles of the loan
    Amounts,   \* amounts a payment can have
    NoCycle    \* due_cycle_id IS NULL

ASSUME RowsAssumption ==
    /\ IsFiniteSet(Txns)
    /\ NoCycle \notin Cycles
    /\ Amounts \subseteq Nat /\ Amounts # {}

TransactionStatus == {"PENDING", "SUCCESS", "FAILED"}

\* status "none": the id is not used yet
Row == [status : TransactionStatus \cup {"none"}, amount : Amounts,
        due_cycle_id : Cycles \cup {NoCycle}, is_deleted : BOOLEAN]

\* Does a row count toward cycle c?
CountsToward(r, c) ==
    /\ r.status = "SUCCESS"
    /\ ~r.is_deleted
    /\ r.due_cycle_id = c

\* The rows the SUM for cycle c ranges over.
Counting(rows, c) == {t \in Txns : CountsToward(rows[t], c)}

\* recompute_cycle_totals: COALESCE(SUM(amount), 0)
Total(rows, c) ==
    SumOver([t \in Counting(rows, c) |-> rows[t].amount], Counting(rows, c))
=============================================================================
