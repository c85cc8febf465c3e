--------------------------- MODULE AtomicLedger ---------------------------
(***************************************************************************)
(* What the payment ledger promises: every operation on a transaction      *)
(* happens at once, on the row as it is, and the total of every cycle is   *)
(* always that of its current rows ("the read total at any point reflects  *)
(* the SUM of all SUCCESS transactions allocated to that cycle").          *)
(***************************************************************************)
CONSTANTS
    Txns, Cycles, Amounts, NoCycle,  \* as in LedgerRows
    Total(_, _)                      \* what a cycle has received, from the rows

VARIABLES row, counted

\* The ledger in balance after a step.
Balanced == counted' = [c \in Cycles |-> Total(row', c)]

Init ==
    /\ \E a \in Amounts :
         row = [t \in Txns |-> [status |-> "none", amount |-> a,
                                due_cycle_id |-> NoCycle, is_deleted |-> FALSE]]
    /\ counted = [c \in Cycles |-> Total(row, c)]

Replace(t, r) == row' = [row EXCEPT ![t] = r] /\ Balanced

Create(t) ==
    /\ row[t].status = "none"
    /\ \E c \in Cycles, a \in Amounts :
         Replace(t, [status |-> "PENDING", amount |-> a,
                     due_cycle_id |-> c, is_deleted |-> FALSE])

\* A payment is decided once, and only while it is there to be decided.
Decide(t) ==
    /\ row[t].status = "PENDING" /\ ~row[t].is_deleted
    /\ \E verdict \in {"SUCCESS", "FAILED"} :
         Replace(t, [row[t] EXCEPT !.status = verdict])

Edit(t) ==
    /\ row[t].status # "none" /\ ~row[t].is_deleted
    /\ \E c \in Cycles \cup {NoCycle}, a \in Amounts :
         Replace(t, [row[t] EXCEPT !.due_cycle_id = c, !.amount = a])

DeleteOrRestore(t) ==
    /\ row[t].status # "none"
    /\ Replace(t, [row[t] EXCEPT !.is_deleted = ~row[t].is_deleted])

Next == \E t \in Txns : Create(t) \/ Decide(t) \/ Edit(t) \/ DeleteOrRestore(t)

Spec == Init /\ [][Next]_<<row, counted>>
=============================================================================
