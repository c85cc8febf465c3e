--------------------------- MODULE PaymentLedger ---------------------------
(***************************************************************************)
(* The payment ledger of one loan (services/transaction.py): transactions, *)
(* and the running total of each due cycle, under concurrent requests.     *)
(*                                                                         *)
(* A request is a READ COMMITTED transaction of its own session.  It reads *)
(* the row without a lock (Load...), and for a confirmation then locks the *)
(* loan (LockLoan).  Flush sends the UPDATE: it waits for the row, and     *)
(* writes the columns that differ from what was read over whatever the row *)
(* holds by now.  Only then are the cycles locked and recomputed, one by   *)
(* one, for the transaction as it was READ.  Nothing is visible to others  *)
(* before Commit.  The status of the loan is in LoanLifecycle; the         *)
(* classification of a cycle is not modelled here.                         *)
(***************************************************************************)
EXTENDS LedgerRows, Sequences, FiniteSets

CONSTANTS
    Sessions,        \* requests that can be in flight
    Nobody,          \* owner of a free lock
    NoTxn,           \* transaction of an idle session
    SameTxnOverlap,  \* may two requests on one transaction overlap?
    StaleCycleReads  \* may a cycle be recomputed by another request between
                     \* the two reads an edit makes of it?

ASSUME LedgerAssumption ==
    /\ Nobody \notin Sessions
    /\ NoTxn \notin Txns
    /\ SameTxnOverlap \in BOOLEAN
    /\ StaleCycleReads \in BOOLEAN

VARIABLES
    row,        \* committed transactions rows
    counted,    \* committed due_cycles.total_received
    pc,         \* where each request is
    op,         \* which handler it runs
    txn,        \* the transaction it works on
    mem,        \* that row as the session read it
    want,       \* the row as the session wants it: mem with the changes made
    held,       \* the cycles the session holds in its identity map
    known,      \* total_received of those cycles, as it was read
    new,        \* the row version written by the flush
    todo,       \* cycles still to lock and recompute, in order
    fresh,      \* totals recomputed by this session, not committed yet
    loanLock,   \* holder of the row lock on the loan
    cycleLock   \* holder of the row lock on each cycle

request == <<op, txn, mem, want, held, known>>
work == <<new, todo, fresh>>
locks == <<loanLock, cycleLock>>
vars == <<row, counted, pc, request, work, locks>>

Ops == {"none", "confirm", "fail", "update", "delete", "restore"}

TypeOK ==
    /\ row \in [Txns -> Row]
    /\ counted \in [Cycles -> Nat]
    /\ pc \in [Sessions -> {"idle", "loaded", "locked", "flushed"}]
    /\ op \in [Sessions -> Ops]
    /\ txn \in [Sessions -> Txns \cup {NoTxn}]
    /\ mem \in [Sessions -> Row]
    /\ want \in [Sessions -> Row]
    /\ held \in [Sessions -> SUBSET Cycles]
    /\ known \in [Sessions -> [Cycles -> Nat]]
    /\ new \in [Sessions -> Row]
    /\ todo \in [Sessions -> Seq(Cycles)]
    /\ fresh \in [Sessions -> [Cycles -> Nat]]
    /\ loanLock \in Sessions \cup {Nobody}
    /\ cycleLock \in [Cycles -> Sessions \cup {Nobody}]

BlankRow == [status |-> "none", amount |-> CHOOSE a \in Amounts : TRUE,
             due_cycle_id |-> NoCycle, is_deleted |-> FALSE]
Zero == [c \in Cycles |-> 0]

Init ==
    /\ row = [t \in Txns |-> BlankRow]
    /\ counted = Zero
    /\ pc = [s \in Sessions |-> "idle"]
    /\ op = [s \in Sessions |-> "none"]
    /\ txn = [s \in Sessions |-> NoTxn]
    /\ mem = [s \in Sessions |-> BlankRow]
    /\ want = [s \in Sessions |-> BlankRow]
    /\ held = [s \in Sessions |-> {}]
    /\ known = [s \in Sessions |-> Zero]
    /\ new = [s \in Sessions |-> BlankRow]
    /\ todo = [s \in Sessions |-> <<>>]
    /\ fresh = [s \in Sessions |-> Zero]
    /\ loanLock = Nobody
    /\ cycleLock = [c \in Cycles |-> Nobody]

\* Row-lock conflicts.  A flush holds its transaction row; setting
\* due_cycle_id also takes FOR KEY SHARE on the cycle it refers to.
WroteTxn(s, t) == pc[s] = "flushed" /\ txn[s] = t
SetsCycle(s, c) == want[s].due_cycle_id = c /\ mem[s].due_cycle_id # c
HoldsCycle(s, c) == cycleLock[c] = s \/ (pc[s] = "flushed" /\ SetsCycle(s, c))

Others(s) == Sessions \ {s}
-----------------------------------------------------------------------------
(* create_transaction: locks the loan, inserts a PENDING row, commits.     *)

CreateTransaction(t, c, a) ==
    /\ row[t].status = "none"
    /\ loanLock = Nobody
    /\ cycleLock[c] = Nobody
    /\ row' = [row EXCEPT ![t] = [status |-> "PENDING", amount |-> a,
                                  due_cycle_id |-> c, is_deleted |-> FALSE]]
    /\ UNCHANGED <<counted, pc, request, work, locks>>
-----------------------------------------------------------------------------
(* The handlers of an existing transaction.                                *)

InFlight == {s \in Sessions : pc[s] # "idle"}
Visits(s) == {mem[s].due_cycle_id, want[s].due_cycle_id}

\* The schedules the two overlap constants leave out.
MayLoad(t, cycles, named) ==
    \A s \in InFlight :
        /\ SameTxnOverlap \/ txn[s] # t
        /\ StaleCycleReads \/ (cycles \cap held[s] = {} /\ named \cap Visits(s) = {})

\* The route reads the row (get_transaction) and the handler decides what to
\* change, on what was read.
Load(s, t, handler, wanted, named) ==
    /\ pc[s] = "idle"
    /\ MayLoad(t, {row[t].due_cycle_id, wanted.due_cycle_id}, named)
    /\ pc' = [pc EXCEPT ![s] = "loaded"]
    /\ op' = [op EXCEPT ![s] = handler]
    /\ txn' = [txn EXCEPT ![s] = t]
    /\ mem' = [mem EXCEPT ![s] = row[t]]
    /\ want' = [want EXCEPT ![s] = wanted]
    /\ held' = [held EXCEPT ![s] = named]
    /\ known' = [known EXCEPT ![s] = [c \in Cycles |-> IF c \in named THEN counted[c] ELSE 0]]
    /\ UNCHANGED <<row, counted, work, locks>>

LoadForConfirm(s, t) ==
    /\ row[t].status = "PENDING" /\ ~row[t].is_deleted
    /\ Load(s, t, "confirm", [row[t] EXCEPT !.status = "SUCCESS"], {})

LoadForFail(s, t) ==
    /\ row[t].status = "PENDING" /\ ~row[t].is_deleted
    /\ Load(s, t, "fail", [row[t] EXCEPT !.status = "FAILED"], {})

\* TransactionUpdate may change the amount, the cycle, or both.  A cycle it
\* names is read first, without a lock, to see that it is one of this loan.
LoadForUpdate(s, t, c, a) ==
    /\ row[t].status # "none" /\ ~row[t].is_deleted
    /\ \/ /\ a # row[t].amount
          /\ Load(s, t, "update", [row[t] EXCEPT !.amount = a], {})
       \/ Load(s, t, "update", [row[t] EXCEPT !.due_cycle_id = c, !.amount = a],
               {c} \cap Cycles)

LoadForDelete(s, t) ==
    /\ row[t].status # "none" /\ ~row[t].is_deleted
    /\ Load(s, t, "delete", [row[t] EXCEPT !.is_deleted = TRUE], {})

LoadForRestore(s, t) ==
    /\ row[t].status # "none" /\ row[t].is_deleted
    /\ Load(s, t, "restore", [row[t] EXCEPT !.is_deleted = FALSE], {})

\* confirm_transaction locks the loan before it writes; the others never do.
LockLoan(s) ==
    /\ pc[s] = "loaded"
    /\ op[s] = "confirm"
    /\ loanLock = Nobody
    /\ loanLock' = s
    /\ pc' = [pc EXCEPT ![s] = "locked"]
    /\ UNCHANGED <<row, counted, request, work, cycleLock>>

\* Mutant of Written: a column the request does not set is written as 0
\* (exclude_unset forgotten).
WrittenInFull(current, read, wanted) ==
    [current EXCEPT !.status = wanted.status,
                    !.amount = IF wanted.amount # read.amount THEN wanted.amount ELSE 0]

\* The UPDATE carries the columns that changed since the read.
Written(current, read, wanted) ==
    LET Column(f) == IF wanted[f] # read[f] THEN wanted[f] ELSE current[f]
    IN  [status |-> Column("status"), amount |-> Column("amount"),
         due_cycle_id |-> Column("due_cycle_id"), is_deleted |-> Column("is_deleted")]

\* Mutant of Touched: an edit recomputes only the cycle it moves to.
TouchedByNewCycle(s) ==
    IF want[s].status # "SUCCESS" THEN {} ELSE {want[s].due_cycle_id} \cap Cycles

\* Mutant of Touched: every handler recomputes all the cycles of the loan.
TouchedAll(s) == Cycles

\* The cycles a handler recomputes, from what it read: none unless the row is
\* SUCCESS in memory; update_transaction visits the old and the new one.
Touched(s) ==
    IF want[s].status # "SUCCESS" THEN {} ELSE Visits(s) \cap Cycles

\* A Python set is visited in any order.
Elements(q) == {q[i] : i \in DOMAIN q}
Orders(S) == {q \in [1..Cardinality(S) -> S] : Elements(q) = S}

ReadyToFlush(s) == pc[s] = IF op[s] = "confirm" THEN "locked" ELSE "loaded"

Flush(s) ==
    /\ ReadyToFlush(s)
    /\ \A o \in Others(s) : ~WroteTxn(o, txn[s])
    /\ \A o \in Others(s), c \in Cycles : SetsCycle(s, c) => cycleLock[c] # o
    /\ pc' = [pc EXCEPT ![s] = "flushed"]
    /\ new' = [new EXCEPT ![s] = Written(row[txn[s]], mem[s], want[s])]
    /\ \E order \in Orders(Touched(s)) : todo' = [todo EXCEPT ![s] = order]
    /\ UNCHANGED <<row, counted, request, fresh, locks>>

\* Mutant of Seen: the change is not flushed before the SUM (autoflush is off).
SeenUnflushed(s) == row

\* The rows as session s sees them: the committed ones and its own write.
Seen(s) == [row EXCEPT ![txn[s]] = new[s]]

\* SELECT .. FOR UPDATE on the cycle, then recompute_cycle_totals.
RecomputeCycle(s) ==
    /\ pc[s] = "flushed"
    /\ todo[s] # <<>>
    /\ LET c == Head(todo[s])
       IN  /\ \A o \in Others(s) : ~HoldsCycle(o, c)
           /\ cycleLock' = [cycleLock EXCEPT ![c] = s]
           /\ fresh' = [fresh EXCEPT ![s] = [@ EXCEPT ![c] = Total(Seen(s), c)]]
    /\ todo' = [todo EXCEPT ![s] = Tail(@)]
    /\ UNCHANGED <<row, counted, pc, request, new, loanLock>>

\* Mutant of ReleaseLoan: the session is never closed, the loan stays locked.
KeepLoan(s) == loanLock' = loanLock

ReleaseLoan(s) == loanLock' = IF loanLock = s THEN Nobody ELSE loanLock

\* The end of a request: its locks are released and its session forgotten.
Release(s) ==
    /\ pc' = [pc EXCEPT ![s] = "idle"]
    /\ op' = [op EXCEPT ![s] = "none"]
    /\ txn' = [txn EXCEPT ![s] = NoTxn]
    /\ mem' = [mem EXCEPT ![s] = BlankRow]
    /\ want' = [want EXCEPT ![s] = BlankRow]
    /\ held' = [held EXCEPT ![s] = {}]
    /\ known' = [known EXCEPT ![s] = Zero]
    /\ new' = [new EXCEPT ![s] = BlankRow]
    /\ todo' = [todo EXCEPT ![s] = <<>>]
    /\ fresh' = [fresh EXCEPT ![s] = Zero]
    /\ ReleaseLoan(s)
    /\ cycleLock' = [c \in Cycles |-> IF cycleLock[c] = s THEN Nobody ELSE cycleLock[c]]

\* Locking a cycle does not refresh an object the session already holds, and
\* the ORM writes a column only when its value differs from the one held.
ColumnWritten(s, c) ==
    /\ cycleLock[c] = s
    /\ c \in held[s] => known[s][c] # fresh[s][c]

Commit(s) ==
    /\ pc[s] = "flushed"
    /\ todo[s] = <<>>
    /\ row' = [row EXCEPT ![txn[s]] = new[s]]
    /\ counted' = [c \in Cycles |-> IF ColumnWritten(s, c) THEN fresh[s][c] ELSE counted[c]]
    /\ Release(s)

\* A refused or failed request: the loan does not accept payments, the client
\* or the database connection went away, an exception: rollback.
Abort(s) ==
    /\ pc[s] # "idle"
    /\ Release(s)
    /\ UNCHANGED <<row, counted>>
-----------------------------------------------------------------------------
(* Deadlocks: the database aborts one of the requests that wait in a ring. *)

WaitsFor(s, o) ==
    \/ pc[s] = "loaded" /\ op[s] = "confirm" /\ loanLock = o
    \/ ReadyToFlush(s) /\ WroteTxn(o, txn[s])
    \/ ReadyToFlush(s) /\ \E c \in Cycles : SetsCycle(s, c) /\ cycleLock[c] = o
    \/ pc[s] = "flushed" /\ todo[s] # <<>> /\ HoldsCycle(o, Head(todo[s]))

Rings == {ring \in SUBSET Sessions :
            ring # {} /\ \A x \in ring : \E y \in ring \ {x} : WaitsFor(x, y)}

BreakDeadlock(s) ==
    /\ \E ring \in Rings : s \in ring
    /\ Abort(s)
-----------------------------------------------------------------------------
Start(s) ==
    \E t \in Txns :
        \/ LoadForConfirm(s, t)
        \/ LoadForFail(s, t)
        \/ \E c \in Cycles \cup {NoCycle}, a \in Amounts : LoadForUpdate(s, t, c, a)
        \/ LoadForDelete(s, t)
        \/ LoadForRestore(s, t)

Progress(s) == LockLoan(s) \/ Flush(s) \/ RecomputeCycle(s) \/ Commit(s)

Next ==
    \/ \E t \in Txns, c \in Cycles, a \in Amounts : CreateTransaction(t, c, a)
    \/ \E s \in Sessions : Start(s) \/ Progress(s) \/ Abort(s) \/ BreakDeadlock(s)

Spec == Init /\ [][Next]_vars

\* A handler does not stop between two statements, PostgreSQL grants row locks
\* in the order they are asked for, and it aborts a victim of every deadlock.
FairSpec ==
    Spec /\ \A s \in Sessions : SF_vars(Progress(s)) /\ WF_vars(BreakDeadlock(s))
-----------------------------------------------------------------------------
(* Properties.                                                             *)

\* "The read total at any point reflects the SUM of all SUCCESS transactions
\* allocated to that cycle" (update_transaction), in every committed state.
TotalsMatch == \A c \in Cycles : counted[c] = Total(row, c)

\* Concurrent requests on different transactions are as good as one at a
\* time: the ledger implements the atomic one.
Atomic == INSTANCE AtomicLedger
ImplementsAtomicLedger == Atomic!Spec

\* Every request ends: requests that lock each other out (two edits that swap
\* cycles, two edits that move payments into the same cycle) are broken up.
EveryRequestEnds == \A s \in Sessions : pc[s] # "idle" ~> pc[s] = "idle"

\* Only edits can lock each other out: confirming, failing, deleting and
\* restoring payments take loan, payment and cycle in one order.
OnlyEditsDeadlock == \A ring \in Rings : \E s \in ring : op[s] = "update"
=============================================================================
