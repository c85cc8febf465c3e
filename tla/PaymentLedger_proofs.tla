------------------------ MODULE PaymentLedger_proofs ------------------------
(***************************************************************************)
(* Proofs about PaymentLedger, for any number of requests, payments,       *)
(* cycles and amounts.                                                     *)
(***************************************************************************)
EXTENDS PaymentLedger, SumTheorems, SequenceTheorems, TLAPS

(***************************************************************************)
(* The inductive invariant.  TotalsMatch alone is not inductive: a commit  *)
(* publishes totals computed earlier, from rows that were read earlier.    *)
(***************************************************************************)

Shape ==
    /\ row \in [Txns -> Row]
    /\ counted = [c \in Cycles |-> counted[c]]
    /\ pc \in [Sessions -> {"idle", "loaded", "locked", "flushed"}]
    /\ txn \in [Sessions -> Txns \cup {NoTxn}]
    /\ mem \in [Sessions -> Row]
    /\ want \in [Sessions -> Row]
    /\ new \in [Sessions -> Row]
    /\ held \in [Sessions -> SUBSET Cycles]
    /\ known = [s \in Sessions |-> [c \in Cycles |-> known[s][c]]]
    /\ todo \in [Sessions -> Seq(Cycles)]
    /\ fresh = [s \in Sessions |-> [c \in Cycles |-> fresh[s][c]]]
    /\ cycleLock \in [Cycles -> Sessions \cup {Nobody}]

\* What a handler may want of the row r it read.
Operation(r, w) ==
    \/ /\ r.status = "PENDING" /\ ~r.is_deleted
       /\ \E verdict \in {"SUCCESS", "FAILED"} : w = [r EXCEPT !.status = verdict]
    \/ /\ ~r.is_deleted
       /\ \E c \in Cycles \cup {NoCycle}, a \in Amounts :
             w = [r EXCEPT !.due_cycle_id = c, !.amount = a]
    \/ w = [r EXCEPT !.is_deleted = ~r.is_deleted]

\* What an unfinished request read is still so.
ReadsHold(s) ==
    /\ txn[s] \in Txns
    /\ row[txn[s]] = mem[s]
    /\ mem[s].status # "none"
    /\ Operation(mem[s], want[s])
    /\ \A c \in held[s] : known[s][c] = counted[c]

\* No request stands in the way of what another one has read.
Apart(s, o) == txn[o] # txn[s] /\ held[o] \cap Visits(s) = {}

\* Every cycle a flushed request has to recompute is locked or still to do.
WorkAhead(s) ==
    /\ new[s] = want[s]
    /\ Elements(todo[s]) \subseteq Touched(s)
    /\ \A c \in Touched(s) : c \in Elements(todo[s]) \/ cycleLock[c] = s

\* A total computed under the lock of its cycle stays the right one.
LockedTotal(s, c) ==
    /\ pc[s] = "flushed"
    /\ c \in Visits(s)
    /\ fresh[s][c] = Total(Seen(s), c)

IInv ==
    /\ Shape
    /\ TotalsMatch
    /\ \A s \in InFlight : ReadsHold(s)
    /\ \A s \in InFlight : \A o \in InFlight \ {s} : Apart(s, o)
    /\ \A s \in InFlight : pc[s] = "flushed" => WorkAhead(s)
    /\ \A s \in Sessions, c \in Cycles : cycleLock[c] = s => LockedTotal(s, c)
-----------------------------------------------------------------------------
(* Lemmas about rows and totals.                                           *)

\* Two versions of a row count the same toward cycle c.
CountSame(r, q, c) ==
    /\ CountsToward(r, c) <=> CountsToward(q, c)
    /\ CountsToward(r, c) => r.amount = q.amount

\* Rows that count the same toward a cycle give it the same total.
LEMMA SameTotal ==
    ASSUME NEW rows, NEW others, NEW c,
           \A t \in Txns : CountSame(rows[t], others[t], c)
    PROVE  Total(rows, c) = Total(others, c)
<1>1. Counting(rows, c) = Counting(others, c)
  BY DEF Counting, CountSame
<1>2. [t \in Counting(rows, c) |-> rows[t].amount] =
      [t \in Counting(others, c) |-> others[t].amount]
  BY <1>1 DEF Counting, CountSame
<1> QED BY <1>1, <1>2 DEF Total

\* A flush of a row nobody else changed writes what the request wants.
LEMMA WrittenIsWanted ==
    ASSUME NEW read \in Row, NEW wanted \in Row
    PROVE  Written(read, read, wanted) = wanted
  BY DEF Written, Row

\* The cycles a request visits, in whichever order.
LEMMA OrderOfTouched ==
    ASSUME NEW s \in Sessions, NEW order \in Orders(Touched(s))
    PROVE  order \in Seq(Cycles) /\ Elements(order) = Touched(s)
<1>1. IsFiniteSet(Touched(s))
  <2>1. IsFiniteSet({mem[s].due_cycle_id, want[s].due_cycle_id})
    BY FS_EmptySet, FS_AddElement,
       {mem[s].due_cycle_id, want[s].due_cycle_id}
         = ({} \cup {mem[s].due_cycle_id}) \cup {want[s].due_cycle_id}
  <2> QED BY <2>1, FS_Subset DEF Touched, Visits
<1>2. Touched(s) \subseteq Cycles
  BY DEF Touched
<1> QED BY <1>1, <1>2, FS_CardinalityType DEF Orders, Elements

\* Taking the next cycle off the list loses none.
LEMMA HeadAndTail ==
    ASSUME NEW q \in Seq(Cycles), q # <<>>
    PROVE  /\ Head(q) \in Cycles /\ Tail(q) \in Seq(Cycles)
           /\ Elements(q) = {Head(q)} \cup Elements(Tail(q))
<1>1. Head(q) \in Cycles /\ Tail(q) \in Seq(Cycles) /\ Len(q) \in Nat \ {0}
  OBVIOUS
<1>2. DOMAIN Tail(q) = 1..(Len(q) - 1) /\ \A i \in 1..(Len(q) - 1) : Tail(q)[i] = q[i + 1]
  OBVIOUS
<1>3. DOMAIN q = 1..Len(q) /\ Head(q) = q[1]
  OBVIOUS
<1>4. ASSUME NEW c, c \in Elements(q) PROVE c \in {Head(q)} \cup Elements(Tail(q))
  <2>1. PICK i \in 1..Len(q) : c = q[i]
    BY <1>3, <1>4 DEF Elements
  <2>2. CASE i = 1
    BY <2>1, <2>2, <1>3
  <2>3. CASE i # 1
    <3>1. i - 1 \in 1..(Len(q) - 1) /\ (i - 1) + 1 = i
      BY <2>1, <2>3, <1>1
    <3> QED BY <3>1, <2>1, <1>2 DEF Elements
  <2> QED BY <2>2, <2>3
<1>5. ASSUME NEW c, c \in {Head(q)} \cup Elements(Tail(q)) PROVE c \in Elements(q)
  <2>1. CASE c = Head(q)
    BY <2>1, <1>1, <1>3 DEF Elements
  <2>2. CASE c \in Elements(Tail(q))
    <3>1. PICK i \in 1..(Len(q) - 1) : c = q[i + 1]
      BY <2>2, <1>2 DEF Elements
    <3>2. i + 1 \in 1..Len(q)
      BY <1>1
    <3> QED BY <3>1, <3>2, <1>3 DEF Elements
  <2> QED BY <1>5, <2>1, <2>2
<1> QED BY <1>1, <1>4, <1>5

\* A request that does not touch a cycle does not move its total.
LEMMA UntouchedCounts ==
    ASSUME Shape, NEW s \in InFlight, ReadsHold(s), NEW c \in Cycles, c \notin Touched(s)
    PROVE  CountSame(mem[s], want[s], c)
<1>1. mem[s] \in Row /\ want[s] \in Row
  BY DEF Shape, InFlight
<1>2. mem[s].status = "SUCCESS" => want[s].status = "SUCCESS"
  BY <1>1 DEF ReadsHold, Operation, Row
<1> QED BY <1>1, <1>2 DEF Touched, Visits, CountSame, CountsToward
-----------------------------------------------------------------------------
(* The steps.                                                              *)

\* The private state of request o.
Private(o) == <<pc[o], txn[o], mem[o], want[o], held[o], known[o], new[o], todo[o], fresh[o]>>

\* A step that changes no row, no total and nothing of o keeps what is said
\* about o alone.
LEMMA Bystander ==
    ASSUME NEW o \in Sessions, UNCHANGED <<row, counted, Private(o)>>
    PROVE  /\ Visits(o)' = Visits(o) /\ Touched(o)' = Touched(o) /\ Seen(o)' = Seen(o)
           /\ ReadsHold(o)' <=> ReadsHold(o)
           /\ o \in InFlight' <=> o \in InFlight
           /\ \A c \in Cycles : LockedTotal(o, c)' <=> LockedTotal(o, c)
<1>1. Visits(o)' = Visits(o) /\ Seen(o)' = Seen(o)
  BY DEF Private, Visits, Seen
<1>2. Touched(o)' = Touched(o)
  BY <1>1 DEF Private, Touched
<1>3. ReadsHold(o)' <=> ReadsHold(o)
  BY DEF Private, ReadsHold
<1>4. o \in InFlight' <=> o \in InFlight
  BY DEF Private, InFlight
<1>5. ASSUME NEW c \in Cycles PROVE LockedTotal(o, c)' <=> LockedTotal(o, c)
  <2>1. Total(Seen(o), c)' = Total(Seen(o), c)
    BY <1>1
  <2> QED BY <2>1, <1>1 DEF Private, LockedTotal
<1> QED BY <1>1, <1>2, <1>3, <1>4, <1>5

\* A blank row is a row.
LEMMA BlankIsRow == BlankRow \in Row
  BY RowsAssumption DEF BlankRow, Row

\* An empty ledger satisfies the invariant.
LEMMA InitIInv == Init => IInv
<1> SUFFICES ASSUME Init PROVE IInv
  OBVIOUS
<1>1. Shape
  BY BlankIsRow DEF Init, Shape, Zero
<1>2. InFlight = {}
  BY DEF Init, InFlight
<1>3. \A s \in Sessions, c \in Cycles : cycleLock[c] # s
  BY LedgerAssumption DEF Init
<1>4. TotalsMatch
  <2>1. \A c \in Cycles : Counting(row, c) = {}
    BY DEF Init, BlankRow, Counting, CountsToward
  <2>2. \A c \in Cycles : Total(row, c) = 0
    BY <2>1, SumEmpty DEF Total
  <2> QED BY <2>2 DEF Init, Zero, TotalsMatch
<1> QED BY <1>1, <1>2, <1>3, <1>4 DEF IInv

\* The schedules the theorems are about.
Separate == ~SameTxnOverlap /\ ~StaleCycleReads

\* A new PENDING payment counts toward nothing yet.
LEMMA CreateKeeps ==
    ASSUME IInv, NEW t \in Txns, NEW c \in Cycles, NEW a \in Amounts,
           CreateTransaction(t, c, a)
    PROVE  IInv'
<1>0. UNCHANGED <<counted, pc, request, work, locks>>
  BY DEF CreateTransaction
<1>1. Shape'
  BY <1>0 DEF IInv, Shape, CreateTransaction, Row, TransactionStatus, request, work, locks
<1>2. \A u \in Txns : row[u] # row'[u] =>
          u = t /\ row[u].status = "none" /\ row'[u].status = "PENDING"
  BY DEF IInv, Shape, CreateTransaction
<1>3. TotalsMatch'
  <2> SUFFICES ASSUME NEW d \in Cycles PROVE counted'[d] = Total(row', d)
    BY DEF TotalsMatch
  <2>1. \A u \in Txns : CountSame(row[u], row'[u], d)
    BY <1>2 DEF CountSame, CountsToward
  <2> QED BY <2>1, <1>0, SameTotal DEF IInv, TotalsMatch
<1>4. \A s \in Sessions : /\ Visits(s)' = Visits(s) /\ Touched(s)' = Touched(s)
                          /\ s \in InFlight' <=> s \in InFlight
  BY <1>0 DEF Visits, Touched, InFlight, request
<1>5. ASSUME NEW s \in InFlight PROVE txn[s] \in Txns /\ txn[s] # t
  BY <1>5 DEF IInv, ReadsHold, CreateTransaction
<1>6. ASSUME NEW s \in InFlight' PROVE ReadsHold(s)'
  <2>1. s \in InFlight /\ ReadsHold(s) /\ txn[s] # t
    BY <1>0, <1>5 DEF IInv, InFlight
  <2>2. row'[txn[s]] = row[txn[s]]
    BY <2>1 DEF IInv, Shape, ReadsHold, CreateTransaction
  <2> QED BY <2>1, <2>2, <1>0 DEF ReadsHold, request
<1>7. \A s \in InFlight' : \A o \in InFlight' \ {s} : Apart(s, o)'
  BY <1>0, <1>4 DEF IInv, Apart, request, InFlight
<1>8. \A s \in InFlight' : pc'[s] = "flushed" => WorkAhead(s)'
  BY <1>0, <1>4 DEF IInv, WorkAhead, request, work, locks, InFlight
<1>9. ASSUME NEW s \in Sessions, NEW d \in Cycles, cycleLock'[d] = s
      PROVE  LockedTotal(s, d)'
  <2>1. LockedTotal(s, d) /\ s \in InFlight
    BY <1>0, <1>9 DEF IInv, locks, LockedTotal, InFlight
  <2>2. \A u \in Txns : CountSame(Seen(s)[u], Seen(s)'[u], d)
    BY <1>0, <1>1, <1>2 DEF IInv, Shape, Seen, CountSame, CountsToward, request, work
  <2>3. Total(Seen(s), d) = Total(Seen(s)', d)
    BY <2>2, SameTotal
  <2> QED BY <2>1, <2>3, <1>0, <1>4 DEF LockedTotal, work
<1> QED BY <1>1, <1>3, <1>6, <1>7, <1>8, <1>9 DEF IInv

\* A request starts with what it read, and away from the others.
LEMMA LoadKeeps ==
    ASSUME IInv, Separate, NEW s \in Sessions, NEW t \in Txns, NEW handler,
           NEW wanted \in Row, NEW named \in SUBSET Cycles,
           row[t].status # "none", named \subseteq {wanted.due_cycle_id},
           Operation(row[t], wanted),
           Load(s, t, handler, wanted, named)
    PROVE  IInv'
<1>0. UNCHANGED <<row, counted, work, locks>> /\ s \notin InFlight
  BY DEF Load, InFlight
<1>1. Shape'
  <2>1. known' = [o \in Sessions |-> [c \in Cycles |-> known'[o][c]]]
    BY DEF IInv, Shape, Load
  <2> QED BY <1>0, <2>1 DEF IInv, Shape, Load, work, locks
<1>2. /\ pc'[s] = "loaded" /\ txn'[s] = t /\ mem'[s] = row[t] /\ want'[s] = wanted
      /\ held'[s] = named /\ known'[s] = [c \in Cycles |-> IF c \in named THEN counted[c] ELSE 0]
  BY DEF IInv, Shape, Load
<1>3. \A o \in Others(s) : UNCHANGED Private(o)
  BY <1>0 DEF IInv, Shape, Load, Private, Others, work
<1>4. InFlight' = InFlight \cup {s}
  BY <1>2, <1>3 DEF InFlight, Others, Private
<1>5. \A o \in InFlight : /\ o \in Others(s) /\ txn[o] # t /\ named \cap Visits(o) = {}
                          /\ {row[t].due_cycle_id, wanted.due_cycle_id} \cap held[o] = {}
  BY <1>0 DEF Load, MayLoad, Separate, Others, InFlight
<1>6. Visits(s)' = {row[t].due_cycle_id, wanted.due_cycle_id}
  BY <1>2 DEF Visits
<1>7. \A o \in InFlight : /\ Visits(o)' = Visits(o) /\ Touched(o)' = Touched(o)
                          /\ ReadsHold(o)' /\ o \in Sessions /\ UNCHANGED Private(o)
  BY <1>0, <1>3, <1>5, Bystander DEF IInv, InFlight
<1>8. ReadsHold(s)'
  BY <1>0, <1>2 DEF ReadsHold
<1>9. ASSUME NEW r \in InFlight', NEW o \in InFlight' \ {r} PROVE Apart(r, o)'
  <2>1. CASE r = s
    BY <2>1, <1>2, <1>4, <1>5, <1>6, <1>7, <1>9 DEF Apart, Private
  <2>2. CASE o = s
    BY <2>2, <1>2, <1>4, <1>5, <1>7, <1>9 DEF Apart, Private
  <2>3. CASE r # s /\ o # s
    BY <2>3, <1>4, <1>7, <1>9 DEF IInv, Apart, Private
  <2> QED BY <2>1, <2>2, <2>3
<1>10. ASSUME NEW o \in InFlight', pc'[o] = "flushed" PROVE WorkAhead(o)'
  BY <1>0, <1>2, <1>4, <1>7, <1>10 DEF IInv, WorkAhead, Private, locks
<1>11. ASSUME NEW o \in Sessions, NEW c \in Cycles, cycleLock'[c] = o PROVE LockedTotal(o, c)'
  <2>1. LockedTotal(o, c)
    BY <1>0, <1>11 DEF IInv, locks
  <2>2. o \in Others(s)
    BY <2>1, <1>0 DEF LockedTotal, InFlight, Others
  <2> QED BY <2>1, <2>2, <1>0, <1>3, Bystander
<1>12. TotalsMatch'
  BY <1>0 DEF IInv, TotalsMatch
<1> QED BY <1>1, <1>4, <1>7, <1>8, <1>9, <1>10, <1>11, <1>12 DEF IInv

\* Locking the loan changes nothing the invariant speaks of.
LEMMA LockLoanKeeps ==
    ASSUME IInv, NEW s \in Sessions, LockLoan(s)
    PROVE  IInv'
<1>1. UNCHANGED <<row, counted, request, work, cycleLock>>
  BY DEF LockLoan
<1>2. /\ pc[s] = "loaded" /\ pc'[s] = "locked"
      /\ \A o \in Others(s) : pc'[o] = pc[o]
  BY DEF IInv, Shape, LockLoan, Others
<1>3. InFlight' = InFlight
  BY <1>2 DEF InFlight, Others
<1>4. Shape'
  BY <1>1 DEF IInv, Shape, LockLoan, request, work
<1>5. \A o \in Sessions : /\ Visits(o)' = Visits(o) /\ Touched(o)' = Touched(o)
                          /\ Seen(o)' = Seen(o) /\ ReadsHold(o)' <=> ReadsHold(o)
                          /\ pc'[o] = "flushed" <=> pc[o] = "flushed"
  BY <1>1, <1>2 DEF Visits, Touched, Seen, ReadsHold, request, work, Others
<1>6. \A r \in InFlight' : \A o \in InFlight' \ {r} : Apart(r, o)'
  BY <1>1, <1>3, <1>5 DEF IInv, Apart, request, InFlight
<1>7. \A o \in InFlight' : pc'[o] = "flushed" => WorkAhead(o)'
  BY <1>1, <1>3, <1>5 DEF IInv, WorkAhead, request, work, InFlight
<1>8. ASSUME NEW o \in Sessions, NEW c \in Cycles, cycleLock'[c] = o PROVE LockedTotal(o, c)'
  <2>1. LockedTotal(o, c)
    BY <1>1, <1>8 DEF IInv
  <2>2. Seen(o)' = Seen(o)
    BY <1>1 DEF Seen, request, work
  <2>3. Total(Seen(o), c)' = Total(Seen(o), c)
    BY <2>2
  <2> QED BY <2>1, <2>3, <1>1, <1>5 DEF LockedTotal, work
<1>9. TotalsMatch' /\ \A o \in InFlight' : ReadsHold(o)'
  BY <1>1, <1>3, <1>5 DEF IInv, TotalsMatch, InFlight
<1> QED BY <1>4, <1>6, <1>7, <1>8, <1>9 DEF IInv

\* A flush writes what the request wants and lists the cycles it touches.
LEMMA FlushKeeps ==
    ASSUME IInv, NEW s \in Sessions, Flush(s)
    PROVE  IInv'
<1>0. UNCHANGED <<row, counted, request, fresh, locks>>
  BY DEF Flush
<1>1. pc[s] \in {"loaded", "locked"} /\ s \in InFlight /\ ReadsHold(s)
  BY DEF IInv, Flush, ReadyToFlush, InFlight
<1>2. PICK order \in Orders(Touched(s)) : todo' = [todo EXCEPT ![s] = order]
  BY DEF Flush
<1>3. order \in Seq(Cycles) /\ Elements(order) = Touched(s)
  BY OrderOfTouched DEF IInv
<1>4. Written(row[txn[s]], mem[s], want[s]) = want[s]
  BY <1>1, WrittenIsWanted DEF IInv, Shape, ReadsHold
<1>5. /\ new' = [new EXCEPT ![s] = want[s]]
      /\ pc' = [pc EXCEPT ![s] = "flushed"]
  BY <1>4 DEF Flush
<1>6. Shape'
  BY <1>0, <1>2, <1>3, <1>5 DEF IInv, Shape, request, locks
<1>7. pc'[s] = "flushed" /\ new'[s] = want[s] /\ todo'[s] = order
  BY <1>2, <1>5 DEF IInv, Shape
<1>8. \A o \in Others(s) : UNCHANGED Private(o)
  BY <1>0, <1>2, <1>5 DEF IInv, Shape, Private, Others, request
<1>9. InFlight' = InFlight
  BY <1>1, <1>7, <1>8 DEF InFlight, Others, Private
<1>10. \A o \in Sessions : Visits(o)' = Visits(o) /\ Touched(o)' = Touched(o)
  BY <1>0 DEF Visits, Touched, request
<1>11. \A o \in InFlight' : ReadsHold(o)'
  BY <1>0, <1>9 DEF IInv, ReadsHold, request
<1>12. \A r \in InFlight' : \A o \in InFlight' \ {r} : Apart(r, o)'
  BY <1>0, <1>9, <1>10 DEF IInv, Apart, request, InFlight
<1>13. ASSUME NEW o \in InFlight', pc'[o] = "flushed" PROVE WorkAhead(o)'
  <2>1. CASE o = s
    BY <2>1, <1>0, <1>3, <1>7, <1>10 DEF WorkAhead, request
  <2>2. CASE o # s
    BY <2>2, <1>0, <1>8, <1>9, <1>10, <1>13 DEF IInv, WorkAhead, Private, Others, InFlight, locks
  <2> QED BY <2>1, <2>2
<1>14. ASSUME NEW o \in Sessions, NEW c \in Cycles, cycleLock'[c] = o PROVE LockedTotal(o, c)'
  <2>1. LockedTotal(o, c)
    BY <1>0, <1>14 DEF IInv, locks
  <2>2. o \in Others(s)
    BY <2>1, <1>1 DEF LockedTotal, Others
  <2> QED BY <2>1, <2>2, <1>0, <1>8, Bystander
<1>15. TotalsMatch'
  BY <1>0 DEF IInv, TotalsMatch
<1> QED BY <1>6, <1>11, <1>12, <1>13, <1>14, <1>15 DEF IInv

\* A recomputed total is right, and no other request holds that cycle.
LEMMA RecomputeKeeps ==
    ASSUME IInv, NEW s \in Sessions, RecomputeCycle(s)
    PROVE  IInv'
<1>0. UNCHANGED <<row, counted, pc, request, new>> /\ pc[s] = "flushed" /\ todo[s] # <<>>
  BY DEF RecomputeCycle
<1>1. s \in InFlight /\ WorkAhead(s) /\ InFlight' = InFlight
  BY <1>0 DEF IInv, InFlight
<1> DEFINE c == Head(todo[s])
<1>2. /\ c \in Cycles /\ Tail(todo[s]) \in Seq(Cycles)
      /\ Elements(todo[s]) = {c} \cup Elements(Tail(todo[s]))
  BY <1>0, HeadAndTail DEF IInv, Shape
<1>3. /\ cycleLock' = [cycleLock EXCEPT ![c] = s]
      /\ fresh' = [fresh EXCEPT ![s] = [@ EXCEPT ![c] = Total(Seen(s), c)]]
      /\ todo' = [todo EXCEPT ![s] = Tail(@)]
      /\ \A o \in Others(s) : ~HoldsCycle(o, c)
  BY DEF RecomputeCycle
<1> HIDE DEF c
<1>4. Shape'
  <2>1. fresh' = [o \in Sessions |-> [d \in Cycles |-> fresh'[o][d]]]
    BY <1>2, <1>3 DEF IInv, Shape
  <2> QED BY <2>1, <1>0, <1>2, <1>3 DEF IInv, Shape, request
<1>5. /\ cycleLock'[c] = s /\ fresh'[s][c] = Total(Seen(s), c) /\ todo'[s] = Tail(todo[s])
      /\ \A d \in Cycles \ {c} : cycleLock'[d] = cycleLock[d] /\ fresh'[s][d] = fresh[s][d]
  BY <1>2, <1>3 DEF IInv, Shape
<1>6. \A o \in Others(s) : UNCHANGED Private(o)
  BY <1>0, <1>3 DEF IInv, Shape, Private, Others, request
<1>7. \A o \in Sessions : /\ Visits(o)' = Visits(o) /\ Touched(o)' = Touched(o)
                          /\ ReadsHold(o)' <=> ReadsHold(o)
  BY <1>0 DEF Visits, Touched, ReadsHold, request
<1>8. Seen(s)' = Seen(s)
  BY <1>0 DEF Seen, request
<1>9. \A o \in InFlight' : ReadsHold(o)'
  BY <1>1, <1>7 DEF IInv, InFlight
<1>10. \A r \in InFlight' : \A o \in InFlight' \ {r} : Apart(r, o)'
  BY <1>0, <1>1, <1>7 DEF IInv, Apart, request, InFlight
<1>11. ASSUME NEW o \in InFlight', pc'[o] = "flushed" PROVE WorkAhead(o)'
  <2>1. CASE o = s
    <3>1. ASSUME NEW d \in Touched(s) PROVE d \in Elements(todo'[s]) \/ cycleLock'[d] = s
      <4>1. d \in Cycles
        BY DEF Touched
      <4> QED BY <4>1, <1>1, <1>2, <1>5 DEF WorkAhead
    <3> QED BY <2>1, <3>1, <1>0, <1>1, <1>2, <1>5, <1>7 DEF WorkAhead, request
  <2>2. CASE o # s
    <3>1. WorkAhead(o) /\ o \in Others(s)
      BY <2>2, <1>0, <1>1, <1>11 DEF IInv, Others, InFlight
    <3>2. cycleLock[c] # o
      BY <3>1, <1>3 DEF HoldsCycle
    <3>3. Touched(o) \subseteq Cycles
      BY DEF Touched
    <3>4. \A d \in Touched(o) : cycleLock[d] = o => cycleLock'[d] = o
      BY <3>2, <3>3, <1>5
    <3> QED BY <3>1, <3>4, <1>6, <1>7 DEF WorkAhead, Private, Others
  <2> QED BY <2>1, <2>2
<1>12. ASSUME NEW o \in Sessions, NEW d \in Cycles, cycleLock'[d] = o PROVE LockedTotal(o, d)'
  <2>1. CASE d = c
    <3>1. o = s
      BY <2>1, <1>5, <1>12
    <3>2. c \in Visits(s)
      BY <1>1, <1>2 DEF WorkAhead, Touched
    <3>3. fresh'[s][c] = Total(Seen(s)', c)
      BY <1>5, <1>8
    <3> QED BY <2>1, <3>1, <3>2, <3>3, <1>0, <1>7 DEF LockedTotal
  <2>2. CASE d # c
    <3>1. LockedTotal(o, d)
      BY <2>2, <1>5, <1>12 DEF IInv
    <3>2. CASE o = s
      <4>1. fresh'[s][d] = Total(Seen(s)', d)
        BY <3>1, <3>2, <2>2, <1>5, <1>8 DEF LockedTotal
      <4> QED BY <3>1, <3>2, <4>1, <1>0, <1>7 DEF LockedTotal
    <3>3. CASE o # s
      BY <3>1, <3>3, <1>0, <1>6, Bystander DEF Others
    <3> QED BY <3>2, <3>3
  <2> QED BY <2>1, <2>2
<1>13. TotalsMatch'
  BY <1>0 DEF IInv, TotalsMatch
<1> QED BY <1>4, <1>9, <1>10, <1>11, <1>12, <1>13 DEF IInv

\* What the end of a request leaves of the others and of itself.
LEMMA ReleaseEffect ==
    ASSUME Shape, NEW s \in InFlight, Release(s)
    PROVE  /\ pc'[s] = "idle" /\ InFlight' = InFlight \ {s}
           /\ \A o \in Others(s) : UNCHANGED Private(o)
           /\ \A o \in InFlight' : o \in Others(s) /\ o \in InFlight
           /\ \A o \in Sessions, c \in Cycles :
                 cycleLock'[c] = o => o # s /\ cycleLock[c] = o
<1>1. pc'[s] = "idle" /\ s \in Sessions
  BY DEF Shape, Release, InFlight
<1>2. \A o \in Others(s) : UNCHANGED Private(o)
  BY DEF Shape, Release, Private, Others
<1>3. InFlight' = InFlight \ {s}
  BY <1>1, <1>2 DEF InFlight, Others, Private
<1>4. ASSUME NEW o \in Sessions, NEW c \in Cycles, cycleLock'[c] = o
      PROVE  o # s /\ cycleLock[c] = o
  BY <1>1, <1>4, LedgerAssumption DEF Release, Shape
<1> QED BY <1>1, <1>2, <1>3, <1>4 DEF Others, InFlight

\* Release resets the session to a shape that is fine.
LEMMA ReleaseShape ==
    ASSUME Shape, NEW s \in InFlight, Release(s),
           row' \in [Txns -> Row], counted' = [c \in Cycles |-> counted'[c]]
    PROVE  Shape'
<1>1. known' = [o \in Sessions |-> [c \in Cycles |-> known'[o][c]]]
  BY DEF Shape, Release, Zero
<1>2. fresh' = [o \in Sessions |-> [c \in Cycles |-> fresh'[o][c]]]
  BY DEF Shape, Release, Zero
<1>3. cycleLock' \in [Cycles -> Sessions \cup {Nobody}]
  BY DEF Shape, Release
<1>4. "idle" \in {"idle", "loaded", "locked", "flushed"} /\ <<>> \in Seq(Cycles)
  OBVIOUS
<1>5. /\ pc' \in [Sessions -> {"idle", "loaded", "locked", "flushed"}]
      /\ txn' \in [Sessions -> Txns \cup {NoTxn}]
      /\ todo' \in [Sessions -> Seq(Cycles)]
  BY <1>4 DEF Shape, Release
<1>6. /\ mem' \in [Sessions -> Row] /\ want' \in [Sessions -> Row]
      /\ new' \in [Sessions -> Row] /\ held' \in [Sessions -> SUBSET Cycles]
  BY BlankIsRow DEF Shape, Release
<1> QED BY <1>1, <1>2, <1>3, <1>5, <1>6 DEF Shape

\* A rollback publishes nothing.
LEMMA AbortKeeps ==
    ASSUME IInv, NEW s \in Sessions, Abort(s)
    PROVE  IInv'
<1>0. s \in InFlight /\ Release(s) /\ UNCHANGED <<row, counted>>
  BY DEF Abort, InFlight
<1>1. Shape'
  <2>1. row' \in [Txns -> Row] /\ counted' = [c \in Cycles |-> counted'[c]]
    BY <1>0 DEF IInv, Shape
  <2> QED BY <1>0, <2>1, ReleaseShape DEF IInv
<1>2. /\ InFlight' = InFlight \ {s}
      /\ \A o \in InFlight' : o \in Others(s) /\ o \in InFlight
      /\ \A o \in Others(s) : UNCHANGED Private(o)
      /\ \A o \in Sessions, c \in Cycles : cycleLock'[c] = o => o # s /\ cycleLock[c] = o
  BY <1>0, ReleaseEffect DEF IInv
<1>3. \A o \in Others(s) : /\ Visits(o)' = Visits(o) /\ Touched(o)' = Touched(o)
                           /\ ReadsHold(o)' <=> ReadsHold(o)
  BY <1>0, <1>2, Bystander DEF Others
<1>4. \A o \in InFlight' : ReadsHold(o)'
  BY <1>2, <1>3 DEF IInv
<1>5. \A r \in InFlight' : \A o \in InFlight' \ {r} : Apart(r, o)'
  BY <1>2, <1>3 DEF IInv, Apart, Private
<1>6. ASSUME NEW o \in InFlight', pc'[o] = "flushed" PROVE WorkAhead(o)'
  <2>1. WorkAhead(o) /\ o \in Others(s)
    BY <1>2, <1>6 DEF IInv, Private
  <2>2. \A c \in Cycles : cycleLock[c] = o => cycleLock'[c] = o
    BY <1>0, <2>1 DEF IInv, Shape, Release, Others
  <2>3. Touched(o) \subseteq Cycles
    BY DEF Touched
  <2> QED BY <2>1, <2>2, <2>3, <1>2, <1>3 DEF WorkAhead, Private
<1>7. ASSUME NEW o \in Sessions, NEW c \in Cycles, cycleLock'[c] = o PROVE LockedTotal(o, c)'
  <2>1. LockedTotal(o, c) /\ o \in Others(s)
    BY <1>2, <1>7 DEF IInv, Others
  <2> QED BY <2>1, <1>0, <1>2, Bystander DEF Others
<1>8. TotalsMatch'
  BY <1>0 DEF IInv, TotalsMatch
<1> QED BY <1>1, <1>4, <1>5, <1>6, <1>7, <1>8 DEF IInv

\* A commit publishes its row together with the total of every cycle that the
\* row counted toward or counts toward now.
LEMMA CommitKeeps ==
    ASSUME IInv, NEW s \in Sessions, Commit(s)
    PROVE  IInv'
<1>0. /\ s \in InFlight /\ Release(s) /\ pc[s] = "flushed" /\ todo[s] = <<>>
      /\ ReadsHold(s) /\ WorkAhead(s)
  BY DEF IInv, Commit, InFlight
<1>1. /\ txn[s] \in Txns /\ row[txn[s]] = mem[s]
      /\ row' = [row EXCEPT ![txn[s]] = want[s]] /\ row' = Seen(s)
  BY <1>0 DEF ReadsHold, WorkAhead, Commit, Seen
<1>2. Shape'
  <2>1. row' \in [Txns -> Row]
    BY <1>0, <1>1 DEF IInv, Shape, InFlight
  <2>2. counted' = [c \in Cycles |-> counted'[c]]
    BY DEF Commit
  <2> QED BY <1>0, <2>1, <2>2, ReleaseShape DEF IInv
<1>3. /\ InFlight' = InFlight \ {s}
      /\ \A o \in InFlight' : o \in Others(s) /\ o \in InFlight
      /\ \A o \in Others(s) : UNCHANGED Private(o)
      /\ \A o \in Sessions, c \in Cycles : cycleLock'[c] = o => o # s /\ cycleLock[c] = o
  BY <1>0, ReleaseEffect DEF IInv
<1>4. \A c \in Touched(s) : cycleLock[c] = s
  BY <1>0 DEF WorkAhead, Elements
<1>5. \A c \in Cycles : c \notin Touched(s) =>
          \A t \in Txns : CountSame(row[t], row'[t], c)
  BY <1>0, <1>1, UntouchedCounts DEF IInv, Shape, CountSame
<1>6. ASSUME NEW c \in Cycles PROVE counted'[c] = Total(row', c)
  <2>1. counted'[c] = IF ColumnWritten(s, c) THEN fresh[s][c] ELSE counted[c]
    BY DEF Commit
  <2>2. CASE cycleLock[c] = s
    <3>1. fresh[s][c] = Total(row', c)
      BY <2>2, <1>1 DEF IInv, LockedTotal
    <3>2. c \in held[s] => known[s][c] = counted[c]
      BY <1>0 DEF ReadsHold
    <3> QED BY <2>1, <2>2, <3>1, <3>2 DEF ColumnWritten
  <2>3. CASE cycleLock[c] # s
    <3>1. Total(row, c) = Total(row', c)
      BY <2>3, <1>4, <1>5, SameTotal
    <3> QED BY <2>1, <2>3, <3>1 DEF ColumnWritten, IInv, TotalsMatch
  <2> QED BY <2>2, <2>3
<1>7. TotalsMatch'
  BY <1>6 DEF TotalsMatch
<1>8. \A o \in Others(s) : Visits(o)' = Visits(o) /\ Touched(o)' = Touched(o)
  BY <1>3 DEF Private, Visits, Touched
<1>9. ASSUME NEW o \in InFlight' PROVE ReadsHold(o)'
  <2>1. o \in Others(s) /\ o \in InFlight /\ ReadsHold(o) /\ Apart(s, o) /\ UNCHANGED Private(o)
    BY <1>0, <1>3 DEF IInv, Others
  <2>2. row'[txn[o]] = row[txn[o]]
    BY <2>1, <1>1 DEF IInv, Shape, Apart, ReadsHold
  <2>3. ASSUME NEW c \in held[o] PROVE counted'[c] = counted[c]
    <3>1. c \in Cycles /\ c \notin Visits(s)
      BY <2>1, <2>3 DEF IInv, Shape, Apart, InFlight
    <3>2. cycleLock[c] # s
      BY <3>1 DEF IInv, LockedTotal
    <3> QED BY <3>1, <3>2 DEF Commit, ColumnWritten
  <2> QED BY <2>1, <2>2, <2>3 DEF ReadsHold, Private
<1>10. \A r \in InFlight' : \A o \in InFlight' \ {r} : Apart(r, o)'
  BY <1>3, <1>8 DEF IInv, Apart, Private
<1>11. ASSUME NEW o \in InFlight', pc'[o] = "flushed" PROVE WorkAhead(o)'
  <2>1. WorkAhead(o) /\ o \in Others(s)
    BY <1>3, <1>11 DEF IInv, Private
  <2>2. \A c \in Cycles : cycleLock[c] = o => cycleLock'[c] = o
    BY <1>0, <2>1 DEF IInv, Shape, Release, Others
  <2>3. Touched(o) \subseteq Cycles
    BY DEF Touched
  <2> QED BY <2>1, <2>2, <2>3, <1>3, <1>8 DEF WorkAhead, Private
<1>12. ASSUME NEW o \in Sessions, NEW c \in Cycles, cycleLock'[c] = o PROVE LockedTotal(o, c)'
  <2>1. /\ LockedTotal(o, c) /\ o \in Others(s) /\ o \in InFlight
        /\ cycleLock[c] # s /\ UNCHANGED Private(o)
    BY <1>3, <1>12 DEF IInv, Others, LockedTotal, InFlight
  <2>2. Apart(s, o) /\ ReadsHold(o)
    BY <1>0, <2>1 DEF IInv, Others
  <2>3. \A t \in Txns : CountSame(Seen(o)[t], Seen(o)'[t], c)
    BY <2>1, <2>2, <1>2, <1>4, <1>5 DEF IInv, Shape, Seen, Private, CountSame
  <2>4. Total(Seen(o), c) = Total(Seen(o)', c)
    BY <2>3, SameTotal
  <2> QED BY <2>1, <2>4, <1>8 DEF LockedTotal, Private
<1> QED BY <1>2, <1>7, <1>9, <1>10, <1>11, <1>12 DEF IInv

\* Every handler of an existing payment starts as LoadKeeps asks.
LEMMA StartKeeps ==
    ASSUME IInv, Separate, NEW s \in Sessions, Start(s)
    PROVE  IInv'
<1>1. PICK t \in Txns :
          \/ LoadForConfirm(s, t)
          \/ LoadForFail(s, t)
          \/ \E c \in Cycles \cup {NoCycle}, a \in Amounts : LoadForUpdate(s, t, c, a)
          \/ LoadForDelete(s, t)
          \/ LoadForRestore(s, t)
  BY Zenon DEF Start
<1>2. row[t] \in Row
  BY DEF IInv, Shape
<1>3. {} \in SUBSET Cycles
  OBVIOUS
<1>4. CASE LoadForConfirm(s, t)
  <2> DEFINE w == [row[t] EXCEPT !.status = "SUCCESS"]
  <2>1. w \in Row
    BY <1>2 DEF Row, TransactionStatus
  <2>2. Operation(row[t], w)
    BY <1>4 DEF LoadForConfirm, Operation
  <2> QED BY <1>3, <1>4, <2>1, <2>2, LoadKeeps DEF LoadForConfirm
<1>5. CASE LoadForFail(s, t)
  <2> DEFINE w == [row[t] EXCEPT !.status = "FAILED"]
  <2>1. w \in Row
    BY <1>2 DEF Row, TransactionStatus
  <2>2. Operation(row[t], w)
    BY <1>5 DEF LoadForFail, Operation
  <2> QED BY <1>3, <1>5, <2>1, <2>2, LoadKeeps DEF LoadForFail
<1>6. ASSUME NEW c \in Cycles \cup {NoCycle}, NEW a \in Amounts, LoadForUpdate(s, t, c, a)
      PROVE  IInv'
  <2> DEFINE amountOnly == [row[t] EXCEPT !.amount = a]
             moved == [row[t] EXCEPT !.due_cycle_id = c, !.amount = a]
  <2>1. amountOnly \in Row /\ moved \in Row /\ moved.due_cycle_id = c
    BY <1>2 DEF Row
  <2>2. /\ row[t].status # "none" /\ ~row[t].is_deleted
        /\ \/ Load(s, t, "update", amountOnly, {})
           \/ Load(s, t, "update", moved, {c} \cap Cycles)
    BY <1>6 DEF LoadForUpdate
  <2>3. {c} \cap Cycles \in SUBSET Cycles /\ {c} \cap Cycles \subseteq {moved.due_cycle_id}
    BY <2>1
  <2>4. Operation(row[t], moved)
    BY <2>2 DEF Operation
  <2>5. Operation(row[t], amountOnly)
    <3>1. amountOnly = [row[t] EXCEPT !.due_cycle_id = row[t].due_cycle_id, !.amount = a]
      BY <1>2 DEF Row
    <3>2. row[t].due_cycle_id \in Cycles \cup {NoCycle}
      BY <1>2 DEF Row
    <3> QED BY <2>2, <3>1, <3>2 DEF Operation
  <2> HIDE DEF amountOnly, moved
  <2>6. CASE Load(s, t, "update", amountOnly, {})
    BY <2>1, <2>2, <2>5, <2>6, <1>3, LoadKeeps
  <2>7. CASE Load(s, t, "update", moved, {c} \cap Cycles)
    BY <2>1, <2>2, <2>3, <2>4, <2>7, LoadKeeps
  <2> QED BY <2>2, <2>6, <2>7
<1>7. CASE LoadForDelete(s, t)
  <2> DEFINE w == [row[t] EXCEPT !.is_deleted = TRUE]
  <2>1. w \in Row
    BY <1>2 DEF Row
  <2>2. Operation(row[t], w)
    <3>1. w = [row[t] EXCEPT !.is_deleted = ~row[t].is_deleted]
      BY <1>2, <1>7 DEF Row, LoadForDelete
    <3> QED BY <3>1 DEF Operation
  <2> QED BY <1>3, <1>7, <2>1, <2>2, LoadKeeps DEF LoadForDelete
<1>8. CASE LoadForRestore(s, t)
  <2> DEFINE w == [row[t] EXCEPT !.is_deleted = FALSE]
  <2>1. w \in Row
    BY <1>2 DEF Row
  <2>2. Operation(row[t], w)
    <3>1. w = [row[t] EXCEPT !.is_deleted = ~row[t].is_deleted]
      BY <1>2, <1>8 DEF Row, LoadForRestore
    <3> QED BY <3>1 DEF Operation
  <2> QED BY <1>3, <1>8, <2>1, <2>2, LoadKeeps DEF LoadForRestore
<1> QED BY <1>1, <1>4, <1>5, <1>6, <1>7, <1>8
-----------------------------------------------------------------------------
\* The step of the inductive invariant.
LEMMA StepIInv == ASSUME Separate PROVE IInv /\ [Next]_vars => IInv'
<1> SUFFICES ASSUME IInv, [Next]_vars PROVE IInv'
  OBVIOUS
<1>1. ASSUME NEW t \in Txns, NEW c \in Cycles, NEW a \in Amounts, CreateTransaction(t, c, a)
      PROVE  IInv'
  BY <1>1, CreateKeeps
<1>2. ASSUME NEW s \in Sessions, Start(s) PROVE IInv'
  BY <1>2, StartKeeps
<1>3. ASSUME NEW s \in Sessions, Progress(s) PROVE IInv'
  BY <1>3, LockLoanKeeps, FlushKeeps, RecomputeKeeps, CommitKeeps DEF Progress
<1>4. ASSUME NEW s \in Sessions, Abort(s) \/ BreakDeadlock(s) PROVE IInv'
  BY <1>4, AbortKeeps DEF BreakDeadlock
<1>5. CASE UNCHANGED vars
  <2>1. UNCHANGED <<row, counted, cycleLock>>
        /\ \A o \in Sessions : UNCHANGED Private(o)
    BY <1>5 DEF vars, request, work, locks, Private
  <2>2. Shape' /\ InFlight' = InFlight
    BY <1>5 DEF IInv, Shape, InFlight, vars, request, work, locks
  <2>3. \A o \in Sessions : Visits(o)' = Visits(o) /\ Touched(o)' = Touched(o)
    BY <2>1, Bystander
  <2>4. \A r \in InFlight' : \A o \in InFlight' \ {r} : Apart(r, o)'
    BY <2>1, <2>2, <2>3 DEF IInv, Apart, Private, InFlight
  <2>5. \A o \in InFlight' : ReadsHold(o)' /\ (pc'[o] = "flushed" => WorkAhead(o)')
    BY <2>1, <2>2, <2>3, Bystander DEF IInv, WorkAhead, Private, InFlight
  <2>6. ASSUME NEW o \in Sessions, NEW c \in Cycles, cycleLock'[c] = o PROVE LockedTotal(o, c)'
    BY <2>1, <2>6, Bystander DEF IInv
  <2>7. TotalsMatch'
    BY <2>1 DEF IInv, TotalsMatch
  <2> QED BY <2>2, <2>4, <2>5, <2>6, <2>7 DEF IInv
<1> QED BY <1>1, <1>2, <1>3, <1>4, <1>5 DEF Next
\* As long as no two requests work on the same payment at once, and no request
\* recomputes a cycle between the two reads an edit makes of it, every
\* committed total is the sum of the payments allocated to the cycle, with
\* any number of requests, payments and cycles: the lock on the cycle and the
\* recomputation under it are enough.
THEOREM TotalsAlwaysMatch ==
    ASSUME ~SameTxnOverlap, ~StaleCycleReads
    PROVE  Spec => []TotalsMatch
<1>1. Init => IInv
  BY InitIInv
<1>2. IInv /\ [Next]_vars => IInv'
  BY StepIInv DEF Separate
<1>3. IInv => TotalsMatch
  BY DEF IInv
<1> QED BY <1>1, <1>2, <1>3, PTL DEF Spec

\* Under the same condition the ledger, with its flushes, locks, recomputations
\* and commits, implements the one in which every operation happens at once on
\* the current row: only CreateTransaction and Commit show, the rest stutters.
THEOREM LedgerIsAtomic ==
    ASSUME ~SameTxnOverlap, ~StaleCycleReads
    PROVE  Spec => ImplementsAtomicLedger
<1>1. Init => IInv
  BY InitIInv
<1>2. IInv /\ [Next]_vars => IInv'
  BY StepIInv DEF Separate
<1>3. Init => Atomic!Init
  <2> SUFFICES ASSUME Init PROVE Atomic!Init
    OBVIOUS
  <2>1. IInv
    BY InitIInv
  <2>2. counted = [c \in Cycles |-> Total(row, c)]
    BY <2>1 DEF IInv, Shape, TotalsMatch
  <2>3. BlankRow.amount \in Amounts /\ row = [t \in Txns |-> BlankRow]
    BY BlankIsRow DEF Init, Row
  <2> QED BY <2>2, <2>3 DEF Atomic!Init, BlankRow
<1>4. IInv /\ IInv' /\ [Next]_vars => [Atomic!Next]_<<row, counted>>
  <2> SUFFICES ASSUME IInv, IInv', [Next]_vars PROVE [Atomic!Next]_<<row, counted>>
    OBVIOUS
  <2>1. Atomic!Balanced
    BY DEF IInv, Shape, TotalsMatch, Atomic!Balanced
  <2>2. ASSUME NEW t \in Txns, NEW c \in Cycles, NEW a \in Amounts, CreateTransaction(t, c, a)
        PROVE  Atomic!Next
    BY <2>1, <2>2 DEF CreateTransaction, Atomic!Next, Atomic!Create, Atomic!Replace
  <2>3. ASSUME NEW s \in Sessions, Commit(s) PROVE Atomic!Next
    <3>1. ReadsHold(s) /\ WorkAhead(s)
      BY <2>3 DEF IInv, Commit, InFlight
    <3> DEFINE t == txn[s]
    <3>2. t \in Txns /\ row[t] = mem[s] /\ row[t].status # "none" /\ Operation(row[t], want[s])
      BY <3>1 DEF ReadsHold
    <3>3. Atomic!Replace(t, want[s])
      BY <2>1, <2>3, <3>1 DEF Commit, WorkAhead, Atomic!Replace
    <3> HIDE DEF t
    <3>4. Atomic!Decide(t) \/ Atomic!Edit(t) \/ Atomic!DeleteOrRestore(t)
      BY <3>2, <3>3 DEF Operation, Atomic!Decide, Atomic!Edit, Atomic!DeleteOrRestore
    <3> QED BY <3>2, <3>4 DEF Atomic!Next
  <2>4. ASSUME NEW s \in Sessions, Start(s) PROVE UNCHANGED <<row, counted>>
    BY <2>4 DEF Start, LoadForConfirm, LoadForFail, LoadForUpdate, LoadForDelete,
       LoadForRestore, Load
  <2>5. ASSUME NEW s \in Sessions, LockLoan(s) \/ Flush(s) \/ RecomputeCycle(s)
        PROVE  UNCHANGED <<row, counted>>
    BY <2>5 DEF LockLoan, Flush, RecomputeCycle
  <2>6. ASSUME NEW s \in Sessions, Abort(s) \/ BreakDeadlock(s) PROVE UNCHANGED <<row, counted>>
    BY <2>6 DEF Abort, BreakDeadlock
  <2>7. CASE UNCHANGED vars
    BY <2>7 DEF vars
  <2> QED BY <2>2, <2>3, <2>4, <2>5, <2>6, <2>7 DEF Next, Progress
<1> QED BY <1>1, <1>2, <1>3, <1>4, PTL DEF Spec, ImplementsAtomicLedger, Atomic!Spec
-----------------------------------------------------------------------------
(***************************************************************************)
(* Which requests can lock each other out, whatever requests overlap.      *)
(***************************************************************************)

RingShape ==
    /\ pc \in [Sessions -> {"idle", "loaded", "locked", "flushed"}]
    /\ op \in [Sessions -> Ops]
    /\ txn = [s \in Sessions |-> txn[s]]
    /\ row \in [Txns -> Row]
    /\ mem \in [Sessions -> Row]
    /\ want \in [Sessions -> Row]
    /\ new \in [Sessions -> Row]
    /\ todo = [s \in Sessions |-> todo[s]]
    /\ cycleLock = [c \in Cycles |-> cycleLock[c]]

\* The loan is locked by the confirmation that is past its first step.
LoanHolder == \A s \in Sessions : loanLock = s => pc[s] \in {"locked", "flushed"}

\* A request that is not an edit leaves its payment in its cycle.
StaysInCycle(s) == op[s] # "update" => want[s].due_cycle_id = mem[s].due_cycle_id

\* It has one cycle to lock, and nothing left to do once it has.
OneCycle(s) ==
    op[s] # "update" =>
        /\ todo[s] = <<>> \/ \E c \in Cycles : todo[s] = <<c>>
        /\ \A c \in Cycles : cycleLock[c] = s => todo[s] = <<>>

\* A request in flight is about a payment.
AboutAPayment(s) == pc[s] # "idle" => txn[s] \in Txns

\* The work on cycles begins with the flush.
WorkAfterFlush(s) ==
    pc[s] # "flushed" => /\ todo[s] = <<>>
                         /\ \A c \in Cycles : cycleLock[c] # s

RingInv ==
    /\ RingShape
    /\ LoanHolder
    /\ \A s \in Sessions : StaysInCycle(s) /\ OneCycle(s) /\ WorkAfterFlush(s) /\ AboutAPayment(s)
-----------------------------------------------------------------------------
\* A set of at most one cycle is visited in one order.
LEMMA OrderOfOne ==
    ASSUME NEW S, NEW x \in Cycles, S = {} \/ S = {x}, NEW order \in Orders(S)
    PROVE  order = <<>> \/ \E c \in Cycles : order = <<c>>
<1>1. CASE S = {}
  <2>1. Cardinality(S) = 0
    BY <1>1, FS_EmptySet
  <2>2. order \in [1..0 -> S]
    BY <2>1 DEF Orders
  <2> QED
    BY <2>2
<1>2. CASE S = {x}
  <2>1. Cardinality(S) = 1
    BY <1>2, FS_Singleton
  <2>2. order \in [1..1 -> {x}]
    BY <1>2, <2>1 DEF Orders
  <2>3. order = <<x>>
    BY <2>2
  <2> QED
    BY <2>3
<1> QED
  BY <1>1, <1>2

\* What a request that is not an edit has to lock: its cycle, or nothing.
LEMMA TouchesOne ==
    ASSUME NEW s \in Sessions, want[s].due_cycle_id = mem[s].due_cycle_id,
           NEW order \in Orders(Touched(s))
    PROVE  order = <<>> \/ \E c \in Cycles : order = <<c>>
<1>1. CASE Touched(s) = {}
  <2>1. Cardinality({}) = 0
    BY FS_EmptySet
  <2>2. order \in [1..0 -> {}]
    BY <1>1, <2>1 DEF Orders
  <2> QED
    BY <2>2
<1>2. CASE Touched(s) # {}
  <2>1. Touched(s) = {mem[s].due_cycle_id} /\ mem[s].due_cycle_id \in Cycles
    BY <1>2 DEF Touched, Visits
  <2> QED
    BY <2>1, OrderOfOne
<1> QED
  BY <1>1, <1>2

\* The forms of the rows a request works with.
LEMMA BlankRowIsRow == ASSUME RowsAssumption PROVE BlankRow \in Row
<1>1. (CHOOSE a \in Amounts : TRUE) \in Amounts
  BY RowsAssumption DEF RowsAssumption
<1> QED
  BY <1>1 DEF BlankRow, Row

\* What the UPDATE leaves is a row again.
LEMMA WrittenIsRow ==
    ASSUME NEW current \in Row, NEW read \in Row, NEW wanted \in Row
    PROVE  Written(current, read, wanted) \in Row
  BY DEF Written, Row

\* The end of a request takes all its locks with it.
LEMMA ReleaseKeepsRingInv ==
    ASSUME LedgerAssumption, RowsAssumption, RingInv, NEW s \in Sessions, Release(s),
           row' \in [Txns -> Row]
    PROVE  RingInv'
<1>0. BlankRow \in Row
  BY BlankRowIsRow
<1>1. RingShape'
  <2>1. /\ mem' \in [Sessions -> Row] /\ want' \in [Sessions -> Row]
        /\ new' \in [Sessions -> Row]
    BY <1>0 DEF RingInv, RingShape, Release
  <2>2. /\ pc' \in [Sessions -> {"idle", "loaded", "locked", "flushed"}]
        /\ op' \in [Sessions -> Ops]
    BY DEF RingInv, RingShape, Release, Ops
  <2>3. /\ txn' = [o \in Sessions |-> txn'[o]]
        /\ todo' = [o \in Sessions |-> todo'[o]]
        /\ cycleLock' = [c \in Cycles |-> cycleLock'[c]]
    BY DEF RingInv, RingShape, Release
  <2> QED
    BY <2>1, <2>2, <2>3 DEF RingShape
<1>2. LoanHolder'
  BY LedgerAssumption DEF RingInv, RingShape, LoanHolder, Release, ReleaseLoan, LedgerAssumption
<1>3. ASSUME NEW o \in Sessions
      PROVE  (StaysInCycle(o) /\ OneCycle(o) /\ WorkAfterFlush(o) /\ AboutAPayment(o))'
  <2>1. CASE o = s
    <3>1. /\ pc'[s] = "idle" /\ mem'[s] = BlankRow /\ want'[s] = BlankRow /\ todo'[s] = <<>>
          /\ \A c \in Cycles : cycleLock'[c] # s
      BY LedgerAssumption DEF RingInv, RingShape, Release, LedgerAssumption
    <3> QED
      BY <2>1, <3>1 DEF StaysInCycle, OneCycle, WorkAfterFlush, AboutAPayment
  <2>2. CASE o # s
    <3>1. /\ pc'[o] = pc[o] /\ mem'[o] = mem[o] /\ want'[o] = want[o] /\ todo'[o] = todo[o]
          /\ op'[o] = op[o] /\ txn'[o] = txn[o]
          /\ \A c \in Cycles : cycleLock'[c] = o => cycleLock[c] = o
      BY <2>2, LedgerAssumption DEF RingInv, RingShape, Release, LedgerAssumption
    <3> QED
      BY <3>1 DEF RingInv, StaysInCycle, OneCycle, WorkAfterFlush, AboutAPayment
  <2> QED
    BY <2>1, <2>2
<1> QED
  BY <1>1, <1>2, <1>3 DEF RingInv

\* The beginning of a request that is about a row as it was read.
LEMMA LoadKeepsRingInv ==
    ASSUME RingInv, NEW s \in Sessions, NEW t \in Txns, NEW handler \in Ops, NEW wanted \in Row,
           NEW named, Load(s, t, handler, wanted, named),
           handler # "update" => wanted.due_cycle_id = row[t].due_cycle_id
    PROVE  RingInv'
<1>1. /\ pc[s] = "idle" /\ pc' = [pc EXCEPT ![s] = "loaded"]
      /\ op' = [op EXCEPT ![s] = handler] /\ txn' = [txn EXCEPT ![s] = t]
      /\ mem' = [mem EXCEPT ![s] = row[t]] /\ want' = [want EXCEPT ![s] = wanted]
      /\ UNCHANGED <<row, new, todo, loanLock, cycleLock>>
  BY DEF Load, work, locks
<1>2. RingShape' /\ LoanHolder'
  BY <1>1 DEF RingInv, RingShape, LoanHolder
<1>3. \A o \in Sessions : (StaysInCycle(o) /\ WorkAfterFlush(o) /\ AboutAPayment(o))'
  BY <1>1 DEF RingInv, RingShape, StaysInCycle, WorkAfterFlush, AboutAPayment
<1> QED
  BY <1>1, <1>2, <1>3 DEF RingInv, RingShape, OneCycle, WorkAfterFlush

\* The requests that are not edits leave the cycle of their row alone.
LEMMA WantedRow ==
    ASSUME NEW r \in Row
    PROVE  /\ \A v \in {"SUCCESS", "FAILED"} :
                 /\ [r EXCEPT !.status = v] \in Row
                 /\ [r EXCEPT !.status = v].due_cycle_id = r.due_cycle_id
           /\ \A b \in BOOLEAN :
                 /\ [r EXCEPT !.is_deleted = b] \in Row
                 /\ [r EXCEPT !.is_deleted = b].due_cycle_id = r.due_cycle_id
           /\ \A c \in Cycles \cup {NoCycle}, a \in Amounts :
                 /\ [r EXCEPT !.due_cycle_id = c, !.amount = a] \in Row
                 /\ [r EXCEPT !.amount = a] \in Row
  BY DEF Row, TransactionStatus

\* A step of a request.
LEMMA StepKeepsRingInv ==
    ASSUME LedgerAssumption, RowsAssumption, RingInv, [Next]_vars
    PROVE  RingInv'
<1>1. ASSUME UNCHANGED <<pc, op, txn, mem, want, new, todo, loanLock, cycleLock>>,
             row' \in [Txns -> Row]
      PROVE  RingInv'
  BY <1>1 DEF RingInv, RingShape, LoanHolder, StaysInCycle, OneCycle, WorkAfterFlush, AboutAPayment
<1>2. ASSUME NEW t \in Txns, NEW c \in Cycles, NEW a \in Amounts, CreateTransaction(t, c, a)
      PROVE  RingInv'
  <2>1. row' \in [Txns -> Row]
    BY <1>2 DEF CreateTransaction, RingInv, RingShape, Row, TransactionStatus
  <2> QED
    BY <1>1, <1>2, <2>1 DEF CreateTransaction, request, work, locks
<1>4. ASSUME NEW s \in Sessions, Start(s) PROVE RingInv'
  <2>1. PICK t \in Txns :
            \/ LoadForConfirm(s, t)
            \/ LoadForFail(s, t)
            \/ \E c \in Cycles \cup {NoCycle}, a \in Amounts : LoadForUpdate(s, t, c, a)
            \/ LoadForDelete(s, t)
            \/ LoadForRestore(s, t)
    BY <1>4 DEF Start
  <2>2. row[t] \in Row
    BY DEF RingInv, RingShape
  <2>3. CASE LoadForConfirm(s, t)
    BY <2>2, <2>3, WantedRow, LoadKeepsRingInv DEF LoadForConfirm, Ops
  <2>4. CASE LoadForFail(s, t)
    BY <2>2, <2>4, WantedRow, LoadKeepsRingInv DEF LoadForFail, Ops
  <2>5. ASSUME NEW c \in Cycles \cup {NoCycle}, NEW a \in Amounts, LoadForUpdate(s, t, c, a)
        PROVE  RingInv'
    <3>1. PICK wanted \in Row, named \in SUBSET Cycles : Load(s, t, "update", wanted, named)
      BY <2>2, <2>5, WantedRow DEF LoadForUpdate
    <3> QED
      BY <3>1, LoadKeepsRingInv DEF Ops
  <2>6. CASE LoadForDelete(s, t)
    BY <2>2, <2>6, WantedRow, LoadKeepsRingInv DEF LoadForDelete, Ops
  <2>7. CASE LoadForRestore(s, t)
    BY <2>2, <2>7, WantedRow, LoadKeepsRingInv DEF LoadForRestore, Ops
  <2> QED
    BY <2>1, <2>3, <2>4, <2>5, <2>6, <2>7
<1>5. ASSUME NEW s \in Sessions, LockLoan(s) PROVE RingInv'
  BY <1>5, LedgerAssumption DEF LockLoan, request, work, RingInv, RingShape, LoanHolder, StaysInCycle,
     OneCycle, WorkAfterFlush, AboutAPayment, LedgerAssumption
<1>6. ASSUME NEW s \in Sessions, Flush(s) PROVE RingInv'
  <2>1. PICK order \in Orders(Touched(s)) : todo' = [todo EXCEPT ![s] = order]
    BY <1>6 DEF Flush
  <2>2. /\ pc[s] # "flushed" /\ pc' = [pc EXCEPT ![s] = "flushed"]
        /\ new' = [new EXCEPT ![s] = Written(row[txn[s]], mem[s], want[s])]
        /\ UNCHANGED <<row, op, txn, mem, want, loanLock, cycleLock>>
    BY <1>6 DEF Flush, ReadyToFlush, request, locks
  <2>3. op[s] # "update" => order = <<>> \/ \E c \in Cycles : order = <<c>>
    BY TouchesOne DEF RingInv, StaysInCycle
  <2>4. Written(row[txn[s]], mem[s], want[s]) \in Row
    <3>1. pc[s] # "idle"
      BY <1>6 DEF Flush, ReadyToFlush
    <3> QED
      BY <3>1, WrittenIsRow DEF RingInv, RingShape, AboutAPayment
  <2>5. RingShape' /\ LoanHolder'
    <3> DEFINE written == Written(row[txn[s]], mem[s], want[s])
    <3>1. written \in Row
      BY <2>4
    <3>2. new' = [new EXCEPT ![s] = written]
      BY <2>2
    <3> HIDE DEF written
    <3>3. new' \in [Sessions -> Row]
      BY <3>1, <3>2 DEF RingInv, RingShape
    <3> QED
      BY <2>1, <2>2, <3>3 DEF RingInv, RingShape, LoanHolder
  <2>6. ASSUME NEW o \in Sessions
        PROVE  (StaysInCycle(o) /\ OneCycle(o) /\ WorkAfterFlush(o) /\ AboutAPayment(o))'
    <3>1. (StaysInCycle(o) /\ AboutAPayment(o))'
      <4>1. StaysInCycle(o)'
        BY <2>2 DEF RingInv, StaysInCycle
      <4>2. pc[s] # "idle" /\ (o # s => pc'[o] = pc[o]) /\ txn' = txn
        BY <1>6, <2>2 DEF Flush, ReadyToFlush, RingInv, RingShape
      <4>3. AboutAPayment(o)'
        BY <4>2 DEF RingInv, AboutAPayment
      <4> QED
        BY <4>1, <4>3
    <3>2. CASE o = s
      <4>1. /\ pc'[s] = "flushed" /\ todo'[s] = order /\ op'[s] = op[s]
            /\ \A c \in Cycles : cycleLock'[c] # s
        BY <2>1, <2>2 DEF RingInv, RingShape, WorkAfterFlush
      <4> QED
        BY <2>3, <3>1, <3>2, <4>1 DEF OneCycle, WorkAfterFlush
    <3>3. CASE o # s
      <4>1. /\ pc'[o] = pc[o] /\ todo'[o] = todo[o] /\ op'[o] = op[o]
            /\ cycleLock' = cycleLock
        BY <2>1, <2>2, <3>3 DEF RingInv, RingShape
      <4> QED
        BY <3>1, <4>1 DEF RingInv, OneCycle, WorkAfterFlush
    <3> QED
      BY <3>2, <3>3
  <2> QED
    BY <2>5, <2>6 DEF RingInv
<1>7. ASSUME NEW s \in Sessions, RecomputeCycle(s) PROVE RingInv'
  <2> DEFINE c == Head(todo[s])
  <2>1. /\ pc[s] = "flushed" /\ todo[s] # <<>>
        /\ cycleLock' = [cycleLock EXCEPT ![c] = s]
        /\ todo' = [todo EXCEPT ![s] = Tail(todo[s])]
        /\ UNCHANGED <<row, new, pc, op, txn, mem, want, loanLock>>
    BY <1>7 DEF RecomputeCycle, request, RingInv, RingShape
  <2>2. op[s] # "update" => Tail(todo[s]) = <<>>
    <3>1. ASSUME NEW d, todo[s] = <<d>> PROVE Tail(todo[s]) = <<>>
      BY <3>1
    <3> QED
      BY <2>1, <3>1 DEF RingInv, OneCycle
  <2>3. RingShape' /\ LoanHolder'
    BY <2>1 DEF RingInv, RingShape, LoanHolder
  <2> HIDE DEF c
  <2>4. \A o \in Sessions :
            (StaysInCycle(o) /\ OneCycle(o) /\ WorkAfterFlush(o) /\ AboutAPayment(o))'
    BY <2>1, <2>2 DEF RingInv, RingShape, StaysInCycle, OneCycle, WorkAfterFlush, AboutAPayment
  <2> QED
    BY <2>3, <2>4 DEF RingInv
<1>8. ASSUME NEW s \in Sessions, Commit(s) \/ Abort(s) \/ BreakDeadlock(s) PROVE RingInv'
  <2>1. Release(s)
    BY <1>8 DEF Commit, Abort, BreakDeadlock
  <2>2. row' \in [Txns -> Row]
    BY <1>8 DEF Commit, Abort, BreakDeadlock, RingInv, RingShape
  <2> QED
    BY <2>1, <2>2, LedgerAssumption, RowsAssumption, ReleaseKeepsRingInv
<1> QED
  <2>1. CASE UNCHANGED vars
    BY <1>1, <2>1 DEF vars, request, work, locks, RingInv, RingShape
  <2> QED
    BY <1>2, <1>4, <1>5, <1>6, <1>7, <1>8, <2>1 DEF Next, Progress
-----------------------------------------------------------------------------
(* Rings.                                                                  *)

\* A request that waits for a cycle waits for one that has it, or is about to set it.
LEMMA WaitsForFlushedOrLoan ==
    ASSUME RingInv, NEW s \in Sessions, NEW o \in Sessions, WaitsFor(s, o),
           op[s] # "update", op[o] # "update"
    PROVE  \/ pc[o] = "flushed" /\ pc[s] = "flushed" /\ todo[o] = <<>>
           \/ pc[o] \in {"locked", "flushed"} /\ pc[s] # "flushed"
<1> USE DEF RingInv
<1>1. CASE pc[s] = "loaded" /\ op[s] = "confirm" /\ loanLock = o
  BY <1>1 DEF LoanHolder
<1>2. CASE ReadyToFlush(s) /\ WroteTxn(o, txn[s])
  BY <1>2 DEF ReadyToFlush, WroteTxn
<1>3. CASE ReadyToFlush(s) /\ \E c \in Cycles : SetsCycle(s, c) /\ cycleLock[c] = o
  BY <1>3 DEF SetsCycle, StaysInCycle
<1>4. CASE pc[s] = "flushed" /\ todo[s] # <<>> /\ HoldsCycle(o, Head(todo[s]))
  <2>1. cycleLock[Head(todo[s])] = o /\ Head(todo[s]) \in Cycles
    BY <1>4 DEF HoldsCycle, SetsCycle, StaysInCycle, OneCycle
  <2> QED
    BY <1>4, <2>1 DEF OneCycle, WorkAfterFlush
<1> QED
  BY <1>1, <1>2, <1>3, <1>4 DEF WaitsFor

\* A request that is past its flush and has locked its cycles waits for nobody.
LEMMA NothingLeftToWaitFor ==
    ASSUME NEW s \in Sessions, NEW o \in Sessions, pc[s] = "flushed", todo[s] = <<>>
    PROVE  ~WaitsFor(s, o)
  BY DEF WaitsFor, ReadyToFlush

\* In a ring without an edit nobody could be past the flush, as nobody past the flush
\* waits for another one that waits; so the holder of the loan is before it and waits
\* for nobody.
LEMMA RingHasAnEdit ==
    ASSUME RingInv, NEW ring \in Rings
    PROVE  \E s \in ring : op[s] = "update"
<1>1. ring \subseteq Sessions /\ ring # {} /\ \A x \in ring : \E y \in ring : WaitsFor(x, y)
  BY DEF Rings
<1>2. ASSUME \A s \in ring : op[s] # "update" PROVE FALSE
  <2>1. ASSUME NEW x \in ring, pc[x] = "flushed" PROVE FALSE
    <3>1. PICK y \in ring : WaitsFor(x, y)
      BY <1>1
    <3>2. pc[y] = "flushed" /\ todo[y] = <<>>
      BY <1>1, <1>2, <2>1, <3>1, WaitsForFlushedOrLoan
    <3>3. PICK z \in ring : WaitsFor(y, z)
      BY <1>1
    <3> QED
      BY <1>1, <3>2, <3>3, NothingLeftToWaitFor
  <2>2. PICK x \in ring : TRUE
    BY <1>1
  <2>3. PICK y \in ring : WaitsFor(x, y)
    BY <1>1
  <2>4. pc[y] = "locked"
    BY <1>1, <1>2, <2>1, <2>3, WaitsForFlushedOrLoan
  <2>5. PICK z \in ring : WaitsFor(y, z)
    BY <1>1
  <2>6. WroteTxn(z, txn[y])
    BY <1>1, <1>2, <2>4, <2>5 DEF WaitsFor, SetsCycle, RingInv, StaysInCycle
  <2> QED
    BY <2>1, <2>6 DEF WroteTxn
<1> QED
  BY <1>2

\* Only edits can lock each other out, whatever requests overlap: a confirmation, a
\* failure, a deletion or a restoration takes loan, payment and one cycle in this order.
THEOREM DeadlocksNeedAnEdit == Spec => []OnlyEditsDeadlock
<1>1. Init => RingInv
  <2> SUFFICES ASSUME Init PROVE RingInv
    OBVIOUS
  <2>1. RingShape
    BY BlankRowIsRow, RowsAssumption DEF Init, RingShape, Ops
  <2>2. /\ LoanHolder
        /\ \A s \in Sessions :
               StaysInCycle(s) /\ OneCycle(s) /\ WorkAfterFlush(s) /\ AboutAPayment(s)
    BY LedgerAssumption DEF Init, LoanHolder, StaysInCycle, OneCycle, WorkAfterFlush,
       AboutAPayment, LedgerAssumption
  <2> QED
    BY <2>1, <2>2 DEF RingInv
<1>2. RingInv /\ [Next]_vars => RingInv'
  BY LedgerAssumption, RowsAssumption, StepKeepsRingInv
<1>3. RingInv => OnlyEditsDeadlock
  BY RingHasAnEdit DEF OnlyEditsDeadlock
<1> QED
  BY <1>1, <1>2, <1>3, PTL DEF Spec
-----------------------------------------------------------------------------
(***************************************************************************)
(* Types, whatever requests overlap.                                       *)
(***************************************************************************)

TypeInv == TypeOK /\ \A s \in Sessions : AboutAPayment(s)

\* A total of amounts is an amount of money.
LEMMA TotalIsNat ==
    ASSUME NEW rows \in [Txns -> Row], NEW c
    PROVE  Total(rows, c) \in Nat
<1> DEFINE S == Counting(rows, c)
           f == [t \in S |-> rows[t].amount]
<1>1. IsFiniteSet(S)
  BY RowsAssumption, FS_Subset DEF Counting, RowsAssumption
<1>2. \A t \in S : f[t] \in Nat
  BY RowsAssumption DEF Counting, Row, RowsAssumption
<1> HIDE DEF S, f
<1>3. SumOver(f, S) \in Nat
  BY <1>1, <1>2, SumNat
<1> QED
  BY <1>3 DEF Total, S, f

\* A rollback returns the rows that were read.
LEMMA ReleaseKeepsTypes ==
    ASSUME TypeInv, NEW s \in Sessions, Release(s),
           row' \in [Txns -> Row], counted' \in [Cycles -> Nat]
    PROVE  TypeInv'
<1>0. BlankRow \in Row
  BY BlankIsRow
<1>1. /\ pc' \in [Sessions -> {"idle", "loaded", "locked", "flushed"}]
      /\ op' \in [Sessions -> Ops]
      /\ txn' \in [Sessions -> Txns \cup {NoTxn}]
      /\ mem' \in [Sessions -> Row] /\ want' \in [Sessions -> Row]
      /\ new' \in [Sessions -> Row]
  BY <1>0 DEF TypeInv, TypeOK, Release, Ops
<1>2. /\ held' \in [Sessions -> SUBSET Cycles]
      /\ known' \in [Sessions -> [Cycles -> Nat]]
      /\ fresh' \in [Sessions -> [Cycles -> Nat]]
      /\ todo' \in [Sessions -> Seq(Cycles)]
  BY DEF TypeInv, TypeOK, Release, Zero
<1>3. /\ loanLock' \in Sessions \cup {Nobody}
      /\ cycleLock' \in [Cycles -> Sessions \cup {Nobody}]
  BY DEF TypeInv, TypeOK, Release, ReleaseLoan
<1>4. \A o \in Sessions : AboutAPayment(o)'
  BY DEF TypeInv, TypeOK, Release, AboutAPayment
<1> QED
  BY <1>1, <1>2, <1>3, <1>4 DEF TypeInv, TypeOK

\* A session that loads a payment holds a copy of a row.
LEMMA LoadKeepsTypes ==
    ASSUME TypeInv, NEW s \in Sessions, NEW t \in Txns, NEW handler \in Ops,
           NEW wanted \in Row, NEW named \in SUBSET Cycles, Load(s, t, handler, wanted, named)
    PROVE  TypeInv'
<1>1. /\ pc' = [pc EXCEPT ![s] = "loaded"] /\ op' = [op EXCEPT ![s] = handler]
      /\ txn' = [txn EXCEPT ![s] = t] /\ mem' = [mem EXCEPT ![s] = row[t]]
      /\ want' = [want EXCEPT ![s] = wanted] /\ held' = [held EXCEPT ![s] = named]
      /\ UNCHANGED <<row, counted, new, todo, fresh, loanLock, cycleLock>>
  BY DEF Load, work, locks
<1>2. known' \in [Sessions -> [Cycles -> Nat]]
  <2> DEFINE seen == [c \in Cycles |-> IF c \in named THEN counted[c] ELSE 0]
  <2>1. seen \in [Cycles -> Nat]
    BY DEF TypeInv, TypeOK
  <2>2. known' = [known EXCEPT ![s] = seen]
    BY DEF Load
  <2> HIDE DEF seen
  <2> QED
    BY <2>1, <2>2 DEF TypeInv, TypeOK
<1> QED
  BY <1>1, <1>2 DEF TypeInv, TypeOK, AboutAPayment

\* The types after each step of a session.
LEMMA StepKeepsTypes ==
    ASSUME TypeInv, [Next]_vars
    PROVE  TypeInv'
<1>1. ASSUME NEW t \in Txns, NEW c \in Cycles, NEW a \in Amounts, CreateTransaction(t, c, a)
      PROVE  TypeInv'
  <2>1. row' \in [Txns -> Row]
    BY <1>1 DEF CreateTransaction, TypeInv, TypeOK, Row, TransactionStatus
  <2> QED
    BY <1>1, <2>1 DEF CreateTransaction, request, work, locks, TypeInv, TypeOK, AboutAPayment
<1>2. ASSUME NEW s \in Sessions, Start(s) PROVE TypeInv'
  <2>1. PICK t \in Txns :
            \/ LoadForConfirm(s, t)
            \/ LoadForFail(s, t)
            \/ \E c \in Cycles \cup {NoCycle}, a \in Amounts : LoadForUpdate(s, t, c, a)
            \/ LoadForDelete(s, t)
            \/ LoadForRestore(s, t)
    BY <1>2 DEF Start
  <2>2. row[t] \in Row
    BY DEF TypeInv, TypeOK
  <2>3. PICK handler \in Ops, wanted \in Row, named \in SUBSET Cycles :
            Load(s, t, handler, wanted, named)
    <3>1. CASE LoadForConfirm(s, t)
      BY <2>2, <3>1, WantedRow DEF LoadForConfirm, Ops
    <3>2. CASE LoadForFail(s, t)
      BY <2>2, <3>2, WantedRow DEF LoadForFail, Ops
    <3>3. ASSUME NEW c \in Cycles \cup {NoCycle}, NEW a \in Amounts, LoadForUpdate(s, t, c, a)
          PROVE  \E wanted \in Row, named \in SUBSET Cycles : Load(s, t, "update", wanted, named)
      BY <2>2, <3>3, WantedRow DEF LoadForUpdate
    <3>4. CASE LoadForDelete(s, t)
      BY <2>2, <3>4, WantedRow DEF LoadForDelete, Ops
    <3>5. CASE LoadForRestore(s, t)
      BY <2>2, <3>5, WantedRow DEF LoadForRestore, Ops
    <3>6. "update" \in Ops
      BY DEF Ops
    <3> QED
      BY <2>1, <3>1, <3>2, <3>3, <3>4, <3>5, <3>6
  <2> QED
    BY <2>3, LoadKeepsTypes
<1>3. ASSUME NEW s \in Sessions, LockLoan(s) PROVE TypeInv'
  BY <1>3 DEF LockLoan, request, work, TypeInv, TypeOK, AboutAPayment
<1>4. ASSUME NEW s \in Sessions, Flush(s) PROVE TypeInv'
  <2>1. PICK order \in Orders(Touched(s)) : todo' = [todo EXCEPT ![s] = order]
    BY <1>4 DEF Flush
  <2>2. /\ pc[s] # "idle" /\ pc' = [pc EXCEPT ![s] = "flushed"]
        /\ new' = [new EXCEPT ![s] = Written(row[txn[s]], mem[s], want[s])]
        /\ UNCHANGED <<row, counted, op, txn, mem, want, held, known, fresh, loanLock, cycleLock>>
    BY <1>4 DEF Flush, ReadyToFlush, request, locks
  <2>3. order \in Seq(Cycles)
    BY OrderOfTouched
  <2> DEFINE written == Written(row[txn[s]], mem[s], want[s])
  <2>4. written \in Row
    BY <2>2, WrittenIsRow DEF TypeInv, TypeOK, AboutAPayment
  <2>5. new' = [new EXCEPT ![s] = written]
    BY <2>2
  <2> HIDE DEF written
  <2>6. new' \in [Sessions -> Row] /\ todo' \in [Sessions -> Seq(Cycles)]
    BY <2>1, <2>3, <2>4, <2>5 DEF TypeInv, TypeOK
  <2>7. \A o \in Sessions : AboutAPayment(o)'
    BY <2>2 DEF TypeInv, TypeOK, AboutAPayment
  <2> QED
    BY <2>2, <2>6, <2>7 DEF TypeInv, TypeOK
<1>5. ASSUME NEW s \in Sessions, RecomputeCycle(s) PROVE TypeInv'
  <2> DEFINE c == Head(todo[s])  total == Total(Seen(s), c)
  <2>1. /\ todo[s] # <<>>
        /\ cycleLock' = [cycleLock EXCEPT ![c] = s]
        /\ fresh' = [fresh EXCEPT ![s] = [@ EXCEPT ![c] = total]]
        /\ todo' = [todo EXCEPT ![s] = Tail(@)]
        /\ UNCHANGED <<row, counted, pc, op, txn, mem, want, held, known, new, loanLock>>
    BY <1>5 DEF RecomputeCycle, request
  <2>2. c \in Cycles /\ Tail(todo[s]) \in Seq(Cycles)
    BY <2>1, HeadAndTail DEF TypeInv, TypeOK
  <2>3. Seen(s) \in [Txns -> Row]
    BY DEF TypeInv, TypeOK, Seen
  <2>4. total \in Nat
    BY <2>3, TotalIsNat
  <2> HIDE DEF c, total
  <2>5. /\ cycleLock' \in [Cycles -> Sessions \cup {Nobody}]
        /\ todo' \in [Sessions -> Seq(Cycles)]
    BY <2>1, <2>2 DEF TypeInv, TypeOK
  <2>6. fresh' \in [Sessions -> [Cycles -> Nat]]
    BY <2>1, <2>2, <2>4 DEF TypeInv, TypeOK
  <2>7. \A o \in Sessions : AboutAPayment(o)'
    BY <2>1 DEF TypeInv, AboutAPayment
  <2> QED
    BY <2>1, <2>5, <2>6, <2>7 DEF TypeInv, TypeOK
<1>6. ASSUME NEW s \in Sessions, Commit(s) \/ Abort(s) \/ BreakDeadlock(s) PROVE TypeInv'
  <2>1. Release(s)
    BY <1>6 DEF Commit, Abort, BreakDeadlock
  <2>2. row' \in [Txns -> Row]
    BY <1>6 DEF Commit, Abort, BreakDeadlock, TypeInv, TypeOK
  <2>3. counted' \in [Cycles -> Nat]
    BY <1>6 DEF Commit, Abort, BreakDeadlock, TypeInv, TypeOK
  <2> QED
    BY <2>1, <2>2, <2>3, ReleaseKeepsTypes
<1>7. CASE UNCHANGED vars
  BY <1>7 DEF vars, request, work, locks, TypeInv, TypeOK, AboutAPayment
<1> QED
  BY <1>1, <1>2, <1>3, <1>4, <1>5, <1>6, <1>7 DEF Next, Progress

\* Every variable of the ledger keeps its type, whatever requests overlap: the
\* totals of the cycles, committed or not, are amounts of money.
THEOREM LedgerTypeCorrect == Spec => []TypeOK
<1>1. Init => TypeInv
  BY BlankIsRow DEF Init, TypeInv, TypeOK, AboutAPayment, Ops, Zero
<1>2. TypeInv /\ [Next]_vars => TypeInv'
  BY StepKeepsTypes
<1>3. TypeInv => TypeOK
  BY DEF TypeInv
<1> QED
  BY <1>1, <1>2, <1>3, PTL DEF Spec
=============================================================================
