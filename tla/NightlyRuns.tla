---------------------------- MODULE NightlyRuns ----------------------------
(***************************************************************************)
(* The runs of the nightly job: one by the clock, one after every start of *)
(* the host, some by hand.  The first two ask for an advisory lock, which  *)
(* belongs to a connection of the pool; a run commits after every loan,    *)
(* which gives its connection back, so that it may unlock on another one.  *)
(* Runs can overlap, stop half way and be repeated.  Every loan has one    *)
(* overdue cycle.                                                          *)
(***************************************************************************)
EXTENDS Naturals

CONSTANTS
    Loans,
    Runs,
    ByHand,  \* which of the runs may be those that are started by hand
    Conns,   \* connections of the pool
    LastDay, \* the days that are followed
    MaxHeld  \* how often one connection takes the lock without giving it back

ASSUME BoundsAssumption == LastDay \in Nat /\ MaxHeld \in Nat

VARIABLES
    byHand,   \* the runs that do not ask for the lock
    auto,     \* NIGHTLY_AUTO_PROPOSE_BAD_DEBT
    day,      \* days since the cycles were due
    cycle,    \* the state of the overdue cycle of each loan
    alerts,   \* how often each milestone of a loan was recorded
    run,      \* where each run is
    editing,  \* the loans for which an edit of a payment has read the cycle
    advisory  \* how often each connection holds the advisory lock

nightlyVars == <<byHand, auto, day, cycle, alerts, run, editing, advisory>>

-----------------------------------------------------------------------------
Milestones == {"30", "60", "cap"}
Verdicts == {"PAID_ON_TIME", "LATE_PAYMENT", "MISSED_CAPPED"}

\* The days on which a milestone is due: two windows, and all days from the cap on.
Notify30 == 1
Notify60 == 3
CatchUp == 2
CapDay == 2

DueOn(d, m) ==
    CASE m = "30" -> Notify30 <= d /\ d < Notify30 + CatchUp
      [] m = "60" -> Notify60 <= d /\ d < Notify60 + CatchUp
      [] m = "cap" -> CapDay <= d

NoRun == [at |-> "idle"]
NoConn == "none"

InUse == {run[r].conn : r \in {s \in Runs : run[s] # NoRun}}
Free == Conns \ InUse
\* A session keeps its connection for a transaction, the next one may get another.
ConnsFor(r) == IF run[r].conn = NoConn THEN Free ELSE {run[r].conn}

NightlyInit ==
    /\ byHand \in ByHand
    /\ auto \in BOOLEAN
    /\ day = 0
    /\ cycle = [l \in Loans |-> "UPCOMING"]
    /\ alerts = [l \in Loans |-> [m \in Milestones |-> 0]]
    /\ run = [r \in Runs |-> NoRun]
    /\ editing = {}
    /\ advisory = [c \in Conns |-> 0]

\* A run that is not given the lock does nothing.
Start(r) ==
    /\ run[r] = NoRun
    /\ \E c \in Free :
           /\ r \notin byHand => \A other \in Conns \ {c} : advisory[other] = 0
           /\ r \notin byHand => advisory[c] < MaxHeld
           /\ advisory' = IF r \in byHand THEN advisory
                                          ELSE [advisory EXCEPT ![c] = @ + 1]
           /\ run' = [run EXCEPT ![r] = [at |-> "between", today |-> day, todo |-> Loans,
                                         conn |-> c]]
    /\ UNCHANGED <<byHand, auto, day, cycle, alerts, editing>>

RowIsFree(l) == \A r \in Runs : run[r].at = "working" => run[r].loan # l

\* A past due cycle is promoted; what the run then finds due is recorded unless it
\* was before.
Promoted(status, d) == IF status = "UPCOMING" /\ d > 0 THEN "AWAITING_REVIEW" ELSE status
Found(l, d) ==
    {m \in Milestones :
        /\ DueOn(d, m) /\ alerts[l][m] = 0
        /\ Promoted(cycle[l], d) \in {"AWAITING_REVIEW"} \cup IF m = "cap" THEN {} ELSE {"LATE_PAYMENT"}}

Take(r, l, c) ==
    run' = [run EXCEPT ![r] = [at |-> "working", today |-> run[r].today, todo |-> run[r].todo \ {l},
                               conn |-> c, loan |-> l, read |-> cycle[l],
                               found |-> Found(l, run[r].today)]]

\* Mutant: the loan is not locked.
WorkUnlocked(r) ==
    /\ run[r].at = "between"
    /\ \E l \in run[r].todo, c \in ConnsFor(r) : Take(r, l, c)
    /\ UNCHANGED <<byHand, auto, day, cycle, alerts, editing, advisory>>

\* The loan is locked; then its cycles, which are not locked, and what was recorded
\* about them are read.
Work(r) ==
    /\ run[r].at = "between"
    /\ \E l \in run[r].todo, c \in ConnsFor(r) : RowIsFree(l) /\ Take(r, l, c)
    /\ UNCHANGED <<byHand, auto, day, cycle, alerts, editing, advisory>>

Proceed(r) ==
    run' = [run EXCEPT ![r] = [at |-> "between", today |-> run[r].today, todo |-> run[r].todo,
                               conn |-> NoConn]]

\* The alerts and the promotion; with auto-proposal on the cap makes the cycle
\* MISSED_CAPPED and is not recorded.  Only a status that differs from the one read
\* is written.
CommitLoan(r) ==
    /\ run[r].at = "working"
    /\ LET l == run[r].loan
           capped == auto /\ "cap" \in run[r].found
           status == IF capped THEN "MISSED_CAPPED" ELSE Promoted(run[r].read, run[r].today)
           recorded == IF auto THEN run[r].found \ {"cap"} ELSE run[r].found
       IN  /\ alerts' = [alerts EXCEPT ![l] =
                            [m \in Milestones |-> @[m] + IF m \in recorded THEN 1 ELSE 0]]
           /\ cycle' = IF status = run[r].read THEN cycle ELSE [cycle EXCEPT ![l] = status]
    /\ Proceed(r)
    /\ UNCHANGED <<byHand, auto, day, editing, advisory>>

\* A loan that fails is rolled back; the run goes on.
LoanFails(r) ==
    /\ run[r].at = "working"
    /\ Proceed(r)
    /\ UNCHANGED <<byHand, auto, day, cycle, alerts, editing, advisory>>

\* The unlock does nothing on a connection that does not hold the lock.
FinishRun(r) ==
    /\ run[r].at = "between" /\ run[r].todo = {}
    /\ IF r \in byHand
       THEN UNCHANGED advisory
       ELSE \E c \in ConnsFor(r) :
                advisory' = [advisory EXCEPT ![c] = IF @ = 0 THEN 0 ELSE @ - 1]
    /\ run' = [run EXCEPT ![r] = NoRun]
    /\ UNCHANGED <<byHand, auto, day, cycle, alerts, editing>>

\* The host is powered off, or the process dies.
Dies ==
    /\ run' = [r \in Runs |-> NoRun]
    /\ editing' = {}
    /\ advisory' = [c \in Conns |-> 0]
    /\ UNCHANGED <<byHand, auto, day, cycle, alerts>>

\* A connection that is older than the pool allows is opened anew.
Recycle(c) ==
    /\ c \in Free
    /\ advisory' = [advisory EXCEPT ![c] = 0]
    /\ UNCHANGED <<byHand, auto, day, cycle, alerts, editing, run>>

NextDay ==
    /\ day < LastDay
    /\ day' = day + 1
    /\ UNCHANGED <<byHand, auto, cycle, alerts, editing, run, advisory>>

\* classify and reclassify lock the loan, as the runs do.
Judged(l, verdict) ==
    /\ RowIsFree(l)
    /\ cycle' = [cycle EXCEPT ![l] = verdict]
    /\ UNCHANGED <<byHand, auto, day, alerts, run, editing, advisory>>

\* A payment that completes its cycle: one that is restored, or edited without
\* naming the cycle, locks and reads the cycle, not the loan (a confirmation locks
\* both, so it comes when no run works on the loan).
PaidInFull(l) ==
    /\ cycle[l] = "AWAITING_REVIEW"
    /\ cycle' = [cycle EXCEPT ![l] = "PAID_ON_TIME"]
    /\ UNCHANGED <<byHand, auto, day, alerts, run, editing, advisory>>

\* An edit reads the cycle before it locks it, and settles it by what it has read.
ReadForEdit(l) ==
    /\ cycle[l] = "AWAITING_REVIEW"
    /\ editing' = editing \cup {l}
    /\ UNCHANGED <<byHand, auto, day, cycle, alerts, run, advisory>>

EditSettles(l) ==
    /\ l \in editing
    /\ editing' = editing \ {l}
    /\ cycle' = [cycle EXCEPT ![l] = "PAID_ON_TIME"]
    /\ UNCHANGED <<byHand, auto, day, alerts, run, advisory>>

NightlyNext ==
    \/ \E r \in Runs : Start(r) \/ Work(r) \/ CommitLoan(r) \/ LoanFails(r) \/ FinishRun(r)
    \/ \E c \in Conns : Recycle(c)
    \/ \E l \in Loans :
          \/ \E verdict \in Verdicts : Judged(l, verdict)
          \/ PaidInFull(l) \/ ReadForEdit(l) \/ EditSettles(l)
    \/ Dies \/ NextDay

NightlySpec == NightlyInit /\ [][NightlyNext]_nightlyVars

-----------------------------------------------------------------------------
NightlyTypeOK ==
    /\ byHand \in ByHand /\ auto \in BOOLEAN /\ day \in 0..LastDay
    /\ cycle \in [Loans -> {"UPCOMING", "AWAITING_REVIEW"} \cup Verdicts]
    /\ DOMAIN alerts = Loans
    /\ \A r \in Runs : run[r].at \in {"idle", "between", "working"}
    /\ editing \subseteq Loans
    /\ \A c \in Conns : advisory[c] \in 0..MaxHeld

\* However the runs overlap, stop and are repeated, a milestone of a cycle is
\* recorded once, and no run changes a cycle on which there is a verdict.  The
\* exception: a run that is to cap a cycle has read it without locking it, so it
\* makes a cycle MISSED_CAPPED that a payment has settled since.
AlertedOnce ==
    [][\A l \in Loans :
           /\ \A m \in Milestones : alerts'[l][m] <= 1
           /\ run' # run /\ cycle[l] \in Verdicts =>
                  \/ cycle'[l] = cycle[l]
                  \/ cycle[l] = "PAID_ON_TIME" /\ cycle'[l] = "MISSED_CAPPED"]_nightlyVars
=============================================================================
