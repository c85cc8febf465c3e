-------------------------- MODULE CyclePenalties --------------------------
(***************************************************************************)
(* The due cycles of one loan: the verdict on each of them, the penalty    *)
(* events behind the verdicts, and the addons by which an unpaid cycle is  *)
(* recovered from the later ones (services/penalty.py, the classify and    *)
(* reclassify routes, and what the nightly job does with cycles).          *)
(*                                                                         *)
(* The loan and its bad-debt proposals are in LoanLifecycle, the payments  *)
(* behind `received` in PaymentLedger.  Every handler below locks the      *)
(* loan, but edits, deletions and restorations of payments, which lock     *)
(* their cycles only.  The two routes that judge a cycle and the edit of a *)
(* payment read the cycle before they lock, so each is a Load... and a     *)
(* step that acts on what was read.                                        *)
(*                                                                         *)
(* Money is counted in small units; dates are left out: a penalty is any   *)
(* amount up to its cap, whatever rate and number of days gave it.         *)
(***************************************************************************)
EXTENDS Integers, Sequences, FiniteSets, Sums

CONSTANTS
    Sessions,         \* requests that can be in flight
    N,                \* tenure: number of cycles
    BaseEMI,          \* base_emi of every cycle
    Receipts,         \* amounts a cycle can have received
    MaxEvents,        \* bound: rows of penalty_events
    Allocated,        \* bound: cycles that payments are recorded on
    SameCycleOverlap  \* may two requests classify one cycle at once?

ASSUME PenaltyAssumption ==
    /\ N \in Nat \ {0} /\ BaseEMI \in Nat
    /\ Receipts \subseteq Nat /\ MaxEvents \in Nat /\ Allocated \subseteq 1..N
    /\ SameCycleOverlap \in BOOLEAN

Cycles == 1..N

CycleStatus == {"UPCOMING", "AWAITING_REVIEW", "PAID_ON_TIME",
                "LATE_PAYMENT", "MISSED_CAPPED"}
Penalised == {"LATE_PAYMENT", "MISSED_CAPPED"}
Classified == Penalised \cup {"PAID_ON_TIME"}

VARIABLES
    acct,      \* status, addon and penalty of each cycle; the penalty events
    received,  \* total_received of each cycle
    due,       \* the cycles 1..due are past their due date
    req,       \* what each request in flight has read
    overwritten  \* history: penalised cycles an edit has written PAID_ON_TIME over

vars == <<acct, received, due, req, overwritten>>

\* superseded_by_id: 0 is NULL, an event's own index the "no replacement" mark
Event == [cycle : Cycles, late : Nat, penalty : Nat, cap_hit : BOOLEAN,
          superseded : Nat]

Idle == [op |-> "idle", cycle |-> 0]
Requests == {Idle}
            \cup [op : {"classify"}, cycle : Cycles, short : Nat, penalty : Nat]
            \cup [op : {"reclassify"}, cycle : Cycles]
            \cup [op : {"edit"}, cycle : Cycles, got : Nat, enough : SUBSET Receipts]

TypeOK ==
    /\ DOMAIN acct = {"status", "addon", "penalty", "events"}
    /\ acct.status \in [Cycles -> CycleStatus]
    /\ acct.addon \in [Cycles -> Nat]
    /\ acct.penalty \in [Cycles -> Nat]
    /\ acct.events \in Seq(Event)
    /\ \A i \in DOMAIN acct.events :
          /\ acct.events[i].penalty <= acct.events[i].late
          /\ acct.events[i].superseded \in {0} \cup i..Len(acct.events)
    /\ received \in [Cycles -> Nat]
    /\ due \in 0..N
    /\ req \in [Sessions -> Requests]
    /\ overwritten \in SUBSET Cycles

\* generate_cycles_for_loan: the cycles of a backdated loan may be past due.
Init ==
    /\ due \in 0..N
    /\ acct = [status |-> [c \in Cycles |-> IF c <= due THEN "AWAITING_REVIEW"
                                            ELSE "UPCOMING"],
               addon |-> [c \in Cycles |-> 0],
               penalty |-> [c \in Cycles |-> 0],
               events |-> <<>>]
    /\ received = [c \in Cycles |-> 0]
    /\ req = [s \in Sessions |-> Idle]
    /\ overwritten = {}
-----------------------------------------------------------------------------
(* The arithmetic of a penalty.                                            *)

\* compute_shortfall, of a cycle with these columns
Shortfall(got, extra) ==
    IF BaseEMI + extra > got THEN BaseEMI + extra - got ELSE 0

\* _q(amount / n): rounded to a unit, halves to the even one
HalfEven(amount, n) ==
    LET q == amount \div n
        r == 2 * (amount % n)
    IN  IF r < n \/ (r = n /\ q % 2 = 0) THEN q ELSE q + 1

\* Mutant of Share: the last cycle gets the same as the others.
ShareEqually(amount, from, c) ==
    IF c <= from THEN 0 ELSE HalfEven(amount, N - from)

\* What cycle c gets of an amount to recover from cycle `from`: the later
\* cycles get the same each, and the last one the remainder.
Share(amount, from, c) ==
    LET spread == HalfEven(amount, N - from)
    IN  CASE c <= from -> 0
          [] c > from /\ c < N -> spread
          [] OTHER -> amount - (N - from - 1) * spread

\* amount_to_recover of an event
Recover(e) == e.late + e.penalty

\* The active events, and those of one cycle (get_active_penalty_for_cycle)
Active(a) == {i \in DOMAIN a.events : a.events[i].superseded = 0}
ActiveOf(a, c) == {i \in Active(a) : a.events[i].cycle = c}

\* apply_penalty on cycle c.  `held` is the penalty_amount the session read.
Penalise(a, c, late, penalty, held) ==
    [status |-> [a.status EXCEPT ![c] = IF penalty >= late THEN "MISSED_CAPPED"
                                        ELSE "LATE_PAYMENT"],
     addon |-> [k \in Cycles |-> a.addon[k] + Share(late + penalty, c, k)],
     penalty |-> IF penalty = 0 THEN a.penalty
                 ELSE [a.penalty EXCEPT ![c] = held + penalty],
     events |-> Append(a.events, [cycle |-> c, late |-> late, penalty |-> penalty,
                                  cap_hit |-> penalty >= late, superseded |-> 0])]

\* What a replay of the active events gives cycle c
ReplayedAddon(a, c) ==
    SumOver([i \in DOMAIN a.events |-> Share(Recover(a.events[i]), a.events[i].cycle, c)],
            Active(a))
ReplayedPenalty(a, c) ==
    SumOver([i \in DOMAIN a.events |-> a.events[i].penalty], ActiveOf(a, c))

\* Mutant of Recomputed: reclassifying forgets to replay.
NotRecomputed(a) == a

\* recompute_addons_for_loan
Recomputed(a) ==
    [a EXCEPT !.addon = [c \in Cycles |-> ReplayedAddon(a, c)],
              !.penalty = [c \in Cycles |-> ReplayedPenalty(a, c)]]

\* Mutants of Supersede: the wrong id is written; nothing is written; the old
\* event is edited in place.
SupersedeByCycle(a, old, by) ==
    IF old = 0 THEN a ELSE [a EXCEPT !.events[old].superseded = a.events[old].cycle]
SupersedeNothing(a, old, by) == a
SupersedeByZeroing(a, old, by) ==
    IF old = 0 THEN a
    ELSE [a EXCEPT !.events[old].superseded = by, !.events[old].penalty = 0]

Supersede(a, old, by) ==
    IF old = 0 THEN a ELSE [a EXCEPT !.events[old].superseded = by]

\* CHECK (addon_from_penalties >= 0), and the bound on events
Accepted(a) ==
    /\ \A c \in Cycles : a.addon[c] >= 0
    /\ Len(a.events) <= MaxEvents
-----------------------------------------------------------------------------
(* The routes.                                                             *)

\* Is request s about to judge cycle c?
Judges(s, c) == req[s].op \in {"classify", "reclassify"} /\ req[s].cycle = c

MayJudge(c) == SameCycleOverlap \/ \A s \in Sessions : ~Judges(s, c)

Begin(s, r) ==
    /\ req[s] = Idle
    /\ req' = [req EXCEPT ![s] = r]
    /\ UNCHANGED <<acct, received, due, overwritten>>

Done(s) == req' = [req EXCEPT ![s] = Idle]

LoadForClassify(s, c) ==
    /\ acct.status[c] \notin Classified
    /\ MayJudge(c)
    /\ Begin(s, [op |-> "classify", cycle |-> c, penalty |-> acct.penalty[c],
                 short |-> Shortfall(received[c], acct.addon[c])])

\* reclassify_cycle reads the cycle again (db.refresh), so only the check of its
\* status is made on what was read here.
LoadForReclassify(s, c) ==
    /\ acct.status[c] \in Classified
    /\ MayJudge(c)
    /\ Begin(s, [op |-> "reclassify", cycle |-> c])

\* mark_cycle_paid_on_time, on the cycle as it was read
ClassifyPaid(s) ==
    /\ req[s].op = "classify"
    /\ req[s].short = 0
    /\ Done(s)
    /\ acct' = [acct EXCEPT !.status[req[s].cycle] = "PAID_ON_TIME"]
    /\ UNCHANGED <<received, due, overwritten>>

\* apply_penalty, on the cycle as it was read and the later ones as they are
ClassifyLate(s) ==
    /\ req[s].op = "classify"
    /\ Done(s)
    /\ req[s].short > 0
    /\ \E penalty \in 0..req[s].short :
          acct' = Penalise(acct, req[s].cycle, req[s].short, penalty, req[s].penalty)
    /\ Accepted(acct')
    /\ UNCHANGED <<received, due, overwritten>>

\* The event reclassify_cycle supersedes: 0 if the cycle has none.
Current(c) == IF ActiveOf(acct, c) = {} THEN {0} ELSE ActiveOf(acct, c)

\* The event is superseded, the addons are replayed without it, and the cycle
\* is read again: what PAID_ON_TIME is judged on.
ReclassifyPaid(s) ==
    /\ req[s].op = "reclassify"
    /\ Done(s)
    /\ \E old \in Current(req[s].cycle) :
          LET c == req[s].cycle
              without == Recomputed(Supersede(acct, old, old))
          IN  /\ Shortfall(received[c], without.addon[c]) = 0
              /\ acct' = [without EXCEPT !.status[c] = "PAID_ON_TIME"]
    /\ Accepted(acct')
    /\ overwritten' = overwritten \ {req[s].cycle}
    /\ UNCHANGED <<received, due>>

ReclassifyLate(s) ==
    /\ req[s].op = "reclassify"
    /\ Done(s)
    /\ \E old \in Current(req[s].cycle) :
          LET c == req[s].cycle
              without == Recomputed(Supersede(acct, old, old))
              late == Shortfall(received[c], without.addon[c])
          IN  /\ late > 0
              /\ \E penalty \in 0..late :
                    LET with == Penalise(without, c, late, penalty, without.penalty[c])
                    IN  acct' = Supersede(with, old, Len(with.events))
    /\ Accepted(acct')
    /\ overwritten' = overwritten \ {req[s].cycle}
    /\ UNCHANGED <<received, due>>

\* A refused verdict, or a failure: rollback.
Refuse(s) ==
    /\ req[s] # Idle
    /\ Done(s)
    /\ UNCHANGED <<acct, received, due, overwritten>>
-----------------------------------------------------------------------------
(* Payments, the calendar and the nightly job.                             *)

\* The cycles of `at` become PAID_ON_TIME.
Settled(a, at) ==
    [a EXCEPT !.status = [c \in Cycles |-> IF c \in at THEN "PAID_ON_TIME" ELSE @[c]]]

\* The totals with which maybe_auto_classify_cycle may settle cycle c, as it is
\* now: it awaits review and nothing is missing (unless a payment was late).
Enough(c) == {total \in Receipts : /\ acct.status[c] = "AWAITING_REVIEW"
                                   /\ Shortfall(total, acct.addon[c]) = 0}

\* A payment of cycle c is confirmed, restored, deleted (which never settles) or
\* edited without naming a cycle: the cycle is locked, read, and its total
\* recomputed.
Payments(c, total) ==
    /\ received' = [received EXCEPT ![c] = total]
    /\ \E at \in SUBSET {k \in {c} : total \in Enough(k)} : acct' = Settled(acct, at)
    /\ UNCHANGED <<due, req, overwritten>>

\* update_transaction reads the cycle the edit names without a lock ...
LoadForEdit(s, c) ==
    Begin(s, [op |-> "edit", cycle |-> c, got |-> received[c], enough |-> Enough(c)])

\* ... and locks it later, without reading it again: it is settled by the status
\* and the amount due it had then, and a total equal to the one it had then is not
\* written.  The cycle the payment was taken from, if another, is read here.
EditPayment(s) ==
    /\ req[s].op = "edit"
    /\ Done(s)
    /\ \E from \in Allocated : \E totals \in [{from, req[s].cycle} -> Receipts] :
          LET to == req[s].cycle
              unwritten == {c \in {to} : totals[c] = req[s].got}
              paid == {c \in DOMAIN totals :
                         totals[c] \in IF c = to THEN req[s].enough ELSE Enough(c)}
          IN  /\ received' = [c \in Cycles |-> IF c \in DOMAIN totals \ unwritten
                                               THEN totals[c] ELSE received[c]]
              /\ \E at \in SUBSET paid :
                    /\ acct' = Settled(acct, at)
                    /\ overwritten' = overwritten \cup {c \in at : acct.status[c] \in Penalised}
    /\ UNCHANGED due

DayPasses ==
    /\ due < N
    /\ due' = due + 1
    /\ UNCHANGED <<acct, received, req, overwritten>>

\* process_loan on one cycle past its due date.  `capped` are the cycles late
\* enough for the cap (none unless NIGHTLY_AUTO_PROPOSE_BAD_DEBT).
ProcessCycle(a, c, capped) ==
    LET short == Shortfall(received[c], a.addon[c])
        promoted == IF a.status[c] = "UPCOMING" /\ short > 0
                    THEN [a EXCEPT !.status[c] = "AWAITING_REVIEW"] ELSE a
    IN  IF /\ promoted.status[c] = "AWAITING_REVIEW"
           /\ short > 0
           /\ c \in capped
           /\ ActiveOf(a, c) = {}
        THEN Penalise(promoted, c, short, short, a.penalty[c])
        ELSE promoted

\* process_loan goes through the cycles in order and commits once: a cycle
\* capped early adds to the shortfall of the later ones.  It reads the cycles
\* without locking them; a payment committed between that read and the run's
\* commit leaves what it leaves when it comes just after the run (the penalty, and
\* the status MISSED_CAPPED, are written over what it settled: NightlyRuns).
NightlyRun(capped) ==
    /\ LET after[c \in 0..due] ==
               IF c = 0 THEN acct ELSE ProcessCycle(after[c - 1], c, capped)
       IN  acct' = after[due]
    /\ Accepted(acct')
    /\ \A c \in Cycles : ~MayJudge(c) => acct'.status[c] = acct.status[c]
    /\ UNCHANGED <<received, due, req, overwritten>>
-----------------------------------------------------------------------------
Next ==
    \/ \E s \in Sessions :
          \/ \E c \in Cycles : LoadForClassify(s, c) \/ LoadForReclassify(s, c)
          \/ ClassifyPaid(s) \/ ClassifyLate(s)
          \/ ReclassifyPaid(s) \/ ReclassifyLate(s)
          \/ Refuse(s)
          \/ \E c \in Allocated : LoadForEdit(s, c)
          \/ EditPayment(s)
    \/ \E c \in Allocated, total \in Receipts : Payments(c, total)
    \/ DayPasses
    \/ \E capped \in SUBSET (1..due) : NightlyRun(capped)

Spec == Init /\ [][Next]_vars
-----------------------------------------------------------------------------
(* Properties.                                                             *)

\* The verdict on a cycle is backed by its penalty: a late or missed cycle has
\* exactly one active event, capped if and only if the cycle is MISSED_CAPPED,
\* and no other cycle has one (classify, reclassify, nightly job, payments).  The
\* exception: an edit of a payment settles a cycle that awaited review when it
\* read it, also one that was penalised in between.  Such a cycle is PAID_ON_TIME
\* with the one event of that penalty still active, until it is reclassified.
VerdictMatchesPenalty ==
    \A c \in Cycles :
        IF c \in overwritten
        THEN acct.status[c] = "PAID_ON_TIME" /\ \E i \in Active(acct) : ActiveOf(acct, c) = {i}
        ELSE IF acct.status[c] \in Penalised
        THEN \E i \in Active(acct) :
                /\ ActiveOf(acct, c) = {i}
                /\ acct.events[i].cap_hit <=> acct.status[c] = "MISSED_CAPPED"
        ELSE ActiveOf(acct, c) = {}

\* "We wipe and replay": the addons and penalties kept up to date one event
\* at a time are those a replay of the active events would give, also when
\* reclassifications and classifications of other cycles came in between.
AddonsAreReplay ==
    \A c \in Cycles :
        /\ acct.addon[c] = ReplayedAddon(acct, c)
        /\ acct.penalty[c] = ReplayedPenalty(acct, c)

\* "So the totals match to the paisa": what the active events have to recover
\* is spread in full over the later cycles, except that of the last cycle.
RecoveredInFull ==
    SumOver(acct.addon, Cycles) =
    SumOver([i \in DOMAIN acct.events |-> Recover(acct.events[i])],
            {i \in Active(acct) : acct.events[i].cycle < N})

\* "Immutable audit log of a penalty calculation": a step only adds events and
\* marks an active one as superseded, and a superseded one is never revived.
HistoryIsImmutable ==
    [][\A i \in DOMAIN acct.events :
          /\ i \in DOMAIN acct'.events
          /\ \/ acct'.events[i] = acct.events[i]
             \/ /\ acct.events[i].superseded = 0
                /\ acct'.events[i].superseded # 0
                /\ acct'.events[i] = [acct.events[i] EXCEPT
                      !.superseded = acct'.events[i].superseded]]_vars
-----------------------------------------------------------------------------
\* "Lock the loan row to prevent concurrent penalty / payment races" (classify):
\* a cycle never has two penalties at once.
OneActivePenalty == \A c \in Cycles : Cardinality(ActiveOf(acct, c)) <= 1
=============================================================================
