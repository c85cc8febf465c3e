----------------------- MODULE CyclePenalties_proofs -----------------------
(***************************************************************************)
(* Proofs about CyclePenalties, for any tenure, any amounts and any number *)
(* of requests and penalty events.  A late classification adds to the      *)
(* addons what a replay gives its event (PenaliseKeeps), so addons stay    *)
(* the replay of the active events; each event's shares add up to its      *)
(* amount (SharesAddUp), so exchanging the two sums, over events and over  *)
(* cycles, gives RecoveredInFull.                                          *)
(***************************************************************************)
EXTENDS CyclePenalties, SumTheorems

\* The account, with addons that may be negative before they are accepted.
Account == [status : [Cycles -> CycleStatus], addon : [Cycles -> Int],
            penalty : [Cycles -> Nat], events : Seq(Event)]

WellFormed(a) ==
    /\ a \in Account
    /\ \A i \in DOMAIN a.events :
          /\ a.events[i].penalty <= a.events[i].late
          /\ a.events[i].superseded \in {0} \cup i..Len(a.events)

\* The two halves of AddonsAreReplay, and VerdictMatchesPenalty, of any account, and of
\* any set of cycles that an edit has overwritten.
AddonsReplayed(a) == \A c \in Cycles : a.addon[c] = ReplayedAddon(a, c)
PenaltiesReplayed(a) == \A c \in Cycles : a.penalty[c] = ReplayedPenalty(a, c)

VerdictOf(a, over, c) ==
    IF c \in over
    THEN a.status[c] = "PAID_ON_TIME" /\ \E i \in Active(a) : ActiveOf(a, c) = {i}
    ELSE IF a.status[c] \in Penalised
    THEN \E i \in Active(a) : /\ ActiveOf(a, c) = {i}
                              /\ a.events[i].cap_hit <=> a.status[c] = "MISSED_CAPPED"
    ELSE ActiveOf(a, c) = {}
Verdicts(a, over) == \A c \in Cycles : VerdictOf(a, over, c)
-----------------------------------------------------------------------------
(* The spread of one amount over the later cycles.                         *)

\* The spread is a whole number of paise, and
LEMMA SpreadIsInt ==
    ASSUME NEW amount \in Nat, NEW n \in Nat \ {0}
    PROVE  HalfEven(amount, n) \in Int
<1>1. amount \div n \in Int /\ amount % n \in Int
  OBVIOUS
<1> QED
  BY <1>1 DEF HalfEven

\* so is the share of a cycle, the last one's included.
LEMMA ShareIsInt ==
    ASSUME NEW amount \in Nat, NEW from \in Cycles, NEW c \in Cycles
    PROVE  Share(amount, from, c) \in Int
<1> USE PenaltyAssumption DEF PenaltyAssumption, Cycles
<1>1. CASE c <= from
  BY <1>1 DEF Share
<1>2. CASE c > from
  <2> DEFINE spread == HalfEven(amount, N - from)
  <2>1. spread \in Int
    BY <1>2, SpreadIsInt
  <2>2. (N - from - 1) * spread \in Int
    BY <2>1
  <2> HIDE DEF spread
  <2>3. Share(amount, from, c) = IF c < N THEN spread ELSE amount - (N - from - 1) * spread
    BY <1>2 DEF Share, spread
  <2> QED
    BY <2>1, <2>2, <2>3
<1> QED
  BY <1>1, <1>2

\* "So the totals match to the paisa": the shares of the later cycles add up to the
\* amount, with the remainder of the rounding in the last one.
LEMMA SharesAddUp ==
    ASSUME NEW amount \in Nat, NEW from \in Cycles
    PROVE  SumOver([c \in Cycles |-> Share(amount, from, c)], Cycles)
             = IF from < N THEN amount ELSE 0
<1> USE PenaltyAssumption DEF PenaltyAssumption
<1> DEFINE f == [c \in Cycles |-> Share(amount, from, c)]
           spread == HalfEven(amount, N - from)
<1>0. \A c \in Cycles : f[c] \in Int
  BY ShareIsInt
<1>1. CASE from = N
  <2>1. \A c \in Cycles : f[c] = 0
    BY <1>1 DEF Share, Cycles
  <2>2. IsFiniteSet(Cycles)
    BY FS_Interval DEF Cycles
  <2> HIDE DEF f
  <2>3. SumOver(f, Cycles) = 0
    BY <2>1, <2>2, SumZero
  <2> QED
    BY <1>1, <2>3 DEF f
<1>2. CASE from < N
  <2>0. spread \in Int /\ from \in Nat
    BY <1>2, SpreadIsInt DEF Cycles
  <2>1. \A c \in Cycles : f[c] = IF c <= from THEN 0
                                 ELSE IF c < N THEN spread ELSE amount - (N - from - 1) * spread
    BY DEF Share, Cycles
  <2> HIDE DEF f, spread
  <2> DEFINE value(m) == IF m <= from THEN 0 ELSE (m - from) * spread
             P == {m \in Nat : m < N => SumOver(f, 1..m) = value(m)}
  <2> HIDE DEF value
  <2>2. 0 \in P
    <3>1. 1..0 = {}
      OBVIOUS
    <3> QED
      BY <2>0, <3>1, SumEmpty DEF value
  <2>3. \A m \in P : m + 1 \in P
    <3> SUFFICES ASSUME NEW m \in P, m + 1 < N
                 PROVE  SumOver(f, 1..(m + 1)) = value(m + 1)
      OBVIOUS
    <3>1. 1..(m + 1) = (1..m) \cup {m + 1} /\ m + 1 \notin 1..m
      OBVIOUS
    <3>2. IsFiniteSet(1..m) /\ \A c \in (1..m) \cup {m + 1} : f[c] \in Int
      BY <1>0, FS_Interval DEF Cycles
    <3>3. SumOver(f, 1..(m + 1)) = f[m + 1] + SumOver(f, 1..m)
      BY <3>1, <3>2, SumAdd
    <3>4. SumOver(f, 1..m) = IF m <= from THEN 0 ELSE (m - from) * spread
      BY DEF value
    <3>5. f[m + 1] = IF m + 1 <= from THEN 0 ELSE spread
      BY <2>1 DEF Cycles
    <3>6. (m + 1 - from) * spread = (m - from) * spread + spread
      BY <2>0
    <3>7. (m - from) * spread \in Int
      BY <2>0
    <3>8. m = from => (m + 1 - from) * spread = spread
      BY <2>0
    <3> QED
      BY <2>0, <3>3, <3>4, <3>5, <3>6, <3>7, <3>8 DEF value
  <2> HIDE DEF P
  <2>4. P = Nat
    <3>1. P \in SUBSET Nat
      BY DEF P
    <3> QED
      BY <2>2, <2>3, <3>1, SetInduction
  <2>5. SumOver(f, 1..(N - 1)) = (N - 1 - from) * spread
    <3>1. N - 1 \in P
      BY <2>4
    <3>2. N - 1 = from => (N - 1 - from) * spread = 0
      BY <2>0
    <3> QED
      BY <1>2, <2>0, <3>1, <3>2 DEF P, value
  <2>6. Cycles = (1..(N - 1)) \cup {N} /\ N \notin 1..(N - 1)
    BY DEF Cycles
  <2>7. SumOver(f, Cycles) = f[N] + SumOver(f, 1..(N - 1))
    <3>1. IsFiniteSet(1..(N - 1)) /\ \A c \in (1..(N - 1)) \cup {N} : f[c] \in Int
      BY <1>0, <2>6, FS_Interval
    <3> QED
      BY <2>6, <3>1, SumAdd
  <2>8. f[N] = amount - (N - 1 - from) * spread
    <3>1. N \in Cycles /\ N - from - 1 = N - 1 - from
      BY <2>0 DEF Cycles
    <3> QED
      BY <1>2, <2>1, <3>1
  <2>9. (N - 1 - from) * spread \in Int
    BY <2>0
  <2>10. SumOver(f, Cycles) = amount
    BY <2>5, <2>7, <2>8, <2>9
  <2> QED
    BY <1>2, <2>10 DEF f
<1> QED
  BY <1>1, <1>2 DEF Cycles
-----------------------------------------------------------------------------
(* What the replay of an account depends on.                               *)

\* The rows of penalty_events.
LEMMA EventRows ==
    ASSUME NEW a, WellFormed(a)
    PROVE  /\ Len(a.events) \in Nat /\ DOMAIN a.events = 1..Len(a.events)
           /\ IsFiniteSet(Active(a)) /\ Active(a) \subseteq 1..Len(a.events)
           /\ \A c : IsFiniteSet(ActiveOf(a, c)) /\ ActiveOf(a, c) \subseteq Active(a)
           /\ \A i \in DOMAIN a.events :
                 /\ a.events[i] \in Event /\ a.events[i].cycle \in Cycles
                 /\ a.events[i].late \in Nat /\ a.events[i].penalty \in Nat
                 /\ Recover(a.events[i]) \in Nat
<1>1. Len(a.events) \in Nat /\ DOMAIN a.events = 1..Len(a.events)
  BY DEF WellFormed, Account
<1>2. \A i \in DOMAIN a.events : a.events[i] \in Event
  BY <1>1 DEF WellFormed, Account
<1>3. \A i \in DOMAIN a.events :
          /\ a.events[i].cycle \in Cycles /\ a.events[i].late \in Nat
          /\ a.events[i].penalty \in Nat /\ Recover(a.events[i]) \in Nat
  BY <1>2 DEF Event, Recover
<1>4. Active(a) \subseteq 1..Len(a.events) /\ \A c : ActiveOf(a, c) \subseteq Active(a)
  BY <1>1 DEF Active, ActiveOf
<1>5. IsFiniteSet(1..Len(a.events))
  BY <1>1, FS_Interval
<1>6. IsFiniteSet(Active(a)) /\ \A c : IsFiniteSet(ActiveOf(a, c))
  BY <1>4, <1>5, FS_Subset
<1> QED
  BY <1>1, <1>2, <1>3, <1>4, <1>6

\* What an active event gives cycle c.
Gives(a, c) == [i \in DOMAIN a.events |-> Share(Recover(a.events[i]), a.events[i].cycle, c)]
Charges(a) == [i \in DOMAIN a.events |-> a.events[i].penalty]

\* The replay of an account is a sum over its active events.
LEMMA ReplayIsSum ==
    ASSUME NEW a, WellFormed(a), NEW c \in Cycles
    PROVE  /\ ReplayedAddon(a, c) = SumOver(Gives(a, c), Active(a))
           /\ ReplayedPenalty(a, c) = SumOver(Charges(a), ActiveOf(a, c))
           /\ \A i \in Active(a) : Gives(a, c)[i] \in Int /\ Charges(a)[i] \in Nat
           /\ ReplayedAddon(a, c) \in Int /\ ReplayedPenalty(a, c) \in Nat
<1>1. /\ ReplayedAddon(a, c) = SumOver(Gives(a, c), Active(a))
      /\ ReplayedPenalty(a, c) = SumOver(Charges(a), ActiveOf(a, c))
  BY DEF ReplayedAddon, ReplayedPenalty, Gives, Charges
<1>2. \A i \in Active(a) : Gives(a, c)[i] \in Int /\ Charges(a)[i] \in Nat
  BY EventRows, ShareIsInt DEF Gives, Charges
<1>3. SumOver(Gives(a, c), Active(a)) \in Int
  BY <1>2, EventRows, SumInt
<1>4. SumOver(Charges(a), ActiveOf(a, c)) \in Nat
  <2>1. IsFiniteSet(ActiveOf(a, c)) /\ ActiveOf(a, c) \subseteq Active(a)
    BY EventRows
  <2> QED
    BY <1>2, <2>1, SumNat
<1> QED
  BY <1>1, <1>2, <1>3, <1>4

\* Accounts with the same active events have the same replay.
LEMMA SameReplay ==
    ASSUME NEW a, WellFormed(a), NEW b, WellFormed(b), Active(b) = Active(a),
           \A i \in Active(a) : /\ b.events[i].cycle = a.events[i].cycle
                                /\ b.events[i].late = a.events[i].late
                                /\ b.events[i].penalty = a.events[i].penalty,
           NEW c \in Cycles
    PROVE  /\ ActiveOf(b, c) = ActiveOf(a, c)
           /\ ReplayedAddon(b, c) = ReplayedAddon(a, c)
           /\ ReplayedPenalty(b, c) = ReplayedPenalty(a, c)
<1>1. ActiveOf(b, c) = ActiveOf(a, c)
  BY DEF ActiveOf
<1>2. Active(a) \subseteq DOMAIN a.events /\ Active(b) \subseteq DOMAIN b.events
  BY DEF Active
<1>3. \A i \in Active(a) : Gives(b, c)[i] = Gives(a, c)[i] /\ Charges(b)[i] = Charges(a)[i]
  BY <1>2 DEF Gives, Charges, Recover
<1>4. SumOver(Gives(a, c), Active(a)) = SumOver(Gives(b, c), Active(a))
  BY <1>3, EventRows, ReplayIsSum, SumSame
<1>5. SumOver(Charges(a), ActiveOf(a, c)) = SumOver(Charges(b), ActiveOf(a, c))
  <2>1. IsFiniteSet(ActiveOf(a, c)) /\ ActiveOf(a, c) \subseteq Active(a)
    BY EventRows
  <2>2. \A i \in ActiveOf(a, c) : Charges(a)[i] \in Int /\ Charges(b)[i] = Charges(a)[i]
    BY <1>3, <2>1, ReplayIsSum
  <2> QED
    BY <2>1, <2>2, SumSame
<1> QED
  BY <1>1, <1>4, <1>5, ReplayIsSum

\* An account with one active event more.
LEMMA OneEventMore ==
    ASSUME NEW a, WellFormed(a), NEW b, WellFormed(b),
           NEW n, n \notin Active(a), Active(b) = Active(a) \cup {n},
           \A i \in Active(a) : b.events[i] = a.events[i],
           NEW c \in Cycles
    PROVE  /\ ActiveOf(b, c) = ActiveOf(a, c) \cup (IF b.events[n].cycle = c THEN {n} ELSE {})
           /\ ReplayedAddon(b, c) = ReplayedAddon(a, c) + Gives(b, c)[n]
           /\ ReplayedPenalty(b, c) =
                ReplayedPenalty(a, c) + (IF b.events[n].cycle = c THEN b.events[n].penalty ELSE 0)
<1>1. ActiveOf(b, c) = ActiveOf(a, c) \cup (IF b.events[n].cycle = c THEN {n} ELSE {})
  BY DEF ActiveOf
<1>2. Active(a) \subseteq DOMAIN a.events /\ Active(b) \subseteq DOMAIN b.events
  BY DEF Active
<1>3. \A i \in Active(a) : Gives(b, c)[i] = Gives(a, c)[i] /\ Charges(b)[i] = Charges(a)[i]
  BY <1>2 DEF Gives, Charges
<1>4. /\ IsFiniteSet(Active(a)) /\ IsFiniteSet(ActiveOf(a, c))
      /\ ActiveOf(a, c) \subseteq Active(a)
  BY EventRows
<1>5. \A i \in Active(b) : Gives(b, c)[i] \in Int /\ Charges(b)[i] \in Int
  BY ReplayIsSum
<1>6. ReplayedAddon(b, c) = ReplayedAddon(a, c) + Gives(b, c)[n]
  <2>1. SumOver(Gives(b, c), Active(a) \cup {n})
          = Gives(b, c)[n] + SumOver(Gives(b, c), Active(a))
    BY <1>4, <1>5, SumAdd
  <2>2. SumOver(Gives(b, c), Active(a)) = SumOver(Gives(a, c), Active(a))
    BY <1>3, <1>4, <1>5, SumSame
  <2>3. Gives(b, c)[n] \in Int /\ ReplayedAddon(a, c) \in Int
    BY <1>5, ReplayIsSum
  <2>4. /\ ReplayedAddon(b, c) = SumOver(Gives(b, c), Active(a) \cup {n})
        /\ ReplayedAddon(a, c) = SumOver(Gives(a, c), Active(a))
    BY ReplayIsSum
  <2> QED
    BY <2>1, <2>2, <2>3, <2>4
<1>7. SumOver(Charges(b), ActiveOf(a, c)) = ReplayedPenalty(a, c)
  <2>1. \A i \in ActiveOf(a, c) : Charges(b)[i] \in Int /\ Charges(a)[i] = Charges(b)[i]
    BY <1>3, <1>4, <1>5
  <2>2. SumOver(Charges(b), ActiveOf(a, c)) = SumOver(Charges(a), ActiveOf(a, c))
    BY <1>4, <2>1, SumSame
  <2> QED
    BY <2>2, ReplayIsSum
<1>8. CASE b.events[n].cycle = c
  <2>1. ActiveOf(b, c) = ActiveOf(a, c) \cup {n} /\ n \notin ActiveOf(a, c)
    BY <1>1, <1>4, <1>8
  <2>2. SumOver(Charges(b), ActiveOf(a, c) \cup {n})
          = Charges(b)[n] + SumOver(Charges(b), ActiveOf(a, c))
    BY <1>4, <1>5, <2>1, SumAdd
  <2>3. Charges(b)[n] = b.events[n].penalty /\ Charges(b)[n] \in Int
    BY <1>2, <1>5 DEF Charges
  <2>4. ReplayedPenalty(b, c) = SumOver(Charges(b), ActiveOf(b, c)) /\ ReplayedPenalty(a, c) \in Int
    BY ReplayIsSum
  <2>5. ReplayedPenalty(b, c) = ReplayedPenalty(a, c) + b.events[n].penalty
    BY <1>7, <2>1, <2>2, <2>3, <2>4
  <2> QED
    BY <1>1, <1>6, <1>8, <2>5
<1>9. CASE b.events[n].cycle # c
  <2>1. ActiveOf(b, c) = ActiveOf(a, c)
    BY <1>1, <1>9
  <2>2. ReplayedPenalty(b, c) = ReplayedPenalty(a, c) /\ ReplayedPenalty(a, c) \in Int
    BY <1>7, <2>1, ReplayIsSum
  <2> QED
    BY <1>1, <1>6, <1>9, <2>2
<1> QED
  BY <1>8, <1>9
-----------------------------------------------------------------------------
(* What the operations on an account change.                               *)

NewEvent(c, late, penalty) ==
    [cycle |-> c, late |-> late, penalty |-> penalty, cap_hit |-> penalty >= late,
     superseded |-> 0]

\* What persisting a penalty does: one event at the end, one status, and addons of later
\* cycles; the earlier events stay as they are.
LEMMA PenaliseEffect ==
    ASSUME NEW a, WellFormed(a), NEW c \in Cycles, NEW late \in Nat, NEW penalty \in 0..late,
           NEW held \in Nat, NEW b, b = Penalise(a, c, late, penalty, held)
    PROVE  /\ WellFormed(b)
           /\ Len(b.events) = Len(a.events) + 1
           /\ b.events[Len(b.events)] = NewEvent(c, late, penalty)
           /\ \A i \in DOMAIN a.events : i \in DOMAIN b.events /\ b.events[i] = a.events[i]
           /\ Len(b.events) \notin Active(a)
           /\ Active(b) = Active(a) \cup {Len(b.events)}
           /\ \A k \in Cycles :
                 /\ b.status[k] = IF k # c THEN a.status[k]
                                  ELSE IF penalty >= late THEN "MISSED_CAPPED" ELSE "LATE_PAYMENT"
                 /\ b.addon[k] = a.addon[k] + Share(late + penalty, c, k)
                 /\ b.penalty[k] = IF k = c /\ penalty # 0 THEN held + penalty ELSE a.penalty[k]
<1> DEFINE e == NewEvent(c, late, penalty)
           n == Len(a.events) + 1
<1>1. /\ b.events = Append(a.events, e)
      /\ b.status = [a.status EXCEPT ![c] = IF penalty >= late THEN "MISSED_CAPPED"
                                            ELSE "LATE_PAYMENT"]
      /\ b.addon = [k \in Cycles |-> a.addon[k] + Share(late + penalty, c, k)]
      /\ b.penalty = IF penalty = 0 THEN a.penalty ELSE [a.penalty EXCEPT ![c] = held + penalty]
      /\ b = [status |-> b.status, addon |-> b.addon, penalty |-> b.penalty, events |-> b.events]
  BY DEF Penalise, NewEvent
<1>2. /\ a.status \in [Cycles -> CycleStatus] /\ a.addon \in [Cycles -> Int]
      /\ a.penalty \in [Cycles -> Nat] /\ a.events \in Seq(Event)
  BY DEF WellFormed, Account
<1>3. e \in Event /\ e.penalty <= e.late /\ e.superseded = 0
  BY DEF NewEvent, Event
<1> HIDE DEF e
<1>4. /\ b.events \in Seq(Event) /\ Len(b.events) = n /\ DOMAIN b.events = 1..n
      /\ b.events[n] = e /\ DOMAIN a.events = 1..Len(a.events) /\ Len(a.events) \in Nat
      /\ \A i \in 1..Len(a.events) : b.events[i] = a.events[i]
  BY <1>1, <1>2, <1>3
<1>5. /\ b.status \in [Cycles -> CycleStatus] /\ b.penalty \in [Cycles -> Nat]
      /\ b.addon \in [Cycles -> Int]
  <2>1. \A k \in Cycles : Share(late + penalty, c, k) \in Int
    BY ShareIsInt
  <2>2. b.addon \in [Cycles -> Int]
    <3>1. \A k \in Cycles : a.addon[k] + Share(late + penalty, c, k) \in Int
      BY <1>2, <2>1
    <3> QED
      BY <1>1, <3>1
  <2>3. b.status \in [Cycles -> CycleStatus]
    <3> DEFINE st == IF penalty >= late THEN "MISSED_CAPPED" ELSE "LATE_PAYMENT"
    <3>1. st \in CycleStatus
      BY DEF CycleStatus
    <3>2. b.status = [a.status EXCEPT ![c] = st]
      BY <1>1
    <3> HIDE DEF st
    <3> QED
      BY <1>2, <3>1, <3>2
  <2>4. b.penalty \in [Cycles -> Nat]
    <3>1. held + penalty \in Nat
      OBVIOUS
    <3> QED
      BY <1>1, <1>2, <3>1
  <2> QED
    BY <2>2, <2>3, <2>4
<1>6. b \in Account
  BY <1>1, <1>4, <1>5 DEF Account
<1>7. \A i \in DOMAIN b.events : i = n \/ i \in DOMAIN a.events
  BY <1>4
<1>8. WellFormed(b)
  <2> SUFFICES ASSUME NEW i \in DOMAIN b.events
               PROVE  /\ b.events[i].penalty <= b.events[i].late
                      /\ b.events[i].superseded \in {0} \cup i..Len(b.events)
    BY <1>6 DEF WellFormed
  <2>1. CASE i = n
    BY <1>3, <1>4, <2>1
  <2>2. CASE i \in DOMAIN a.events
    <3>1. /\ b.events[i] = a.events[i]
          /\ a.events[i].penalty <= a.events[i].late
          /\ a.events[i].superseded \in {0} \cup i..Len(a.events)
      BY <1>4, <2>2 DEF WellFormed
    <3> QED
      BY <1>4, <3>1
  <2> QED
    BY <1>7, <2>1, <2>2
<1>9. n \notin Active(a) /\ Active(b) = Active(a) \cup {n}
  BY <1>3, <1>4 DEF Active
<1>10. \A i \in DOMAIN a.events : i \in DOMAIN b.events /\ b.events[i] = a.events[i]
  BY <1>4
<1>11. \A k \in Cycles :
          /\ b.status[k] = IF k # c THEN a.status[k]
                           ELSE IF penalty >= late THEN "MISSED_CAPPED" ELSE "LATE_PAYMENT"
          /\ b.addon[k] = a.addon[k] + Share(late + penalty, c, k)
          /\ b.penalty[k] = IF k = c /\ penalty # 0 THEN held + penalty ELSE a.penalty[k]
  BY <1>1, <1>2
<1> QED
  BY <1>4, <1>8, <1>9, <1>10, <1>11 DEF e

\* A penalty adds to addons and penalties what its event gives in a replay, and a
\* cycle without a penalty has the verdict its new event backs.
LEMMA PenaliseKeeps ==
    ASSUME NEW a, WellFormed(a), NEW c \in Cycles, NEW late \in Nat, NEW penalty \in 0..late,
           NEW held \in Nat, NEW b, b = Penalise(a, c, late, penalty, held)
    PROVE  /\ AddonsReplayed(a) => AddonsReplayed(b)
           /\ PenaltiesReplayed(a) /\ held = a.penalty[c] => PenaltiesReplayed(b)
           /\ \A k \in Cycles : k # c => ActiveOf(b, k) = ActiveOf(a, k)
           /\ \A over : \A k \in Cycles : k # c /\ VerdictOf(a, over, k) => VerdictOf(b, over, k)
           /\ \A over : ActiveOf(a, c) = {} /\ c \notin over => VerdictOf(b, over, c)
<1> DEFINE n == Len(b.events)
<1>1. /\ WellFormed(b) /\ b.events[n] = NewEvent(c, late, penalty)
      /\ \A i \in DOMAIN a.events : b.events[i] = a.events[i]
      /\ n \notin Active(a) /\ Active(b) = Active(a) \cup {n}
  BY PenaliseEffect
<1>a. \A k \in Cycles :
          /\ k # c => b.status[k] = a.status[k]
          /\ b.addon[k] = a.addon[k] + Share(late + penalty, c, k)
          /\ b.penalty[k] = IF k = c /\ penalty # 0 THEN held + penalty ELSE a.penalty[k]
  BY PenaliseEffect
<1>b. b.status[c] = IF penalty >= late THEN "MISSED_CAPPED" ELSE "LATE_PAYMENT"
  BY PenaliseEffect
<1>2. \A i \in Active(a) : b.events[i] = a.events[i]
  BY <1>1 DEF Active
<1>3. /\ b.events[n].cycle = c /\ b.events[n].penalty = penalty
      /\ Recover(b.events[n]) = late + penalty
      /\ b.events[n].cap_hit = (penalty >= late)
  <2> DEFINE e == NewEvent(c, late, penalty)
  <2>1. e.cycle = c /\ e.penalty = penalty /\ e.late = late /\ e.cap_hit = (penalty >= late)
    BY DEF NewEvent
  <2>2. b.events[n] = e
    BY <1>1
  <2> HIDE DEF e
  <2> QED
    BY <2>1, <2>2 DEF Recover
<1>4. \A k \in Cycles : Gives(b, k)[n] = Share(late + penalty, c, k)
  BY <1>1, <1>3 DEF Gives, Active
<1> HIDE DEF n
<1>5. \A k \in Cycles :
          /\ ActiveOf(b, k) = ActiveOf(a, k) \cup (IF k = c THEN {n} ELSE {})
          /\ ReplayedAddon(b, k) = ReplayedAddon(a, k) + Share(late + penalty, c, k)
          /\ ReplayedPenalty(b, k) = ReplayedPenalty(a, k) + (IF k = c THEN penalty ELSE 0)
  BY <1>1, <1>2, <1>3, <1>4, OneEventMore
<1>6. AddonsReplayed(a) => AddonsReplayed(b)
  BY <1>5, <1>a DEF AddonsReplayed
<1>7. PenaltiesReplayed(a) /\ held = a.penalty[c] => PenaltiesReplayed(b)
  <2>2. \A k \in Cycles : ReplayedPenalty(a, k) \in Nat
    BY ReplayIsSum
  <2> QED
    BY <1>5, <1>a, <2>2 DEF PenaltiesReplayed
<1>8. \A k \in Cycles : k # c => ActiveOf(b, k) = ActiveOf(a, k)
  BY <1>5
<1>9. ASSUME NEW over, NEW k \in Cycles, k # c, VerdictOf(a, over, k) PROVE VerdictOf(b, over, k)
  <2>1. b.status[k] = a.status[k] /\ ActiveOf(b, k) = ActiveOf(a, k)
    BY <1>5, <1>9, <1>a
  <2> QED
    BY <1>1, <1>2, <1>9, <2>1 DEF VerdictOf
<1>10. ASSUME NEW over, ActiveOf(a, c) = {}, c \notin over PROVE VerdictOf(b, over, c)
  <2>1. ActiveOf(b, c) = {n} /\ n \in Active(b)
    BY <1>1, <1>5, <1>10
  <2> QED
    BY <1>3, <1>10, <1>b, <2>1 DEF VerdictOf, Penalised
<1> QED
  BY <1>6, <1>7, <1>8, <1>9, <1>10

\* b is account a with its event `old`, if that is one, superseded by `by`.
Superseded(a, b, old, by) ==
    /\ WellFormed(b)
    /\ b.status = a.status /\ b.addon = a.addon /\ b.penalty = a.penalty
    /\ Len(b.events) = Len(a.events)
    /\ \A i \in DOMAIN a.events :
          /\ i \in DOMAIN b.events
          /\ b.events[i] = IF i = old THEN [a.events[i] EXCEPT !.superseded = by]
                           ELSE a.events[i]
          /\ b.events[i].cycle = a.events[i].cycle
          /\ b.events[i].late = a.events[i].late
          /\ b.events[i].penalty = a.events[i].penalty
          /\ b.events[i].cap_hit = a.events[i].cap_hit
    /\ Active(b) = Active(a) \ {old}

\* An event is superseded, and nothing else changes.
LEMMA SupersedeEffect ==
    ASSUME NEW a, WellFormed(a), NEW old \in {0} \cup DOMAIN a.events,
           NEW by \in old..Len(a.events)
    PROVE  Superseded(a, Supersede(a, old, by), old, by)
<1> DEFINE b == Supersede(a, old, by)
<1>0. /\ a \in Account /\ a.events \in Seq(Event)
      /\ Len(a.events) \in Nat /\ DOMAIN a.events = 1..Len(a.events)
  BY DEF WellFormed, Account
<1>1. CASE old = 0
  <2>1. b = a /\ 0 \notin DOMAIN a.events
    BY <1>0, <1>1 DEF Supersede
  <2> QED
    BY <1>0, <1>1, <2>1 DEF Active, Superseded
<1>2. CASE old # 0
  <2> DEFINE e == [a.events[old] EXCEPT !.superseded = by]
  <2>0. old \in DOMAIN a.events /\ by \in Nat /\ by # 0
    BY <1>0, <1>2
  <2>1. a.events[old] \in Event
    BY <1>0, <2>0
  <2>2. /\ e \in Event /\ e.cycle = a.events[old].cycle /\ e.late = a.events[old].late
        /\ e.penalty = a.events[old].penalty /\ e.cap_hit = a.events[old].cap_hit
        /\ e.superseded = by
    BY <2>0, <2>1 DEF Event
  <2>3. /\ b.events = [a.events EXCEPT ![old] = e]
        /\ b.status = a.status /\ b.addon = a.addon /\ b.penalty = a.penalty
        /\ b \in [status : [Cycles -> CycleStatus], addon : [Cycles -> Int],
                  penalty : [Cycles -> Nat], events : {b.events}]
    BY <1>0, <1>2 DEF Supersede, Account
  <2> HIDE DEF e, b
  <2>4. /\ b.events \in Seq(Event) /\ Len(b.events) = Len(a.events)
        /\ DOMAIN b.events = DOMAIN a.events
        /\ \A i \in DOMAIN a.events : b.events[i] = IF i = old THEN e ELSE a.events[i]
    BY <1>0, <2>0, <2>2, <2>3
  <2>5. b \in Account
    BY <2>3, <2>4 DEF Account
  <2>6. WellFormed(b)
    <3> SUFFICES ASSUME NEW i \in DOMAIN a.events
                 PROVE  /\ b.events[i].penalty <= b.events[i].late
                        /\ b.events[i].superseded \in {0} \cup i..Len(b.events)
      BY <2>4, <2>5 DEF WellFormed
    <3>1. /\ a.events[i].penalty <= a.events[i].late
          /\ a.events[i].superseded \in {0} \cup i..Len(a.events)
      BY DEF WellFormed
    <3> QED
      BY <2>2, <2>4, <3>1
  <2>7. Active(b) = Active(a) \ {old}
    BY <2>0, <2>2, <2>4 DEF Active
  <2>8. \A i \in DOMAIN a.events :
            /\ i \in DOMAIN b.events
            /\ b.events[i] = IF i = old THEN [a.events[i] EXCEPT !.superseded = by]
                             ELSE a.events[i]
            /\ b.events[i].cycle = a.events[i].cycle
            /\ b.events[i].late = a.events[i].late
            /\ b.events[i].penalty = a.events[i].penalty
            /\ b.events[i].cap_hit = a.events[i].cap_hit
    BY <2>2, <2>4 DEF e
  <2> QED
    BY <2>3, <2>4, <2>6, <2>7, <2>8 DEF Superseded, b
<1> QED
  BY <1>1, <1>2

\* A replay leaves the events and statuses alone.
LEMMA RecomputedEffect ==
    ASSUME NEW a, WellFormed(a), NEW b, b = Recomputed(a)
    PROVE  /\ WellFormed(b) /\ b.status = a.status /\ b.events = a.events
           /\ Active(b) = Active(a) /\ \A c \in Cycles : ActiveOf(b, c) = ActiveOf(a, c)
           /\ AddonsReplayed(b) /\ PenaltiesReplayed(b)
<1>1. /\ b.status = a.status /\ b.events = a.events
      /\ b.addon = [c \in Cycles |-> ReplayedAddon(a, c)]
      /\ b.penalty = [c \in Cycles |-> ReplayedPenalty(a, c)]
      /\ b = [status |-> b.status, addon |-> b.addon, penalty |-> b.penalty, events |-> b.events]
  BY DEF Recomputed, WellFormed, Account
<1>2. \A c \in Cycles : ReplayedAddon(a, c) \in Int /\ ReplayedPenalty(a, c) \in Nat
  BY ReplayIsSum
<1>3. WellFormed(b)
  BY <1>1, <1>2 DEF WellFormed, Account
<1>4. Active(b) = Active(a) /\ \A c : ActiveOf(b, c) = ActiveOf(a, c)
  BY <1>1 DEF Active, ActiveOf
<1>5. \A c \in Cycles : /\ ReplayedAddon(b, c) = ReplayedAddon(a, c)
                        /\ ReplayedPenalty(b, c) = ReplayedPenalty(a, c)
  BY <1>1, <1>4 DEF ReplayedAddon, ReplayedPenalty
<1> QED
  BY <1>1, <1>3, <1>4, <1>5 DEF AddonsReplayed, PenaltiesReplayed

\* A change of statuses leaves the events alone.
LEMMA NewStatuses ==
    ASSUME NEW a, WellFormed(a), NEW st \in [Cycles -> CycleStatus],
           NEW b, b = [a EXCEPT !.status = st]
    PROVE  /\ WellFormed(b) /\ b.status = st /\ b.addon = a.addon
           /\ b.penalty = a.penalty /\ b.events = a.events
           /\ Active(b) = Active(a) /\ \A k \in Cycles : ActiveOf(b, k) = ActiveOf(a, k)
           /\ AddonsReplayed(a) => AddonsReplayed(b)
           /\ PenaltiesReplayed(a) => PenaltiesReplayed(b)
           /\ \A over : \A k \in Cycles :
                 st[k] = a.status[k] /\ VerdictOf(a, over, k) => VerdictOf(b, over, k)
           /\ \A over : \A k \in Cycles :
                 st[k] \notin Penalised /\ ActiveOf(a, k) = {} /\ k \notin over
                     => VerdictOf(b, over, k)
<1>1. /\ b.status = st /\ b.addon = a.addon /\ b.penalty = a.penalty /\ b.events = a.events
      /\ b \in Account
  BY DEF WellFormed, Account
<1>2. WellFormed(b)
  BY <1>1 DEF WellFormed
<1>3. Active(b) = Active(a) /\ \A k : ActiveOf(b, k) = ActiveOf(a, k)
  BY <1>1 DEF Active, ActiveOf
<1>4. \A c \in Cycles : /\ ReplayedAddon(b, c) = ReplayedAddon(a, c)
                        /\ ReplayedPenalty(b, c) = ReplayedPenalty(a, c)
  BY <1>1, <1>3 DEF ReplayedAddon, ReplayedPenalty
<1>5. AddonsReplayed(a) => AddonsReplayed(b)
  BY <1>1, <1>4 DEF AddonsReplayed
<1>6. PenaltiesReplayed(a) => PenaltiesReplayed(b)
  BY <1>1, <1>4 DEF PenaltiesReplayed
<1>7. \A over : \A k \in Cycles :
          st[k] = a.status[k] /\ VerdictOf(a, over, k) => VerdictOf(b, over, k)
  BY <1>1, <1>3 DEF VerdictOf
<1>8. \A over : \A k \in Cycles :
          st[k] \notin Penalised /\ ActiveOf(a, k) = {} /\ k \notin over => VerdictOf(b, over, k)
  BY <1>1, <1>3 DEF VerdictOf
<1> QED
  BY <1>1, <1>2, <1>3, <1>5, <1>6, <1>7, <1>8

\* A shortfall is never negative.
LEMMA ShortfallIsNat ==
    ASSUME NEW got \in Nat, NEW extra \in Int
    PROVE  Shortfall(got, extra) \in Nat
  BY PenaltyAssumption DEF Shortfall, PenaltyAssumption
-----------------------------------------------------------------------------
(* The nightly job goes through the cycles one after the other.            *)

\* b comes after a in the history of the account.
Continues(a, b) ==
    \A i \in DOMAIN a.events : i \in DOMAIN b.events /\ b.events[i] = a.events[i]

\* What the job has kept when it reaches account a.
Kept(a) ==
    /\ WellFormed(a)
    /\ AddonsReplayed(a)
    /\ Continues(acct, a)
    /\ PenaltiesReplayed(acct) => PenaltiesReplayed(a)
    /\ Verdicts(acct, overwritten) => Verdicts(a, overwritten)

\* The nightly run keeps a history, its replay and its verdicts when it processes one cycle.
LEMMA ProcessCycleKeeps ==
    ASSUME NEW a, Kept(a), NEW c \in Cycles, NEW capped, received \in [Cycles -> Nat]
    PROVE  Kept(ProcessCycle(a, c, capped))
<1> DEFINE short == Shortfall(received[c], a.addon[c])
           st == [a.status EXCEPT ![c] = "AWAITING_REVIEW"]
           waiting == [a EXCEPT !.status = st]
           p == IF a.status[c] = "UPCOMING" /\ short > 0 THEN waiting ELSE a
<1>0. WellFormed(a) /\ a.status \in [Cycles -> CycleStatus] /\ a.addon \in [Cycles -> Int]
      /\ a.penalty \in [Cycles -> Nat]
  BY DEF Kept, WellFormed, Account
<1>1. short \in Nat
  BY <1>0, ShortfallIsNat
<1>2. ProcessCycle(a, c, capped) =
          IF p.status[c] = "AWAITING_REVIEW" /\ short > 0 /\ c \in capped /\ ActiveOf(a, c) = {}
          THEN Penalise(p, c, short, short, a.penalty[c]) ELSE p
  BY DEF ProcessCycle
<1>3. st \in [Cycles -> CycleStatus]
  BY <1>0 DEF CycleStatus
<1>4. Kept(p) /\ p.penalty = a.penalty /\ \A k \in Cycles : ActiveOf(p, k) = ActiveOf(a, k)
  <2>1. CASE a.status[c] = "UPCOMING" /\ short > 0
    <3>1. p = waiting
      BY <2>1
    <3>2. \A k \in Cycles : st[k] = IF k = c THEN "AWAITING_REVIEW" ELSE a.status[k]
      BY <1>0
    <3> HIDE DEF p, st
    <3>3. /\ WellFormed(p) /\ p.penalty = a.penalty /\ p.events = a.events
          /\ \A k \in Cycles : ActiveOf(p, k) = ActiveOf(a, k)
          /\ AddonsReplayed(a) => AddonsReplayed(p)
          /\ PenaltiesReplayed(a) => PenaltiesReplayed(p)
          /\ \A k \in Cycles : st[k] = a.status[k] /\ VerdictOf(a, overwritten, k) => VerdictOf(p, overwritten, k)
          /\ \A k \in Cycles : st[k] \notin Penalised /\ ActiveOf(a, k) = {} /\ k \notin overwritten
                               => VerdictOf(p, overwritten, k)
      BY <1>0, <1>3, <3>1, NewStatuses
    <3>4. Verdicts(a, overwritten) => Verdicts(p, overwritten)
      <4> SUFFICES ASSUME Verdicts(a, overwritten), NEW k \in Cycles PROVE VerdictOf(p, overwritten, k)
        BY DEF Verdicts
      <4>1. VerdictOf(a, overwritten, k)
        BY DEF Verdicts
      <4>2. CASE k = c
        <5>1. ActiveOf(a, c) = {} /\ c \notin overwritten
          BY <2>1, <4>1, <4>2 DEF VerdictOf, Penalised
        <5> QED
          BY <3>2, <3>3, <4>2, <5>1 DEF Penalised
      <4>3. CASE k # c
        BY <3>2, <3>3, <4>1, <4>3
      <4> QED
        BY <4>2, <4>3
    <3> QED
      BY <3>3, <3>4 DEF Kept, Continues
  <2>2. CASE ~(a.status[c] = "UPCOMING" /\ short > 0)
    <3>1. p = a
      BY <2>2
    <3> QED
      BY <3>1
  <2> QED
    BY <2>1, <2>2
<1> HIDE DEF p, short
<1>5. CASE p.status[c] = "AWAITING_REVIEW" /\ short > 0 /\ c \in capped /\ ActiveOf(a, c) = {}
  <2> DEFINE b == Penalise(p, c, short, short, a.penalty[c])
  <2>1. WellFormed(p) /\ short \in 0..short /\ a.penalty[c] \in Nat /\ ActiveOf(p, c) = {}
    BY <1>0, <1>1, <1>4, <1>5 DEF Kept
  <2> HIDE DEF b
  <2>2. WellFormed(b) /\ \A i \in DOMAIN p.events : i \in DOMAIN b.events /\ b.events[i] = p.events[i]
    BY <1>1, <2>1, PenaliseEffect DEF b
  <2>3. /\ AddonsReplayed(p) => AddonsReplayed(b)
        /\ PenaltiesReplayed(p) => PenaltiesReplayed(b)
        /\ \A k \in Cycles : k # c /\ VerdictOf(p, overwritten, k) => VerdictOf(b, overwritten, k)
        /\ c \notin overwritten => VerdictOf(b, overwritten, c)
    BY <1>1, <1>4, <2>1, PenaliseKeeps DEF b
  <2>4. Verdicts(p, overwritten) => Verdicts(b, overwritten)
    <3>1. Verdicts(p, overwritten) => c \notin overwritten
      BY <1>5 DEF Verdicts, VerdictOf
    <3> QED
      BY <2>3, <3>1 DEF Verdicts
  <2>5. Kept(b)
    BY <1>4, <2>2, <2>3, <2>4 DEF Kept, Continues
  <2> QED
    BY <1>2, <1>5, <2>5 DEF b
<1>6. CASE ~(p.status[c] = "AWAITING_REVIEW" /\ short > 0 /\ c \in capped /\ ActiveOf(a, c) = {})
  <2>1. ProcessCycle(a, c, capped) = p
    BY <1>2, <1>6
  <2> QED
    BY <1>4, <2>1
<1> QED
  BY <1>5, <1>6

\* The sweep over the first n cycles exists, for any n.
IsSweep(f, n, capped) ==
    f = [c \in 0..n |-> IF c = 0 THEN acct ELSE ProcessCycle(f[c - 1], c, capped)]

\* The run over the first n cycles is defined, by induction over n.
LEMMA SweepExists ==
    ASSUME NEW capped, NEW n \in Nat
    PROVE  \E f : IsSweep(f, n, capped)
<1> DEFINE P == {m \in Nat : \E f : IsSweep(f, m, capped)}
<1>1. 0 \in P
  <2>1. IsSweep([c \in 0..0 |-> acct], 0, capped)
    BY DEF IsSweep
  <2> QED
    BY <2>1
<1>2. \A m \in P : m + 1 \in P
  <2> SUFFICES ASSUME NEW m \in Nat, NEW f, IsSweep(f, m, capped)
               PROVE  \E g : IsSweep(g, m + 1, capped)
    OBVIOUS
  <2> DEFINE g == [c \in 0..(m + 1) |-> IF c = m + 1 THEN ProcessCycle(f[m], m + 1, capped)
                                        ELSE f[c]]
  <2>1. \A c \in 0..m : f[c] = IF c = 0 THEN acct ELSE ProcessCycle(f[c - 1], c, capped)
    BY DEF IsSweep
  <2>2. \A c \in 0..(m + 1) :
            g[c] = IF c = 0 THEN acct ELSE ProcessCycle(g[c - 1], c, capped)
    <3> SUFFICES ASSUME NEW c \in 0..(m + 1)
                 PROVE  g[c] = IF c = 0 THEN acct ELSE ProcessCycle(g[c - 1], c, capped)
      OBVIOUS
    <3>1. CASE c = m + 1
      <4>1. c # 0 /\ c - 1 = m /\ m # m + 1 /\ m \in 0..(m + 1)
        BY <3>1
      <4>2. g[c - 1] = f[m]
        BY <4>1
      <4> QED
        BY <3>1, <4>1, <4>2
    <3>2. CASE c # m + 1
      <4>1. c \in 0..m /\ g[c] = f[c]
        BY <3>2
      <4>2. c # 0 => c - 1 \in 0..(m + 1) /\ c - 1 # m + 1
        BY <4>1
      <4>3. c # 0 => g[c - 1] = f[c - 1]
        BY <4>2
      <4> QED
        BY <2>1, <4>1, <4>3
    <3> QED
      BY <3>1, <3>2
  <2>3. g = [c \in 0..(m + 1) |-> g[c]]
    OBVIOUS
  <2> HIDE DEF g
  <2>4. IsSweep(g, m + 1, capped)
    BY <2>2, <2>3 DEF IsSweep
  <2> QED
    BY <2>4
<1> HIDE DEF P
<1>3. P = Nat
  <2>1. P \in SUBSET Nat
    BY DEF P
  <2> QED
    BY <1>1, <1>2, <2>1, SetInduction
<1> QED
  BY <1>3 DEF P

\* It keeps what each cycle keeps, by induction over the cycles.
LEMMA SweepKeeps ==
    ASSUME NEW capped, received \in [Cycles -> Nat], Kept(acct), due \in 0..N,
           NEW f, IsSweep(f, due, capped)
    PROVE  Kept(f[due])
<1> DEFINE P == {m \in Nat : m <= due => Kept(f[m])}
<1>0. \A c \in 0..due : f[c] = IF c = 0 THEN acct ELSE ProcessCycle(f[c - 1], c, capped)
  BY DEF IsSweep
<1>1. 0 \in P
  <2>1. f[0] = acct
    BY <1>0
  <2> QED
    BY <2>1
<1>2. \A m \in P : m + 1 \in P
  <2> SUFFICES ASSUME NEW m \in Nat, m + 1 <= due, Kept(f[m]) PROVE Kept(f[m + 1])
    OBVIOUS
  <2>1. m + 1 \in 0..due /\ m + 1 # 0 /\ (m + 1) - 1 = m /\ m + 1 \in Cycles
    BY PenaltyAssumption DEF PenaltyAssumption, Cycles
  <2>2. f[m + 1] = ProcessCycle(f[m], m + 1, capped)
    BY <1>0, <2>1
  <2> QED
    BY <2>1, <2>2, ProcessCycleKeeps
<1> HIDE DEF P
<1>3. P = Nat
  <2>1. P \in SUBSET Nat
    BY DEF P
  <2> QED
    BY <1>1, <1>2, <2>1, SetInduction
<1> QED
  BY <1>3, PenaltyAssumption DEF P, PenaltyAssumption

\* So the whole nightly run keeps it.
LEMMA NightKeeps ==
    ASSUME NEW capped, received \in [Cycles -> Nat], due \in 0..N,
           WellFormed(acct), AddonsReplayed(acct), NightlyRun(capped)
    PROVE  Kept(acct')
<1> DEFINE after == CHOOSE f : IsSweep(f, due, capped)
<1>1. acct' = after[due]
  BY DEF NightlyRun, IsSweep
<1>2. IsSweep(after, due, capped)
  <2>1. due \in Nat
    BY PenaltyAssumption DEF PenaltyAssumption
  <2> QED
    BY <2>1, SweepExists
<1> HIDE DEF after
<1>3. Kept(acct)
  BY DEF Kept, Continues
<1> QED
  BY <1>1, <1>2, <1>3, SweepKeeps
-----------------------------------------------------------------------------
(***************************************************************************)
(* The inductive invariants.  Replay holds whatever requests overlap;      *)
(* Serial needs that no two requests classify one cycle at once, so that   *)
(* what a request has read of its cycle is still so when it acts.          *)
(***************************************************************************)

Replay == TypeOK /\ WellFormed(acct) /\ AddonsReplayed(acct)

\* The cycle of a classification in flight has no penalty, and no cycle is judged by
\* two requests.
Judging(r) == r.op \in {"classify", "reclassify"}
Unpenalised(r, a, over) ==
    /\ a.status[r.cycle] \notin Penalised /\ r.cycle \notin over
    /\ r.penalty = 0
Reading ==
    /\ \A s \in Sessions : req[s].op = "classify" => Unpenalised(req[s], acct, overwritten)
    /\ \A s, t \in Sessions :
          s # t /\ Judging(req[s]) /\ Judging(req[t]) => req[s].cycle # req[t].cycle

Serial == PenaltiesReplayed(acct) /\ Verdicts(acct, overwritten) /\ Reading

\* What HistoryIsImmutable says of a step from a to b.
History(a, b) ==
    \A i \in DOMAIN a.events :
        /\ i \in DOMAIN b.events
        /\ \/ b.events[i] = a.events[i]
           \/ /\ a.events[i].superseded = 0
              /\ b.events[i].superseded # 0
              /\ b.events[i] = [a.events[i] EXCEPT !.superseded = b.events[i].superseded]

\* What a step has to keep.
StepKept ==
    /\ Replay'
    /\ History(acct, acct')
    /\ ~SameCycleOverlap /\ Serial => Serial'
-----------------------------------------------------------------------------
(* Requests.                                                               *)

\* The fields of the requests under way, by kind.
LEMMA RequestFields ==
    ASSUME TypeOK, NEW s \in Sessions
    PROVE  /\ req[s].op = "classify" => /\ req[s].cycle \in Cycles /\ req[s].short \in Nat
                                        /\ req[s].penalty \in Nat /\ req[s] # Idle
           /\ req[s].op = "reclassify" => req[s].cycle \in Cycles /\ req[s] # Idle
           /\ req[s].op = "edit" => /\ req[s].cycle \in Cycles /\ req[s].enough \subseteq Receipts
                                    /\ req[s] # Idle
           /\ req[s] # Idle => req[s].cycle \in Cycles
           /\ req[s].op # "idle" => req[s] # Idle
<1>1. req[s] \in Requests
  BY DEF TypeOK
<1>2. CASE req[s] = Idle
  BY <1>2 DEF Idle
<1>3. CASE req[s] \in [op : {"classify"}, cycle : Cycles, short : Nat, penalty : Nat]
  BY <1>3, PenaltyAssumption DEF Idle, Cycles, PenaltyAssumption
<1>4. CASE req[s] \in [op : {"reclassify"}, cycle : Cycles]
  BY <1>4, PenaltyAssumption DEF Idle, Cycles, PenaltyAssumption
<1>5. CASE req[s] \in [op : {"edit"}, cycle : Cycles, got : Nat, enough : SUBSET Receipts]
  BY <1>5, PenaltyAssumption DEF Idle, Cycles, PenaltyAssumption
<1> QED
  BY <1>1, <1>2, <1>3, <1>4, <1>5 DEF Requests

\* An accepted account has the types of the tables.
LEMMA AccountTypes ==
    ASSUME NEW a, WellFormed(a), \A c \in Cycles : a.addon[c] >= 0
    PROVE  /\ DOMAIN a = {"status", "addon", "penalty", "events"}
           /\ a.status \in [Cycles -> CycleStatus] /\ a.addon \in [Cycles -> Nat]
           /\ a.penalty \in [Cycles -> Nat] /\ a.events \in Seq(Event)
<1>1. /\ a = [status |-> a.status, addon |-> a.addon, penalty |-> a.penalty, events |-> a.events]
      /\ a.status \in [Cycles -> CycleStatus] /\ a.addon \in [Cycles -> Int]
      /\ a.penalty \in [Cycles -> Nat] /\ a.events \in Seq(Event)
  BY DEF WellFormed, Account
<1>2. DOMAIN a = {"status", "addon", "penalty", "events"}
  BY <1>1
<1>3. a.addon \in [Cycles -> Nat]
  BY <1>1
<1> QED
  BY <1>1, <1>2, <1>3

\* A step to an account that is well formed and replayed keeps the invariant.
LEMMA KeepsReplay ==
    ASSUME received' \in [Cycles -> Nat], due' \in 0..N, req' \in [Sessions -> Requests],
           overwritten' \in SUBSET Cycles, WellFormed(acct'), AddonsReplayed(acct'), \A c \in Cycles : acct'.addon[c] >= 0
    PROVE  Replay'
<1>1. /\ DOMAIN acct' = {"status", "addon", "penalty", "events"}
      /\ acct'.status \in [Cycles -> CycleStatus] /\ acct'.addon \in [Cycles -> Nat]
      /\ acct'.penalty \in [Cycles -> Nat] /\ acct'.events \in Seq(Event)
  BY AccountTypes
<1>2. \A i \in DOMAIN acct'.events :
          /\ acct'.events[i].penalty <= acct'.events[i].late
          /\ acct'.events[i].superseded \in {0} \cup i..Len(acct'.events)
  BY DEF WellFormed
<1> QED
  BY <1>1, <1>2 DEF Replay, TypeOK

\* A request that ends with a change of the account.
LEMMA DoneKeepsReplay ==
    ASSUME Replay, NEW s \in Sessions, Done(s), UNCHANGED <<received, due>>,
           overwritten' \in SUBSET overwritten, WellFormed(acct'), AddonsReplayed(acct'), \A c \in Cycles : acct'.addon[c] >= 0
    PROVE  Replay'
<1>1. req' \in [Sessions -> Requests]
  BY DEF Replay, TypeOK, Done, Requests
<1>2. received' \in [Cycles -> Nat] /\ due' \in 0..N /\ overwritten' \in SUBSET Cycles
  BY DEF Replay, TypeOK
<1> QED
  BY <1>1, <1>2, KeepsReplay

\* The end of a request leaves what the other requests have read up to date, when it
\* changes the status of its own cycle only, which no other request judges.
LEMMA DoneKeepsReading ==
    ASSUME TypeOK, Reading, NEW s \in Sessions, Done(s), overwritten' \in SUBSET overwritten,
           \A k \in Cycles : \/ acct'.status[k] = acct.status[k]
                             \/ k = req[s].cycle /\ Judging(req[s])
    PROVE  Reading'
<1>1. req' = [req EXCEPT ![s] = Idle] /\ req \in [Sessions -> Requests]
  BY DEF Done, TypeOK
<1>2. req'[s] = Idle /\ \A t \in Sessions : t # s => req'[t] = req[t]
  BY <1>1
<1>3. ~Judging(req'[s])
  BY <1>2 DEF Idle, Judging
<1>4. ASSUME NEW t \in Sessions, req'[t].op = "classify"
      PROVE  Unpenalised(req'[t], acct', overwritten')
  <2>1. t # s /\ req'[t] = req[t] /\ Judging(req[t])
    BY <1>2, <1>3, <1>4 DEF Judging
  <2>2. req[t].cycle \in Cycles /\ Unpenalised(req[t], acct, overwritten)
    BY <1>4, <2>1, RequestFields DEF Reading
  <2>3. acct'.status[req[t].cycle] = acct.status[req[t].cycle]
    BY <2>1, <2>2 DEF Reading
  <2> QED
    BY <2>1, <2>2, <2>3 DEF Unpenalised
<1>5. ASSUME NEW t \in Sessions, NEW u \in Sessions, t # u, Judging(req'[t]), Judging(req'[u])
      PROVE  req'[t].cycle # req'[u].cycle
  BY <1>2, <1>3, <1>5 DEF Reading
<1> QED
  BY <1>4, <1>5 DEF Reading, Judging, Unpenalised

\* A step that leaves the account alone.
LEMMA SameAccount ==
    ASSUME Replay, acct' = acct, received' \in [Cycles -> Nat], due' \in 0..N,
           req' \in [Sessions -> Requests], overwritten' = overwritten,
           ~SameCycleOverlap /\ Serial => Reading'
    PROVE  StepKept
<1>1. WellFormed(acct') /\ AddonsReplayed(acct') /\ (PenaltiesReplayed(acct) => PenaltiesReplayed(acct'))
      /\ (Verdicts(acct, overwritten) => Verdicts(acct', overwritten'))
  BY DEF Replay
<1>2. History(acct, acct')
  BY DEF History
<1>3. TypeOK'
  BY DEF Replay, TypeOK
<1> QED
  BY <1>1, <1>2, <1>3 DEF StepKept, Replay, Serial

\* A request that begins has read the account as it is.
LEMMA BeginKeeps ==
    ASSUME Replay, NEW s \in Sessions, NEW r \in Requests \ {Idle}, Begin(s, r),
           r.cycle \in Cycles, Judging(r) => MayJudge(r.cycle),
           Verdicts(acct, overwritten) /\ PenaltiesReplayed(acct) /\ r.op = "classify"
               => Unpenalised(r, acct, overwritten)
    PROVE  StepKept
<1>1. req' = [req EXCEPT ![s] = r] /\ UNCHANGED <<acct, received, due, overwritten>>
  BY DEF Begin
<1>2. /\ req' \in [Sessions -> Requests] /\ received' \in [Cycles -> Nat] /\ due' \in 0..N
      /\ req'[s] = r /\ \A t \in Sessions : t # s => req'[t] = req[t]
  BY <1>1 DEF Replay, TypeOK
<1>3. ASSUME ~SameCycleOverlap, Serial PROVE Reading'
  <2>1. Judging(r) => \A t \in Sessions : Judging(req[t]) => req[t].cycle # r.cycle
    BY <1>1, <1>3 DEF MayJudge, Judges, Judging
  <2>2. ASSUME NEW t \in Sessions, req'[t].op = "classify"
      PROVE  Unpenalised(req'[t], acct', overwritten')
    <3>1. Unpenalised(req'[t], acct, overwritten)
      BY <1>2, <1>3, <2>2 DEF Serial, Reading
    <3> QED
      BY <1>1, <3>1 DEF Unpenalised
  <2>3. \A t, u \in Sessions : t # u /\ Judging(req'[t]) /\ Judging(req'[u])
                               => req'[t].cycle # req'[u].cycle
    BY <1>2, <1>3, <2>1 DEF Serial, Reading
  <2> QED
    BY <2>2, <2>3 DEF Reading, Judging, Unpenalised
<1> QED
  BY <1>1, <1>2, <1>3, SameAccount
-----------------------------------------------------------------------------
(* The steps.                                                              *)

\* A cycle that is not late has no active penalty to add up.
LEMMA NoPenalty ==
    ASSUME WellFormed(acct), Verdicts(acct, overwritten), PenaltiesReplayed(acct),
           NEW c \in Cycles, acct.status[c] \notin Penalised, c \notin overwritten
    PROVE  ActiveOf(acct, c) = {} /\ acct.penalty[c] = 0
<1>1. ActiveOf(acct, c) = {}
  BY DEF Verdicts, VerdictOf
<1>2. ReplayedPenalty(acct, c) = SumOver(Charges(acct), {})
  BY <1>1, ReplayIsSum
<1> QED
  BY <1>1, <1>2, SumEmpty DEF PenaltiesReplayed

\* Loading a cycle to classify or to reclassify it, or to edit a payment of it, keeps
\* the invariants.
LEMMA LoadKeeps ==
    ASSUME Replay, NEW s \in Sessions, NEW c \in Cycles,
           LoadForClassify(s, c) \/ LoadForReclassify(s, c) \/ LoadForEdit(s, c)
    PROVE  StepKept
<1>1. CASE LoadForClassify(s, c)
  <2> DEFINE r == [op |-> "classify", cycle |-> c, penalty |-> acct.penalty[c],
                   short |-> Shortfall(received[c], acct.addon[c])]
  <2>1. acct.status[c] \notin Classified /\ MayJudge(c) /\ Begin(s, r)
    BY <1>1 DEF LoadForClassify
  <2>2. acct.penalty[c] \in Nat /\ Shortfall(received[c], acct.addon[c]) \in Nat
    <3>1. acct.penalty[c] \in Nat /\ received[c] \in Nat /\ acct.addon[c] \in Int
      BY DEF Replay, TypeOK
    <3> QED
      BY <3>1, ShortfallIsNat
  <2>3. r \in Requests \ {Idle} /\ r.cycle = c /\ r.penalty = acct.penalty[c]
    BY <2>2, PenaltyAssumption DEF Requests, Idle, Cycles, PenaltyAssumption
  <2>4. ASSUME Verdicts(acct, overwritten), PenaltiesReplayed(acct) PROVE  Unpenalised(r, acct, overwritten)
    <3>1. acct.status[c] \notin Penalised /\ acct.status[c] # "PAID_ON_TIME"
      BY <2>1 DEF Classified
    <3>2. c \notin overwritten
      BY <2>4, <3>1 DEF Verdicts, VerdictOf
    <3>3. acct.penalty[c] = 0
      BY <2>4, <3>1, <3>2, NoPenalty DEF Replay
    <3> QED
      BY <2>3, <3>1, <3>2, <3>3 DEF Unpenalised
  <2> HIDE DEF r
  <2> QED
    BY <2>1, <2>3, <2>4, BeginKeeps
<1>2. CASE LoadForReclassify(s, c)
  <2> DEFINE r == [op |-> "reclassify", cycle |-> c]
  <2>1. MayJudge(c) /\ Begin(s, r)
    BY <1>2 DEF LoadForReclassify
  <2>2. r \in Requests \ {Idle} /\ r.cycle = c /\ r.op # "classify"
    BY PenaltyAssumption DEF Requests, Idle, Cycles, PenaltyAssumption
  <2> HIDE DEF r
  <2> QED
    BY <2>1, <2>2, BeginKeeps
<1>3. CASE LoadForEdit(s, c)
  <2> DEFINE r == [op |-> "edit", cycle |-> c, got |-> received[c], enough |-> Enough(c)]
  <2>1. Begin(s, r)
    BY <1>3 DEF LoadForEdit
  <2>2. received[c] \in Nat /\ Enough(c) \subseteq Receipts
    BY DEF Replay, TypeOK, Enough
  <2>3. r \in Requests \ {Idle} /\ r.cycle = c /\ r.op = "edit"
    BY <2>2, PenaltyAssumption DEF Requests, Idle, Cycles, PenaltyAssumption
  <2> HIDE DEF r
  <2>4. ~Judging(r) /\ r.op # "classify"
    BY <2>3 DEF Judging
  <2> QED
    BY <2>1, <2>3, <2>4, BeginKeeps
<1> QED
  BY <1>1, <1>2, <1>3

\* A refused request changes nothing.
LEMMA RefuseKeeps ==
    ASSUME Replay, NEW s \in Sessions, Refuse(s)
    PROVE  StepKept
<1>1. req[s] # Idle /\ Done(s) /\ UNCHANGED <<acct, received, due, overwritten>>
  BY DEF Refuse
<1>2. Serial => Reading'
  BY <1>1, DoneKeepsReading DEF Serial, Replay
<1>3. req' \in [Sessions -> Requests]
  BY <1>1 DEF Done, Replay, TypeOK, Requests
<1> QED
  BY <1>1, <1>2, <1>3, SameAccount DEF Replay, TypeOK

\* A cycle without a penalty that is classified as paid has none afterwards.
LEMMA ClassifyPaidKeeps ==
    ASSUME Replay, NEW s \in Sessions, ClassifyPaid(s)
    PROVE  StepKept
<1> DEFINE c == req[s].cycle
           st == [acct.status EXCEPT ![c] = "PAID_ON_TIME"]
<1>1. /\ req[s].op = "classify" /\ Done(s) /\ UNCHANGED <<received, due, overwritten>>
      /\ acct' = [acct EXCEPT !.status = st]
  BY DEF ClassifyPaid
<1>2. c \in Cycles /\ req[s] # Idle
  BY <1>1, RequestFields DEF Replay
<1>3. /\ st \in [Cycles -> CycleStatus] /\ st[c] = "PAID_ON_TIME"
      /\ \A k \in Cycles : k # c => st[k] = acct.status[k]
  BY <1>2 DEF Replay, TypeOK, CycleStatus
<1>4. \A k \in Cycles : acct.addon[k] >= 0
  BY DEF Replay, TypeOK
<1> HIDE DEF c, st
<1>5. /\ WellFormed(acct') /\ acct'.status = st /\ acct'.addon = acct.addon
      /\ acct'.events = acct.events /\ AddonsReplayed(acct')
      /\ PenaltiesReplayed(acct) => PenaltiesReplayed(acct')
      /\ \A k \in Cycles : st[k] = acct.status[k] /\ VerdictOf(acct, overwritten, k) => VerdictOf(acct', overwritten, k)
      /\ \A k \in Cycles : st[k] \notin Penalised /\ ActiveOf(acct, k) = {} /\ k \notin overwritten
                           => VerdictOf(acct', overwritten, k)
  BY <1>1, <1>3, NewStatuses DEF Replay
<1>6. Replay'
  BY <1>1, <1>4, <1>5, DoneKeepsReplay
<1>7. History(acct, acct')
  BY <1>5 DEF History
<1>8. ASSUME Serial PROVE Serial'
  <2>1. ActiveOf(acct, c) = {} /\ c \notin overwritten
    BY <1>1, <1>2, <1>8, NoPenalty DEF Serial, Reading, Unpenalised, Replay, c
  <2>2. Verdicts(acct', overwritten')
    BY <1>1, <1>3, <1>5, <1>8, <2>1 DEF Serial, Verdicts, Penalised
  <2>3. Reading'
    BY <1>1, <1>2, <1>3, <1>5, <1>8, DoneKeepsReading DEF Serial, Replay, Judging, c
  <2> QED
    BY <1>5, <1>8, <2>2, <2>3 DEF Serial
<1> QED
  BY <1>6, <1>7, <1>8 DEF StepKept

\* A late classification adds its event and the addons of that event.
LEMMA ClassifyLateKeeps ==
    ASSUME Replay, NEW s \in Sessions, ClassifyLate(s)
    PROVE  StepKept
<1> DEFINE c == req[s].cycle
           late == req[s].short
           held == req[s].penalty
<1>1. /\ req[s].op = "classify" /\ Done(s) /\ UNCHANGED <<received, due, overwritten>>
      /\ Accepted(acct')
  BY DEF ClassifyLate
<1>2. PICK penalty \in 0..late : acct' = Penalise(acct, c, late, penalty, held)
  BY DEF ClassifyLate
<1>3. c \in Cycles /\ late \in Nat /\ held \in Nat /\ req[s] # Idle
  BY <1>1, RequestFields DEF Replay
<1> HIDE DEF c, late, held
<1>0. WellFormed(acct)
  BY DEF Replay
<1>a. WellFormed(acct')
  BY <1>0, <1>2, <1>3, PenaliseEffect
<1>b. \A i \in DOMAIN acct.events : i \in DOMAIN acct'.events /\ acct'.events[i] = acct.events[i]
  BY <1>0, <1>2, <1>3, PenaliseEffect
<1>c. \A k \in Cycles : k # c => acct'.status[k] = acct.status[k]
  BY <1>0, <1>2, <1>3, PenaliseEffect
<1>4. /\ WellFormed(acct')
      /\ \A i \in DOMAIN acct.events : i \in DOMAIN acct'.events /\ acct'.events[i] = acct.events[i]
      /\ \A k \in Cycles : k # c => acct'.status[k] = acct.status[k]
  BY <1>a, <1>b, <1>c
<1>5. /\ AddonsReplayed(acct')
      /\ PenaltiesReplayed(acct) /\ held = acct.penalty[c] => PenaltiesReplayed(acct')
      /\ \A k \in Cycles : k # c /\ VerdictOf(acct, overwritten, k) => VerdictOf(acct', overwritten, k)
      /\ ActiveOf(acct, c) = {} /\ c \notin overwritten => VerdictOf(acct', overwritten, c)
  BY <1>2, <1>3, PenaliseKeeps DEF Replay
<1>6. Replay'
  BY <1>1, <1>4, <1>5, DoneKeepsReplay DEF Accepted
<1>7. History(acct, acct')
  BY <1>4 DEF History
<1>8. ASSUME Serial PROVE Serial'
  <2>1. ActiveOf(acct, c) = {} /\ acct.penalty[c] = 0 /\ held = 0 /\ c \notin overwritten
    BY <1>1, <1>3, <1>8, NoPenalty DEF Serial, Reading, Unpenalised, Replay, c, held
  <2>2. Verdicts(acct', overwritten') /\ PenaltiesReplayed(acct')
    BY <1>1, <1>5, <1>8, <2>1 DEF Serial, Verdicts
  <2>3. Reading'
    BY <1>1, <1>3, <1>4, <1>8, DoneKeepsReading DEF Serial, Replay, Judging, c
  <2> QED
    BY <2>2, <2>3 DEF Serial
<1> QED
  BY <1>6, <1>7, <1>8 DEF StepKept

\* The account without the event a reclassification replaces.
Without(old) == Recomputed(Supersede(acct, old, old))

\* What is left of the account without it, for the cycle c it was a penalty of.
Reopened(w, c, old) ==
    /\ WellFormed(w) /\ w.status = acct.status
    /\ AddonsReplayed(w) /\ PenaltiesReplayed(w)
    /\ old # 0 => old \in Active(acct)
    /\ Len(w.events) = Len(acct.events)
    /\ \A i \in DOMAIN acct.events :
          /\ i \in DOMAIN w.events
          /\ w.events[i] = IF i = old THEN [acct.events[i] EXCEPT !.superseded = old]
                           ELSE acct.events[i]
    /\ Active(w) = Active(acct) \ {old}
    /\ Verdicts(acct, overwritten) => /\ ActiveOf(w, c) = {}
                         /\ \A k \in Cycles : k # c => VerdictOf(w, overwritten \ {c}, k)

\* What undoing the current event of a cycle does, when no cycle has two.
LEMMA WithoutEffect ==
    ASSUME WellFormed(acct), NEW c \in Cycles, NEW old \in Current(c)
    PROVE  Reopened(Without(old), c, old)
<1>1. /\ old \in {0} \cup DOMAIN acct.events
      /\ old # 0 => old \in ActiveOf(acct, c) /\ old \in Active(acct)
  BY DEF Current, ActiveOf, Active
<1>2. old \in old..Len(acct.events)
  <2>1. Len(acct.events) \in Nat /\ DOMAIN acct.events = 1..Len(acct.events)
    BY EventRows
  <2> QED
    BY <1>1, <2>1
<1>0. PICK b : b = Supersede(acct, old, old)
  OBVIOUS
<1>w. PICK w : w = Without(old)
  OBVIOUS
<1>s. Superseded(acct, b, old, old)
  BY <1>0, <1>1, <1>2, SupersedeEffect
<1>3. /\ WellFormed(b) /\ b.status = acct.status /\ Len(b.events) = Len(acct.events)
      /\ \A i \in DOMAIN acct.events :
            /\ i \in DOMAIN b.events
            /\ b.events[i] = IF i = old THEN [acct.events[i] EXCEPT !.superseded = old]
                             ELSE acct.events[i]
            /\ b.events[i].cycle = acct.events[i].cycle
      /\ Active(b) = Active(acct) \ {old}
  BY <1>s DEF Superseded
<1>4. /\ WellFormed(w) /\ w.status = b.status /\ w.events = b.events
      /\ Active(w) = Active(b) /\ \A k \in Cycles : ActiveOf(w, k) = ActiveOf(b, k)
      /\ AddonsReplayed(w) /\ PenaltiesReplayed(w)
  BY <1>0, <1>w, <1>3, RecomputedEffect DEF Without
<1>5. \A k \in Cycles : ActiveOf(w, k) = ActiveOf(acct, k) \ {old}
  <2>1. Active(acct) \subseteq DOMAIN acct.events
    BY DEF Active
  <2> QED
    BY <1>3, <1>4, <2>1 DEF ActiveOf
<1>6. ASSUME Verdicts(acct, overwritten)
      PROVE  ActiveOf(w, c) = {} /\ \A k \in Cycles : k # c => VerdictOf(w, overwritten \ {c}, k)
  <2>1. ActiveOf(w, c) = {}
    <3>1. CASE ActiveOf(acct, c) = {}
      BY <1>5, <3>1
    <3>2. CASE ActiveOf(acct, c) # {}
      <4>1. PICK i \in Active(acct) : ActiveOf(acct, c) = {i}
        BY <1>6, <3>2 DEF Verdicts, VerdictOf
      <4>2. old = i
        BY <3>2, <4>1 DEF Current
      <4> QED
        BY <1>5, <4>1, <4>2
    <3> QED
      BY <3>1, <3>2
  <2>2. ASSUME NEW k \in Cycles, k # c PROVE VerdictOf(w, overwritten \ {c}, k)
    <3>1. VerdictOf(acct, overwritten, k)
      BY <1>6 DEF Verdicts
    <3>2. ActiveOf(w, k) = ActiveOf(acct, k)
      <4>1. old \notin ActiveOf(acct, k)
        <5>1. 0 \notin ActiveOf(acct, k)
          BY EventRows
        <5>2. old # 0 => acct.events[old].cycle = c
          BY <1>1 DEF ActiveOf
        <5> QED
          BY <2>2, <5>1, <5>2 DEF ActiveOf
      <4> QED
        BY <1>5, <4>1
    <3>3. \A i \in ActiveOf(acct, k) : w.events[i] = acct.events[i] /\ i \in Active(w)
      <4>1. \A i \in ActiveOf(acct, k) : i # old /\ i \in Active(acct) /\ i \in DOMAIN acct.events
        BY <1>5, <3>2 DEF ActiveOf, Active
      <4> QED
        BY <1>3, <1>4, <4>1
    <3>4. w.status[k] = acct.status[k]
      BY <1>3, <1>4
    <3>5. CASE acct.status[k] \in Penalised /\ k \notin overwritten
      <4>1. PICK i \in Active(acct) :
                /\ ActiveOf(acct, k) = {i}
                /\ acct.events[i].cap_hit <=> acct.status[k] = "MISSED_CAPPED"
        BY <3>1, <3>5 DEF VerdictOf
      <4>2. i \in Active(w) /\ w.events[i] = acct.events[i] /\ ActiveOf(w, k) = {i}
        BY <3>2, <3>3, <4>1
      <4> QED
        BY <3>4, <3>5, <4>1, <4>2 DEF VerdictOf
    <3>6. CASE acct.status[k] \notin Penalised /\ k \notin overwritten
      BY <3>1, <3>2, <3>4, <3>6 DEF VerdictOf
    <3>7. CASE k \in overwritten
      <4>1. acct.status[k] = "PAID_ON_TIME" /\ \E i \in Active(acct) : ActiveOf(acct, k) = {i}
        BY <3>1, <3>7 DEF VerdictOf
      <4>2. PICK i \in Active(acct) : ActiveOf(acct, k) = {i}
        BY <4>1
      <4>3. i \in Active(w) /\ ActiveOf(w, k) = {i} /\ k \in overwritten \ {c}
        BY <2>2, <3>2, <3>3, <3>7, <4>2
      <4> QED
        BY <3>4, <4>1, <4>3 DEF VerdictOf
    <3> QED
      BY <3>5, <3>6, <3>7
  <2> QED
    BY <2>1, <2>2
<1> QED
  BY <1>w, <1>1, <1>3, <1>4, <1>6 DEF Reopened

\* The events of b are those of a, but an active one, `old`, is superseded.
Replaces(a, b, old, by) ==
    /\ old # 0 => by # 0 /\ old \in Active(a)
    /\ \A i \in DOMAIN a.events :
          /\ i \in DOMAIN b.events
          /\ b.events[i] = IF i = old THEN [a.events[i] EXCEPT !.superseded = by]
                           ELSE a.events[i]

\* Superseding an active event is a legal step of the history.
LEMMA OneSuperseded ==
    ASSUME NEW a, WellFormed(a), NEW b, NEW old, NEW by, Replaces(a, b, old, by)
    PROVE  History(a, b)
<1> SUFFICES ASSUME NEW i \in DOMAIN a.events
             PROVE  /\ i \in DOMAIN b.events
                    /\ \/ b.events[i] = a.events[i]
                       \/ /\ a.events[i].superseded = 0
                          /\ b.events[i].superseded # 0
                          /\ b.events[i] = [a.events[i] EXCEPT
                                !.superseded = b.events[i].superseded]
  BY DEF History
<1>0. Replaces(a, b, old, by)
  OBVIOUS
<1>1. CASE i # old
  BY <1>0, <1>1 DEF Replaces
<1>2. CASE i = old
  <2>1. a.events[i] \in Event /\ i # 0
    BY EventRows
  <2>2. b.events[i] = [a.events[i] EXCEPT !.superseded = by]
    BY <1>0, <1>2 DEF Replaces
  <2>3. b.events[i].superseded = by /\ by # 0 /\ a.events[i].superseded = 0
    BY <1>0, <1>2, <2>1, <2>2 DEF Event, Active, Replaces
  <2> QED
    BY <1>0, <2>2, <2>3 DEF Replaces
<1> QED
  BY <1>1, <1>2

\* A reclassification as paid leaves the cycle without an active event.
LEMMA ReclassifyPaidKeeps ==
    ASSUME Replay, NEW s \in Sessions, ReclassifyPaid(s)
    PROVE  StepKept
<1> DEFINE c == req[s].cycle
<1>1. /\ req[s].op = "reclassify" /\ Done(s) /\ UNCHANGED <<received, due>>
      /\ Accepted(acct') /\ overwritten' = overwritten \ {c}
  BY DEF ReclassifyPaid
<1>2. c \in Cycles /\ req[s] # Idle
  BY <1>1, RequestFields DEF Replay
<1>3. PICK old \in Current(c) : acct' = [Without(old) EXCEPT !.status[c] = "PAID_ON_TIME"]
  BY DEF ReclassifyPaid, Without
<1>w. PICK w : w = Without(old)
  OBVIOUS
<1> DEFINE st == [w.status EXCEPT ![c] = "PAID_ON_TIME"]
<1>4. acct' = [w EXCEPT !.status = st]
  BY <1>3, <1>w
<1> HIDE DEF c
<1>0. WellFormed(acct)
  BY DEF Replay
<1>a. Reopened(w, c, old)
  BY <1>0, <1>2, <1>w, WithoutEffect
<1>5. /\ WellFormed(w) /\ w.status = acct.status /\ AddonsReplayed(w) /\ PenaltiesReplayed(w)
      /\ old # 0 => old \in Active(acct)
      /\ \A i \in DOMAIN acct.events :
            /\ i \in DOMAIN w.events
            /\ w.events[i] = IF i = old THEN [acct.events[i] EXCEPT !.superseded = old]
                             ELSE acct.events[i]
      /\ Verdicts(acct, overwritten) => /\ ActiveOf(w, c) = {}
                           /\ \A k \in Cycles : k # c => VerdictOf(w, overwritten', k)
  BY <1>1, <1>a DEF Reopened
<1>6. /\ st \in [Cycles -> CycleStatus] /\ st[c] = "PAID_ON_TIME"
      /\ \A k \in Cycles : k # c => st[k] = w.status[k]
  BY <1>2, <1>5 DEF Replay, TypeOK, CycleStatus
<1> HIDE DEF st
<1>7. /\ WellFormed(acct') /\ acct'.status = st /\ acct'.events = w.events
      /\ AddonsReplayed(acct') /\ PenaltiesReplayed(acct')
      /\ \A k \in Cycles : st[k] = w.status[k] /\ VerdictOf(w, overwritten', k) => VerdictOf(acct', overwritten', k)
      /\ \A k \in Cycles : st[k] \notin Penalised /\ ActiveOf(w, k) = {} /\ k \notin overwritten'
                           => VerdictOf(acct', overwritten', k)
  BY <1>4, <1>5, <1>6, NewStatuses
<1>8. Replay'
  BY <1>1, <1>7, DoneKeepsReplay DEF Accepted
<1>9. History(acct, acct')
  <2>1. \A i \in DOMAIN acct.events :
            /\ i \in DOMAIN acct'.events
            /\ acct'.events[i] = IF i = old THEN [acct.events[i] EXCEPT !.superseded = old]
                                 ELSE acct.events[i]
    BY <1>5, <1>7
  <2>2. Replaces(acct, acct', old, old)
    BY <1>5, <2>1 DEF Replaces
  <2> QED
    BY <1>0, <2>2, OneSuperseded
<1>10. ASSUME Serial PROVE Serial'
  <2>1. Verdicts(acct', overwritten')
    BY <1>1, <1>5, <1>6, <1>7, <1>10 DEF Serial, Verdicts, Penalised
  <2>2. Reading'
    BY <1>1, <1>2, <1>5, <1>6, <1>7, <1>10, DoneKeepsReading DEF Serial, Replay, Judging, c
  <2> QED
    BY <1>7, <2>1, <2>2 DEF Serial
<1> QED
  BY <1>8, <1>9, <1>10 DEF StepKept

\* A reclassification as late replaces the active event of the cycle by a new one.
LEMMA ReclassifyLateKeeps ==
    ASSUME Replay, NEW s \in Sessions, ReclassifyLate(s)
    PROVE  StepKept
<1> DEFINE c == req[s].cycle
<1>1. /\ req[s].op = "reclassify" /\ Done(s) /\ UNCHANGED <<received, due>>
      /\ Accepted(acct') /\ overwritten' = overwritten \ {c}
  BY DEF ReclassifyLate
<1>2. c \in Cycles /\ req[s] # Idle /\ WellFormed(acct)
  BY <1>1, RequestFields DEF Replay
<1>3. PICK old \in Current(c) :
          LET w == Without(old)
              late == Shortfall(received[c], w.addon[c])
          IN  /\ late > 0
              /\ \E penalty \in 0..late :
                    LET with == Penalise(w, c, late, penalty, w.penalty[c])
                    IN  acct' = Supersede(with, old, Len(with.events))
  BY DEF ReclassifyLate, Without
<1>4. PICK w : w = Without(old)
  OBVIOUS
<1>5. PICK late : late = Shortfall(received[c], w.addon[c])
  OBVIOUS
<1>6. PICK penalty \in 0..late :
          LET with == Penalise(w, c, late, penalty, w.penalty[c])
          IN  acct' = Supersede(with, old, Len(with.events))
  BY <1>3, <1>4, <1>5
<1>7. PICK with : with = Penalise(w, c, late, penalty, w.penalty[c])
  OBVIOUS
<1>8. acct' = Supersede(with, old, Len(with.events))
  BY <1>6, <1>7
<1> HIDE DEF c
<1>9. Reopened(w, c, old)
  BY <1>2, <1>4, WithoutEffect
<1>10. /\ WellFormed(w) /\ w.status = acct.status /\ AddonsReplayed(w) /\ PenaltiesReplayed(w)
       /\ old # 0 => old \in Active(acct)
       /\ Len(w.events) = Len(acct.events)
       /\ \A i \in DOMAIN acct.events :
             /\ i \in DOMAIN w.events
             /\ w.events[i] = IF i = old THEN [acct.events[i] EXCEPT !.superseded = old]
                              ELSE acct.events[i]
       /\ Active(w) = Active(acct) \ {old}
       /\ Verdicts(acct, overwritten) => /\ ActiveOf(w, c) = {}
                            /\ \A k \in Cycles : k # c => VerdictOf(w, overwritten', k)
  BY <1>1, <1>9 DEF Reopened
<1>11. w.addon[c] \in Int /\ w.penalty[c] \in Nat /\ received[c] \in Nat
  BY <1>2, <1>10 DEF WellFormed, Account, Replay, TypeOK
<1>12. late \in Nat
  BY <1>5, <1>11, ShortfallIsNat
<1>13. PICK held : held = w.penalty[c]
  OBVIOUS
<1>14. with = Penalise(w, c, late, penalty, held) /\ held \in Nat
  BY <1>7, <1>11, <1>13
<1>w. WellFormed(w)
  BY <1>10
<1>a. WellFormed(with)
  BY <1>2, <1>w, <1>12, <1>14, PenaliseEffect
<1>b. Len(with.events) = Len(w.events) + 1
  BY <1>2, <1>w, <1>12, <1>14, PenaliseEffect
<1>c. \A i \in DOMAIN w.events : i \in DOMAIN with.events /\ with.events[i] = w.events[i]
  BY <1>2, <1>w, <1>12, <1>14, PenaliseEffect
<1>d. Active(with) = Active(w) \cup {Len(with.events)}
  BY <1>2, <1>w, <1>12, <1>14, PenaliseEffect
<1>e. \A k \in Cycles : k # c => with.status[k] = w.status[k]
  BY <1>2, <1>w, <1>12, <1>14, PenaliseEffect
<1>f. /\ AddonsReplayed(with) /\ PenaltiesReplayed(with)
      /\ \A k \in Cycles : k # c /\ VerdictOf(w, overwritten', k) => VerdictOf(with, overwritten', k)
      /\ ActiveOf(w, c) = {} /\ c \notin overwritten' => VerdictOf(with, overwritten', c)
  BY <1>2, <1>10, <1>12, <1>13, <1>14, PenaliseKeeps
<1>15. /\ Len(acct.events) \in Nat /\ DOMAIN acct.events = 1..Len(acct.events)
       /\ DOMAIN with.events = 1..Len(with.events)
       /\ old # 0 => old \in DOMAIN acct.events
  BY <1>2, <1>10, <1>a, EventRows
<1>16. PICK n : n = Len(with.events)
  OBVIOUS
<1>17. /\ n = Len(acct.events) + 1 /\ n \in Nat /\ n # 0
       /\ old \in {0} \cup DOMAIN with.events /\ n \in old..Len(with.events)
       /\ old # n
  BY <1>10, <1>b, <1>15, <1>16
<1>18. Superseded(with, acct', old, n)
  BY <1>8, <1>16, <1>17, <1>a, SupersedeEffect
<1>19. /\ WellFormed(acct') /\ acct'.status = with.status
       /\ acct'.addon = with.addon /\ acct'.penalty = with.penalty
       /\ \A i \in DOMAIN with.events :
             /\ i \in DOMAIN acct'.events
             /\ acct'.events[i] = IF i = old THEN [with.events[i] EXCEPT !.superseded = n]
                                  ELSE with.events[i]
             /\ acct'.events[i].cycle = with.events[i].cycle
             /\ acct'.events[i].late = with.events[i].late
             /\ acct'.events[i].penalty = with.events[i].penalty
             /\ acct'.events[i].cap_hit = with.events[i].cap_hit
       /\ Active(acct') = Active(with) \ {old}
  BY <1>18 DEF Superseded
<1>20. Active(acct') = Active(with) /\ Active(with) \subseteq DOMAIN with.events
  <2>1. old \notin Active(with)
    BY <1>10, <1>16, <1>17, <1>d
  <2>2. Active(with) \subseteq DOMAIN with.events
    BY DEF Active
  <2> QED
    BY <1>19, <2>1, <2>2
<1>21. \A k \in Cycles : /\ ActiveOf(acct', k) = ActiveOf(with, k)
                         /\ ReplayedAddon(acct', k) = ReplayedAddon(with, k)
                         /\ ReplayedPenalty(acct', k) = ReplayedPenalty(with, k)
  <2>1. \A i \in Active(with) : /\ acct'.events[i].cycle = with.events[i].cycle
                                /\ acct'.events[i].late = with.events[i].late
                                /\ acct'.events[i].penalty = with.events[i].penalty
    BY <1>19, <1>20
  <2> QED
    BY <1>a, <1>19, <1>20, <2>1, SameReplay
<1>22. AddonsReplayed(acct') /\ PenaltiesReplayed(acct')
  BY <1>f, <1>19, <1>21 DEF AddonsReplayed, PenaltiesReplayed
<1>23. \A k \in Cycles : VerdictOf(with, overwritten', k) => VerdictOf(acct', overwritten', k)
  BY <1>19, <1>20, <1>21 DEF VerdictOf
<1>24. Replay'
  BY <1>1, <1>19, <1>22, DoneKeepsReplay DEF Accepted
<1>25. History(acct, acct')
  <2>1. \A i \in DOMAIN acct.events :
            /\ i \in DOMAIN with.events /\ i \in DOMAIN acct'.events
            /\ with.events[i] = IF i = old THEN [acct.events[i] EXCEPT !.superseded = old]
                                ELSE acct.events[i]
    BY <1>10, <1>19, <1>c
  <2>2. \A i \in DOMAIN acct.events :
            acct'.events[i] = IF i = old THEN [acct.events[i] EXCEPT !.superseded = n]
                              ELSE acct.events[i]
    <3> SUFFICES ASSUME NEW i \in DOMAIN acct.events
                 PROVE  acct'.events[i] = IF i = old
                                          THEN [acct.events[i] EXCEPT !.superseded = n]
                                          ELSE acct.events[i]
      OBVIOUS
    <3>1. CASE i # old
      BY <1>19, <2>1, <3>1
    <3>2. CASE i = old
      <4>1. acct'.events[i] = [with.events[i] EXCEPT !.superseded = n]
        BY <1>19, <2>1, <3>2
      <4>2. with.events[i] = [acct.events[i] EXCEPT !.superseded = old]
        BY <2>1, <3>2
      <4>3. acct.events[i] \in Event
        BY <1>2, EventRows
      <4> QED
        BY <3>2, <4>1, <4>2, <4>3 DEF Event
    <3> QED
      BY <3>1, <3>2
  <2>3. \A i \in DOMAIN acct.events :
            /\ i \in DOMAIN acct'.events
            /\ acct'.events[i] = IF i = old THEN [acct.events[i] EXCEPT !.superseded = n]
                                 ELSE acct.events[i]
    BY <2>1, <2>2
  <2>4. Replaces(acct, acct', old, n)
    BY <1>10, <1>17, <2>3 DEF Replaces
  <2> QED
    BY <1>2, <2>4, OneSuperseded
<1>26. ASSUME Serial PROVE Serial'
  <2>1. Verdicts(acct', overwritten')
    BY <1>1, <1>10, <1>23, <1>26, <1>f DEF Serial, Verdicts
  <2>2. \A k \in Cycles : k # c => acct'.status[k] = acct.status[k]
    BY <1>10, <1>19, <1>e
  <2>3. Reading'
    BY <1>1, <1>2, <1>26, <2>2, DoneKeepsReading DEF Serial, Replay, Judging, c
  <2> QED
    BY <1>22, <2>1, <2>3 DEF Serial
<1> QED
  BY <1>24, <1>25, <1>26 DEF StepKept

\* Settling cycles leaves no penalty behind but those of cycles an edit has overwritten.
LEMMA SettledKeeps ==
    ASSUME Replay, NEW at \in SUBSET Cycles, acct' = Settled(acct, at),
           overwritten' = overwritten \cup {c \in at : acct.status[c] \in Penalised},
           received' \in [Cycles -> Nat], due' \in 0..N, req' \in [Sessions -> Requests]
    PROVE  /\ Replay' /\ History(acct, acct')
           /\ Serial => Verdicts(acct', overwritten') /\ PenaltiesReplayed(acct')
           /\ \A r : r.cycle \in Cycles /\ Unpenalised(r, acct, overwritten)
                                           => Unpenalised(r, acct', overwritten')
<1> DEFINE st == [c \in Cycles |-> IF c \in at THEN "PAID_ON_TIME" ELSE acct.status[c]]
<1>1. acct' = [acct EXCEPT !.status = st]
  BY DEF Settled
<1>2. /\ st \in [Cycles -> CycleStatus]
      /\ \A c \in Cycles : st[c] = IF c \in at THEN "PAID_ON_TIME" ELSE acct.status[c]
  BY DEF Replay, TypeOK, CycleStatus
<1>3. \A c \in Cycles : acct.addon[c] >= 0
  BY DEF Replay, TypeOK
<1> HIDE DEF st
<1>4. /\ WellFormed(acct') /\ acct'.status = st /\ acct'.addon = acct.addon
      /\ acct'.events = acct.events /\ Active(acct') = Active(acct)
      /\ \A k \in Cycles : ActiveOf(acct', k) = ActiveOf(acct, k)
      /\ AddonsReplayed(acct')
      /\ PenaltiesReplayed(acct) => PenaltiesReplayed(acct')
  BY <1>1, <1>2, NewStatuses DEF Replay
<1>5. Replay'
  <2>1. overwritten' \in SUBSET Cycles
    BY DEF Replay, TypeOK
  <2> QED
    BY <1>3, <1>4, <2>1, KeepsReplay
<1>6. History(acct, acct')
  BY <1>4 DEF History
<1>7. ASSUME Serial PROVE Verdicts(acct', overwritten')
  <2> SUFFICES ASSUME NEW k \in Cycles PROVE VerdictOf(acct', overwritten', k)
    BY DEF Verdicts
  <2>1. VerdictOf(acct, overwritten, k)
    BY <1>7 DEF Serial, Verdicts
  <2>2. CASE k \in at /\ acct.status[k] \in Penalised
    <3>1. k \in overwritten' /\ st[k] = "PAID_ON_TIME" /\ k \notin overwritten
      BY <1>2, <2>1, <2>2 DEF VerdictOf, Penalised
    <3>2. \E i \in Active(acct) : ActiveOf(acct, k) = {i}
      BY <2>1, <2>2, <3>1 DEF VerdictOf
    <3> QED
      BY <1>4, <3>1, <3>2 DEF VerdictOf
  <2>3. CASE k \in at /\ acct.status[k] \notin Penalised
    <3>1. st[k] = "PAID_ON_TIME" /\ (k \in overwritten' <=> k \in overwritten)
      BY <1>2, <2>3
    <3> QED
      BY <1>4, <2>1, <2>3, <3>1 DEF VerdictOf, Penalised
  <2>4. CASE k \notin at
    <3>1. st[k] = acct.status[k] /\ (k \in overwritten' <=> k \in overwritten)
      BY <1>2, <2>4
    <3> QED
      BY <1>4, <2>1, <3>1 DEF VerdictOf
  <2> QED
    BY <2>2, <2>3, <2>4
<1>8. ASSUME NEW r, r.cycle \in Cycles, Unpenalised(r, acct, overwritten)
      PROVE  Unpenalised(r, acct', overwritten')
  <2>1. st[r.cycle] \notin Penalised /\ r.cycle \notin overwritten'
    BY <1>2, <1>8 DEF Unpenalised, Penalised
  <2> QED
    BY <1>4, <1>8, <2>1 DEF Unpenalised
<1> QED
  BY <1>4, <1>5, <1>6, <1>7, <1>8 DEF Serial

\* Payments settle the cycle they are allocated to, as it is.
LEMMA PaymentsKeeps ==
    ASSUME Replay, NEW c \in Allocated, NEW total \in Receipts, Payments(c, total)
    PROVE  StepKept
<1>0. Allocated \subseteq Cycles /\ Receipts \subseteq Nat
  BY PenaltyAssumption DEF PenaltyAssumption, Cycles
<1>1. PICK at \in SUBSET {k \in {c} : total \in Enough(k)} : acct' = Settled(acct, at)
  BY DEF Payments
<1>2. received' = [received EXCEPT ![c] = total] /\ UNCHANGED <<due, req, overwritten>>
  BY DEF Payments
<1>3. at \in SUBSET Cycles /\ {k \in at : acct.status[k] \in Penalised} = {}
  BY <1>0, <1>1 DEF Enough, Penalised
<1>4. received' \in [Cycles -> Nat] /\ due' \in 0..N /\ req' \in [Sessions -> Requests]
  BY <1>0, <1>2 DEF Replay, TypeOK
<1>5. overwritten' = overwritten \cup {k \in at : acct.status[k] \in Penalised}
  BY <1>2, <1>3
<1>6. /\ Replay' /\ History(acct, acct')
      /\ Serial => Verdicts(acct', overwritten') /\ PenaltiesReplayed(acct')
      /\ \A r : r.cycle \in Cycles /\ Unpenalised(r, acct, overwritten)
                                           => Unpenalised(r, acct', overwritten')
  BY <1>1, <1>3, <1>4, <1>5, SettledKeeps
<1>7. ASSUME Serial PROVE Reading'
  <2>1. ASSUME NEW s \in Sessions, req[s].op = "classify"
      PROVE  Unpenalised(req[s], acct', overwritten')
    <3>1. req[s].cycle \in Cycles /\ Unpenalised(req[s], acct, overwritten)
      BY <1>7, <2>1, RequestFields DEF Replay, Serial, Reading
    <3> QED
      BY <1>2, <1>6, <3>1 DEF Unpenalised
  <2> QED
    BY <1>2, <1>7, <2>1 DEF Serial, Reading, Judging, Unpenalised
<1> QED
  BY <1>6, <1>7 DEF StepKept, Serial

\* An edit settles the cycle it names as it was, and may overwrite a penalty.
LEMMA EditPaymentKeeps ==
    ASSUME Replay, NEW s \in Sessions, EditPayment(s)
    PROVE  StepKept
<1> DEFINE to == req[s].cycle
<1>0. Allocated \subseteq Cycles /\ Receipts \subseteq Nat
  BY PenaltyAssumption DEF PenaltyAssumption, Cycles
<1>1. req[s].op = "edit" /\ Done(s) /\ UNCHANGED due
  BY DEF EditPayment
<1>2. to \in Cycles
  BY <1>1, RequestFields DEF Replay
<1> DEFINE Edits(from, totals, kept, at) ==
               /\ received' = [c \in Cycles |-> IF c \in DOMAIN totals \ kept THEN totals[c]
                                                ELSE received[c]]
               /\ acct' = Settled(acct, at)
               /\ overwritten' = overwritten \cup {c \in at : acct.status[c] \in Penalised}
<1>a. PICK from \in Allocated : \E totals \in [{from, to} -> Receipts] :
          LET unwritten == {c \in {to} : totals[c] = req[s].got}
              paid == {c \in DOMAIN totals :
                         totals[c] \in IF c = to THEN req[s].enough ELSE Enough(c)}
          IN  /\ received' = [c \in Cycles |-> IF c \in DOMAIN totals \ unwritten
                                               THEN totals[c] ELSE received[c]]
              /\ \E at \in SUBSET paid :
                    /\ acct' = Settled(acct, at)
                    /\ overwritten' = overwritten \cup {c \in at : acct.status[c] \in Penalised}
  BY DEF EditPayment
<1>b. PICK totals \in [{from, to} -> Receipts] :
          \E kept \in SUBSET {to}, at \in SUBSET {from, to} : Edits(from, totals, kept, at)
  <2>1. PICK totals \in [{from, to} -> Receipts] :
            LET unwritten == {c \in {to} : totals[c] = req[s].got}
                paid == {c \in DOMAIN totals :
                           totals[c] \in IF c = to THEN req[s].enough ELSE Enough(c)}
            IN  /\ received' = [c \in Cycles |-> IF c \in DOMAIN totals \ unwritten
                                                 THEN totals[c] ELSE received[c]]
                /\ \E at \in SUBSET paid :
                      /\ acct' = Settled(acct, at)
                      /\ overwritten' = overwritten \cup {c \in at : acct.status[c] \in Penalised}
    BY <1>a
  <2>2. PICK kept : kept = {c \in {to} : totals[c] = req[s].got}
    OBVIOUS
  <2>3. PICK paid : paid = {c \in DOMAIN totals :
                              totals[c] \in IF c = to THEN req[s].enough ELSE Enough(c)}
    OBVIOUS
  <2>4. received' = [c \in Cycles |-> IF c \in DOMAIN totals \ kept THEN totals[c] ELSE received[c]]
    BY <2>1, <2>2
  <2>5. PICK at \in SUBSET paid :
            /\ acct' = Settled(acct, at)
            /\ overwritten' = overwritten \cup {c \in at : acct.status[c] \in Penalised}
    BY <2>1, <2>3
  <2>6. kept \in SUBSET {to} /\ at \in SUBSET {from, to}
    BY <2>2, <2>3, <2>5
  <2> QED
    BY <2>4, <2>5, <2>6
<1>3. PICK kept \in SUBSET {to}, at \in SUBSET {from, to} : Edits(from, totals, kept, at)
  BY <1>b
<1>4. at \in SUBSET Cycles /\ due' \in 0..N
  BY <1>0, <1>1, <1>2 DEF Replay, TypeOK
<1>5. received' \in [Cycles -> Nat]
  <2>1. totals \in [{from, to} -> Receipts]
    BY <1>b
  <2>2. \A c \in DOMAIN totals : totals[c] \in Receipts
    BY <2>1
  <2> QED
    BY <1>0, <1>3, <2>2 DEF Replay, TypeOK
<1>6. req' \in [Sessions -> Requests]
  BY <1>1 DEF Done, Replay, TypeOK, Requests
<1>7. /\ Replay' /\ History(acct, acct')
      /\ Serial => Verdicts(acct', overwritten') /\ PenaltiesReplayed(acct')
      /\ \A r : r.cycle \in Cycles /\ Unpenalised(r, acct, overwritten)
                                           => Unpenalised(r, acct', overwritten')
  BY <1>3, <1>4, <1>5, <1>6, SettledKeeps
<1>8. ASSUME Serial PROVE Reading'
  <2>1. /\ req'[s] = Idle /\ ~Judging(req'[s])
        /\ \A t \in Sessions : t # s => req'[t] = req[t]
    BY <1>1 DEF Done, Idle, Judging, Replay, TypeOK
  <2>2. ASSUME NEW t \in Sessions, req'[t].op = "classify"
      PROVE  Unpenalised(req'[t], acct', overwritten')
    <3>1. t # s /\ req'[t] = req[t]
      BY <2>1, <2>2 DEF Judging
    <3>2. req[t].cycle \in Cycles /\ Unpenalised(req[t], acct, overwritten)
      BY <1>8, <2>2, <3>1, RequestFields DEF Replay, Serial, Reading
    <3>3. PICK r : r = req[t]
      OBVIOUS
    <3>4. Unpenalised(r, acct', overwritten')
      BY <1>7, <3>2, <3>3
    <3> QED
      BY <3>1, <3>3, <3>4 DEF Unpenalised
  <2>3. \A t, u \in Sessions : t # u /\ Judging(req'[t]) /\ Judging(req'[u])
                               => req'[t].cycle # req'[u].cycle
    BY <1>8, <2>1 DEF Serial, Reading
  <2> QED
    BY <2>2, <2>3 DEF Reading, Judging, Unpenalised
<1> QED
  BY <1>7, <1>8 DEF StepKept, Serial

\* A day that passes changes no account.
LEMMA DayPassesKeeps ==
    ASSUME Replay, DayPasses
    PROVE  StepKept
<1>1. due < N /\ due' = due + 1 /\ UNCHANGED <<acct, received, req, overwritten>>
  BY DEF DayPasses
<1>2. due' \in 0..N
  BY <1>1, PenaltyAssumption DEF Replay, TypeOK, PenaltyAssumption
<1>3. Serial => Reading'
  BY <1>1 DEF Serial, Reading, Judging, Unpenalised
<1> QED
  BY <1>1, <1>2, <1>3, SameAccount DEF Replay, TypeOK

\* The nightly run is one step of the history as well.
LEMMA NightlyKeeps ==
    ASSUME Replay, NEW capped, NightlyRun(capped)
    PROVE  StepKept
<1>1. /\ Accepted(acct') /\ UNCHANGED <<received, due, req, overwritten>>
      /\ \A c \in Cycles : ~MayJudge(c) => acct'.status[c] = acct.status[c]
  BY DEF NightlyRun
<1>2. Kept(acct')
  BY NightKeeps DEF Replay, TypeOK
<1>3. /\ WellFormed(acct') /\ AddonsReplayed(acct') /\ Continues(acct, acct')
      /\ PenaltiesReplayed(acct) => PenaltiesReplayed(acct')
      /\ Verdicts(acct, overwritten) => Verdicts(acct', overwritten)
  BY <1>2 DEF Kept
<1>4. /\ received' \in [Cycles -> Nat] /\ due' \in 0..N /\ req' \in [Sessions -> Requests]
      /\ overwritten' \in SUBSET Cycles /\ \A c \in Cycles : acct'.addon[c] >= 0
  BY <1>1 DEF Replay, TypeOK, Accepted
<1>5. Replay'
  BY <1>3, <1>4, KeepsReplay
<1>6. History(acct, acct')
  BY <1>3 DEF Continues, History
<1>7. ASSUME ~SameCycleOverlap, Serial PROVE Serial'
  <2>1. ASSUME NEW s \in Sessions, req[s].op = "classify"
      PROVE  Unpenalised(req[s], acct', overwritten')
    <3>1. req[s].cycle \in Cycles /\ Unpenalised(req[s], acct, overwritten) /\ ~MayJudge(req[s].cycle)
      BY <1>7, <2>1, RequestFields DEF Replay, Serial, Reading, MayJudge, Judges
    <3> QED
      BY <1>1, <3>1 DEF Unpenalised
  <2>2. Reading'
    BY <1>1, <1>7, <2>1 DEF Serial, Reading, Judging, Unpenalised
  <2> QED
    BY <1>1, <1>3, <1>7, <2>2 DEF Serial
<1> QED
  BY <1>5, <1>6, <1>7 DEF StepKept
-----------------------------------------------------------------------------
(* The induction, and what the invariants say.                             *)

\* A new account has no events, and its replay is zero.
LEMMA InitReplay == Init => Replay /\ Serial
<1> SUFFICES ASSUME Init PROVE Replay /\ Serial
  OBVIOUS
<1> USE PenaltyAssumption DEF PenaltyAssumption
<1> DEFINE st == [c \in Cycles |-> IF c <= due THEN "AWAITING_REVIEW" ELSE "UPCOMING"]
           zero == [c \in Cycles |-> 0]
<1>1. /\ acct = [status |-> st, addon |-> zero, penalty |-> zero, events |-> <<>>]
      /\ due \in 0..N /\ received = zero /\ req = [s \in Sessions |-> Idle]
      /\ overwritten = {}
  BY DEF Init
<1>2. /\ st \in [Cycles -> CycleStatus] /\ zero \in [Cycles -> Nat]
      /\ zero \in [Cycles -> Int] /\ <<>> \in Seq(Event)
      /\ \A c \in Cycles : st[c] \notin Penalised /\ zero[c] = 0
  BY DEF CycleStatus, Penalised
<1> HIDE DEF st, zero
<1>3. /\ acct.status = st /\ acct.addon = zero /\ acct.penalty = zero /\ acct.events = <<>>
      /\ DOMAIN acct = {"status", "addon", "penalty", "events"}
      /\ acct \in Account
  BY <1>1, <1>2 DEF Account
<1>4. DOMAIN acct.events = {}
  BY <1>3
<1>5. TypeOK
  <2>1. Idle \in Requests
    BY DEF Requests
  <2> QED
    BY <1>1, <1>2, <1>3, <1>4, <2>1 DEF TypeOK
<1>6. WellFormed(acct) /\ Active(acct) = {} /\ \A c : ActiveOf(acct, c) = {}
  BY <1>3, <1>4 DEF WellFormed, Active, ActiveOf
<1>7. \A c \in Cycles : ReplayedAddon(acct, c) = 0 /\ ReplayedPenalty(acct, c) = 0
  BY <1>6, ReplayIsSum, SumEmpty
<1>8. AddonsReplayed(acct) /\ PenaltiesReplayed(acct)
  BY <1>2, <1>3, <1>7 DEF AddonsReplayed, PenaltiesReplayed
<1>9. Verdicts(acct, overwritten)
  BY <1>1, <1>2, <1>3, <1>6 DEF Verdicts, VerdictOf
<1>10. Reading
  BY <1>1 DEF Reading, Idle, Judging
<1> QED
  BY <1>5, <1>6, <1>8, <1>9, <1>10 DEF Replay, Serial

\* Every step keeps the replay, the history and, without overlap, the verdicts.
LEMMA StepKeeps == Replay /\ [Next]_vars => StepKept
<1> SUFFICES ASSUME Replay, [Next]_vars PROVE StepKept
  OBVIOUS
<1>1. CASE \E s \in Sessions :
               \/ \E c \in Cycles : LoadForClassify(s, c) \/ LoadForReclassify(s, c)
               \/ ClassifyPaid(s) \/ ClassifyLate(s)
               \/ ReclassifyPaid(s) \/ ReclassifyLate(s)
               \/ Refuse(s)
               \/ \E c \in Allocated : LoadForEdit(s, c)
               \/ EditPayment(s)
  <2>1. Allocated \subseteq Cycles
    BY PenaltyAssumption DEF PenaltyAssumption, Cycles
  <2> QED
    BY <1>1, <2>1, LoadKeeps, ClassifyPaidKeeps, ClassifyLateKeeps, ReclassifyPaidKeeps,
       ReclassifyLateKeeps, RefuseKeeps, EditPaymentKeeps
<1>2. CASE \E c \in Allocated, total \in Receipts : Payments(c, total)
  BY <1>2, PaymentsKeeps
<1>3. CASE DayPasses
  BY <1>3, DayPassesKeeps
<1>4. CASE \E capped \in SUBSET (1..due) : NightlyRun(capped)
  BY <1>4, NightlyKeeps
<1>5. CASE UNCHANGED vars
  <2>1. UNCHANGED <<acct, received, due, req, overwritten>>
    BY <1>5 DEF vars
  <2>2. Serial => Reading'
    BY <2>1 DEF Serial, Reading, Judging, Unpenalised
  <2> QED
    BY <2>1, <2>2, SameAccount DEF Replay, TypeOK
<1> QED
  BY <1>1, <1>2, <1>3, <1>4, <1>5 DEF Next

\* What is replayed is recovered in full: the addons are a table of shares added
\* up by cycle, and by event each row adds up to what that event has to recover.
LEMMA ReplayRecovers == Replay => RecoveredInFull
<1> SUFFICES ASSUME Replay PROVE RecoveredInFull
  OBVIOUS
<1> DEFINE A == Active(acct)
           L == {i \in A : acct.events[i].cycle < N}
           rec == [i \in DOMAIN acct.events |-> Recover(acct.events[i])]
           m == [i \in A |-> [c \in Cycles |-> Share(rec[i], acct.events[i].cycle, c)]]
           row == [i \in A |-> SumOver(m[i], Cycles)]
           col == [c \in Cycles |-> SumOver([i \in A |-> m[i][c]], A)]
<1>0. WellFormed(acct) /\ acct.addon \in [Cycles -> Int]
  BY DEF Replay, WellFormed, Account
<1>1. /\ IsFiniteSet(A) /\ A \subseteq DOMAIN acct.events
      /\ \A i \in A : rec[i] \in Nat /\ acct.events[i].cycle \in Cycles
  BY <1>0, EventRows
<1>2. IsFiniteSet(Cycles)
  BY FS_Interval, PenaltyAssumption DEF Cycles, PenaltyAssumption
<1>3. \A i \in A : \A c \in Cycles : m[i][c] \in Int
  BY <1>1, ShareIsInt
<1>4. \A c \in Cycles : acct.addon[c] = col[c]
  <2> SUFFICES ASSUME NEW c \in Cycles PROVE acct.addon[c] = col[c]
    OBVIOUS
  <2> DEFINE g == [i \in A |-> m[i][c]]
  <2>1. \A i \in A : Gives(acct, c)[i] \in Int /\ g[i] = Gives(acct, c)[i]
    BY <1>0, <1>1, ReplayIsSum DEF Gives
  <2> HIDE DEF g
  <2>2. SumOver(Gives(acct, c), A) = SumOver(g, A)
    BY <1>1, <2>1, SumSame
  <2>3. acct.addon[c] = SumOver(Gives(acct, c), A)
    BY <1>0, ReplayIsSum DEF Replay, AddonsReplayed
  <2> QED
    BY <2>2, <2>3 DEF g
<1>5. \A i \in A : row[i] = IF acct.events[i].cycle < N THEN rec[i] ELSE 0
  BY <1>1, SharesAddUp
<1>6. SumOver(row, A) = SumOver(col, Cycles)
  <2> HIDE DEF A, L, rec, m, row, col
  <2>1. SumOver([i \in A |-> SumOver(m[i], Cycles)], A) =
        SumOver([c \in Cycles |-> SumOver([i \in A |-> m[i][c]], A)], Cycles)
    BY <1>1, <1>2, <1>3, SumExchange
  <2> QED
    BY <2>1 DEF row, col
<1> HIDE DEF A, m, row, col, rec
<1>7. SumOver(acct.addon, Cycles) = SumOver(col, Cycles)
  BY <1>0, <1>2, <1>4, SumSame
<1>8. L \subseteq A /\ (\A i \in A \ L : row[i] = 0)
      /\ (\A i \in A : row[i] \in Int) /\ (\A i \in L : row[i] = rec[i])
  BY <1>1, <1>5
<1> HIDE DEF L
<1>9. SumOver(row, A) = SumOver(row, L)
  BY <1>1, <1>8, SumWhere
<1>10. SumOver(row, L) = SumOver(rec, L)
  <2>1. IsFiniteSet(L) /\ \A i \in L : row[i] \in Int /\ rec[i] = row[i]
    BY <1>1, <1>8, FS_Subset
  <2> QED
    BY <2>1, SumSame
<1> QED
  BY <1>6, <1>7, <1>9, <1>10 DEF RecoveredInFull, A, L, rec

\* The induction over the steps.
LEMMA ReplayInvariant == Spec => []Replay
<1>1. Init => Replay
  BY InitReplay
<1>2. Replay /\ [Next]_vars => Replay'
  BY StepKeeps DEF StepKept
<1> QED
  BY <1>1, <1>2, PTL DEF Spec

\* Cycles, penalty events and requests keep their types, a penalty is never more
\* than the amount paid late, and an event is superseded by itself or a later one.
THEOREM PenaltyTypeCorrect == Spec => []TypeOK
<1>1. Replay => TypeOK
  BY DEF Replay
<1> QED
  BY <1>1, ReplayInvariant, PTL

\* "So the totals match to the paisa", for any tenure, EMI and number of events,
\* and also when two requests classify one cycle at once.
THEOREM AlwaysRecoveredInFull == Spec => []RecoveredInFull
  BY ReplayRecovers, ReplayInvariant, PTL

\* "Immutable audit log": no step rewrites, drops or revives a penalty event, also
\* when two requests classify one cycle at once.
THEOREM HistoryNeverRewritten == Spec => HistoryIsImmutable
<1>1. Replay /\ [Next]_vars => [History(acct, acct')]_vars
  BY StepKeeps DEF StepKept
<1> QED
  BY <1>1, ReplayInvariant, PTL DEF Spec, HistoryIsImmutable, History

\* While no two requests classify one cycle at once, requests act on what they
\* have read.
LEMMA SerialInvariant ==
    ASSUME ~SameCycleOverlap
    PROVE  Spec => [](Replay /\ Serial)
<1>1. Init => Replay /\ Serial
  BY InitReplay
<1>2. Replay /\ Serial /\ [Next]_vars => Replay' /\ Serial'
  BY StepKeeps DEF StepKept
<1> QED
  BY <1>1, <1>2, PTL DEF Spec

\* Every late or missed cycle has exactly one active penalty event, capped if and only
\* if it is missed, and no other cycle has one: if no two requests classify one
\* cycle at once.
THEOREM VerdictsMatchPenalties ==
    ASSUME ~SameCycleOverlap
    PROVE  Spec => []VerdictMatchesPenalty
<1>1. Replay /\ Serial => VerdictMatchesPenalty
  BY DEF Serial, Verdicts, VerdictOf, Penalised, VerdictMatchesPenalty
<1> QED
  BY <1>1, SerialInvariant, PTL

\* The addons and penalties kept up to date one event at a time are those of a
\* replay of the active events: if no two requests classify one cycle at once.
THEOREM AddonsAlwaysReplay ==
    ASSUME ~SameCycleOverlap
    PROVE  Spec => []AddonsAreReplay
<1>1. Replay /\ Serial => AddonsAreReplay
  BY DEF Replay, Serial, AddonsReplayed, PenaltiesReplayed, AddonsAreReplay
<1> QED
  BY <1>1, SerialInvariant, PTL

\* "Lock the loan row to prevent concurrent penalty / payment races": a cycle never has two
\* active penalties, if no two requests classify it at once.
THEOREM PenalisedOnce ==
    ASSUME ~SameCycleOverlap
    PROVE  Spec => []OneActivePenalty
<1>1. VerdictMatchesPenalty => OneActivePenalty
  <2> SUFFICES ASSUME VerdictMatchesPenalty, NEW c \in Cycles
               PROVE  Cardinality(ActiveOf(acct, c)) <= 1
    BY DEF OneActivePenalty
  <2>1. ActiveOf(acct, c) = {} \/ \E i : ActiveOf(acct, c) = {i}
    BY DEF VerdictMatchesPenalty
  <2>2. CASE ActiveOf(acct, c) = {}
    <3>1. Cardinality(ActiveOf(acct, c)) = 0
      BY <2>2, FS_EmptySet
    <3> QED
      BY <3>1
  <2>3. ASSUME NEW i, ActiveOf(acct, c) = {i} PROVE Cardinality(ActiveOf(acct, c)) <= 1
    <3>1. Cardinality(ActiveOf(acct, c)) = 1
      BY <2>3, FS_Singleton
    <3> QED
      BY <3>1
  <2> QED
    BY <2>1, <2>2, <2>3
<1> QED
  BY <1>1, VerdictsMatchPenalties, PTL
=============================================================================
