------------------------- MODULE ApiGateway_proofs -------------------------
(***************************************************************************)
(* For any number of calls, attempts and outages: the gateway implements   *)
(* SubmitOnce if every write goes to a path on which the backend finds the *)
(* record again, by its key or because the state refuses a second one.     *)
(* POST /loans, POST /cash-entries and the like are no such paths.         *)
(***************************************************************************)
EXTENDS ApiGateway, TLAPS

RecordedOncePaths == KeyReadBy \cup ExplicitKeyPaths
WritesAreRecordedOnce == \A c \in Writes : Path[c] \in RecordedOncePaths

USE DEF Ended

Outcomes == {"none", "arrived", "looked", "ok", "refused", "denied", "lost"}

-----------------------------------------------------------------------------
(* Lemmas *)

(* A second insert of a call never makes a second record.                  *)
LEMMA InsertMakesOne ==
    ASSUME TypeOK, WritesAreRecordedOnce, NEW c \in Calls, NEW k \in 1..MaxAttempts,
           Insert(c, k)
    PROVE  \/ /\ UNCHANGED rows
              /\ exec' = [exec EXCEPT ![c][k] = "ok"]
              /\ c \in Writes => rows[c] > 0
           \/ /\ c \in Writes /\ rows[c] = 0
              /\ rows' = [rows EXCEPT ![c] = 1]
              /\ exec' = [exec EXCEPT ![c][k] = "ok"]
<1>1. CASE FoundByKey(c)
  BY <1>1 DEF Insert, FoundByKey, Becomes
<1>2. CASE ~FoundByKey(c) /\ c \notin Writes
  BY <1>2 DEF Insert, Becomes
<1>3. CASE ~FoundByKey(c) /\ c \in Writes
  <2>1. Path[c] \in KeyReadBy \/ Path[c] \in ExplicitKeyPaths
    BY <1>3 DEF WritesAreRecordedOnce, RecordedOncePaths
  <2>2. ~RefusedByState(c) /\ exec' = [exec EXCEPT ![c][k] = "ok"]
        /\ rows' = [rows EXCEPT ![c] = @ + 1]
    BY <1>3 DEF Insert, Becomes
  <2>3. rows[c] \in Nat
    BY GatewayAssumption DEF TypeOK
  <2>4. ~(rows[c] > 0)
    BY <2>1, <2>2, <1>3 DEF FoundByKey, RefusedByState, Keyed, KeyReadBy,
                             IdempotentPostPaths, ExplicitKeyPaths
  <2>5. rows[c] = 0
    BY <2>3, <2>4
  <2> QED
    BY <1>3, <2>2, <2>5
<1> QED
  BY <1>1, <1>2, <1>3

-----------------------------------------------------------------------------
(* The inductive invariant *)

(* A call waits only while there is an attempt left, and one under way has  *)
(* been sent.                                                               *)
AttemptsLeft == \A c \in Calls :
    /\ phase[c] \in {"idle", "held"} => attempt[c] < MaxAttempts
    /\ phase[c] = "sent" => attempt[c] > 0

(* An execution that succeeded left its record, and there is one only.      *)
Recorded == \A c \in Calls :
    /\ rows[c] \in {0, 1}
    /\ \A k \in 1..MaxAttempts : exec[c][k] = "ok" /\ c \in Writes => rows[c] = 1

\* A client that has just loaded has retried nothing.
LEMMA InitIsSound == Init => TypeOK /\ AttemptsLeft /\ Recorded
<1> SUFFICES ASSUME Init PROVE TypeOK /\ AttemptsLeft /\ Recorded
  OBVIOUS
<1>1. TypeOK
  <2>1. phase \in [Calls -> {"idle", "sent", "held"} \cup Ended]
    BY DEF Init
  <2>2. attempt \in [Calls -> 0..MaxAttempts] /\ rows \in [Calls -> 0..MaxAttempts]
    BY GatewayAssumption DEF Init
  <2>3. exec \in [Calls -> [1..MaxAttempts -> Outcomes]]
    BY DEF Init, Outcomes
  <2>4. host \in {"off", "booting", "up"} /\ outages \in 0..MaxOutages
    BY GatewayAssumption DEF Init
  <2>5. waking \in BOOLEAN
    BY DEF Init
  <2> QED
    BY <2>1, <2>2, <2>3, <2>4, <2>5 DEF TypeOK, Outcomes
<1>2. AttemptsLeft
  BY GatewayAssumption DEF Init, AttemptsLeft
<1>3. Recorded
  BY DEF Init, Recorded
<1> QED
  BY <1>1, <1>2, <1>3

(* What a step of the backend may do to an execution and to the records.    *)
LEMMA BackendStep ==
    ASSUME TypeOK, AttemptsLeft, WritesAreRecordedOnce, NEW c \in Calls,
           Arrive(c) \/ Backend(c)
    PROVE  /\ UNCHANGED <<phase, attempt, host, waking, outages>>
           /\ \E k \in 1..MaxAttempts, e \in Outcomes :
                /\ exec' = [exec EXCEPT ![c][k] = e]
                /\ \/ UNCHANGED rows /\ (e = "ok" /\ c \in Writes => rows[c] > 0)
                   \/ c \in Writes /\ rows[c] = 0 /\ rows' = [rows EXCEPT ![c] = 1]
<1> DEFINE Effect(k, e) ==
      /\ exec' = [exec EXCEPT ![c][k] = e]
      /\ \/ UNCHANGED rows /\ (e = "ok" /\ c \in Writes => rows[c] > 0)
         \/ c \in Writes /\ rows[c] = 0 /\ rows' = [rows EXCEPT ![c] = 1]
<1>1. CASE Arrive(c)
  <2>1. attempt[c] \in 1..MaxAttempts
    BY <1>1, GatewayAssumption DEF Arrive, AttemptsLeft, TypeOK
  <2>2. PICK e \in {"arrived", "denied"} : exec' = [exec EXCEPT ![c][attempt[c]] = e]
    BY <1>1 DEF Arrive, Becomes
  <2>3. Effect(attempt[c], e) /\ e \in Outcomes
    BY <1>1, <2>2 DEF Arrive, Outcomes
  <2>4. UNCHANGED <<phase, attempt, host, waking, outages>>
    BY <1>1 DEF Arrive
  <2> QED
    BY <2>1, <2>3, <2>4
<1>2. ASSUME NEW k \in 1..MaxAttempts, LookUp(c, k)
      PROVE  /\ UNCHANGED <<phase, attempt, host, waking, outages>>
             /\ Effect(k, "ok") \/ Effect(k, "looked")
  BY <1>2 DEF LookUp, Becomes, FoundByKey
<1>3. ASSUME NEW k \in 1..MaxAttempts, Execute(c, k)
      PROVE  /\ UNCHANGED <<phase, attempt, host, waking, outages>>
             /\ Effect(k, "ok") \/ Effect(k, "refused")
  <2>1. UNCHANGED <<phase, attempt, host, waking, outages>>
    BY <1>3 DEF Execute
  <2>2. Insert(c, k) => Effect(k, "ok")
    BY InsertMakesOne
  <2>3. Refuse(c, k) => Effect(k, "refused")
    BY DEF Refuse, Becomes
  <2> QED
    BY <1>3, <2>1, <2>2, <2>3 DEF Execute
<1>4. {"ok", "looked", "refused"} \subseteq Outcomes
  BY DEF Outcomes
<1> QED
  BY <1>1, <1>2, <1>3, <1>4 DEF Backend

-----------------------------------------------------------------------------
(* The step of the inductive invariant *)

IInv == TypeOK /\ AttemptsLeft /\ Recorded

\* Every step of a client, of the backend or of the sleeping container keeps the invariant.
LEMMA NextKeepsIInv ==
    ASSUME IInv, WritesAreRecordedOnce, [Next]_vars
    PROVE  IInv'
<1> USE DEF IInv
<1>1. ASSUME NEW c \in Calls, Submit(c) \/ Resend(c)
      PROVE  IInv'
  <2>1. attempt[c] \in Nat /\ attempt[c] < MaxAttempts /\ MaxAttempts \in Nat
    BY <1>1, GatewayAssumption DEF Submit, Resend, AttemptsLeft, TypeOK
  <2>2. TypeOK'
    <3>1. phase' \in [Calls -> {"idle", "sent", "held"} \cup Ended]
      BY <1>1 DEF Submit, Resend, Send, TypeOK
    <3>2. attempt' = [attempt EXCEPT ![c] = @ + 1] /\ attempt[c] + 1 \in 0..MaxAttempts
      BY <1>1, <2>1 DEF Submit, Resend, Send
    <3>3. attempt' \in [Calls -> 0..MaxAttempts]
      BY <3>2 DEF TypeOK
    <3>4. UNCHANGED <<exec, rows, host, waking, outages>>
      BY <1>1 DEF Submit, Resend
    <3> QED
      BY <3>1, <3>3, <3>4 DEF TypeOK
  <2>3. AttemptsLeft'
    BY <1>1, <2>1 DEF Submit, Resend, Send, TypeOK, AttemptsLeft
  <2>4. Recorded'
    BY <1>1 DEF Submit, Resend, Send, Recorded, Writes
  <2> QED
    BY <2>2, <2>3, <2>4
<1>2. ASSUME NEW c \in Calls, Arrive(c) \/ Backend(c)
      PROVE  IInv'
  <2>1. UNCHANGED <<phase, attempt, host, waking, outages>>
    BY <1>2, BackendStep
  <2>2. PICK k \in 1..MaxAttempts, e \in Outcomes :
          /\ exec' = [exec EXCEPT ![c][k] = e]
          /\ \/ UNCHANGED rows /\ (e = "ok" /\ c \in Writes => rows[c] > 0)
             \/ c \in Writes /\ rows[c] = 0 /\ rows' = [rows EXCEPT ![c] = 1]
    BY <1>2, BackendStep
  <2>3. exec' \in [Calls -> [1..MaxAttempts -> Outcomes]]
    BY <2>2 DEF TypeOK, Outcomes
  <2>4. rows' \in [Calls -> 0..MaxAttempts]
    <3>1. 1 \in 0..MaxAttempts
      BY GatewayAssumption
    <3> QED
      BY <2>2, <3>1 DEF TypeOK
  <2>5. TypeOK'
    BY <2>1, <2>3, <2>4 DEF TypeOK, Outcomes
  <2>6. AttemptsLeft'
    BY <2>1 DEF AttemptsLeft
  <2>7. Recorded'
    <3>1. ASSUME NEW d \in Calls
          PROVE  /\ rows'[d] \in {0, 1}
                 /\ rows[d] = 1 => rows'[d] = 1
      BY <2>2 DEF Recorded, TypeOK
    <3>2. ASSUME NEW d \in Calls, NEW j \in 1..MaxAttempts,
                 exec'[d][j] = "ok", d \in Writes
          PROVE  rows'[d] = 1
      <4>1. CASE exec[d][j] = "ok"
        BY <4>1, <3>1, <3>2 DEF Recorded
      <4>2. CASE exec[d][j] # "ok"
        <5>1. d = c /\ e = "ok"
          BY <4>2, <3>2, <2>2 DEF TypeOK
        <5> QED
          BY <5>1, <2>2, <3>1, <3>2 DEF Recorded, TypeOK
      <4> QED
        BY <4>1, <4>2
    <3> QED
      BY <3>1, <3>2 DEF Recorded, Writes
  <2> QED
    BY <2>5, <2>6, <2>7
<1>3. ASSUME NEW c \in Calls, Answer(c) \/ SignedOut(c) \/ FetchFails(c) \/ NetworkError(c)
      PROVE  IInv'
  <2>1. UNCHANGED <<attempt, exec, rows>>
    BY <1>3 DEF Answer, SignedOut, FetchFails, NetworkError
  <2>2. /\ phase' \in [Calls -> {"idle", "sent", "held"} \cup Ended]
        /\ \A d \in Calls : \/ phase'[d] = phase[d]
                            \/ phase'[d] \in Ended
                            \/ phase'[d] = "held" /\ attempt[d] # MaxAttempts
    BY <1>3 DEF Answer, SignedOut, FetchFails, NetworkError, HoldOrGiveUp, TypeOK
  <2>3. waking' \in BOOLEAN
    BY <1>3 DEF Answer, SignedOut, FetchFails, NetworkError, HoldOrGiveUp, TypeOK
  <2>4. host' \in {"off", "booting", "up"}
    BY <1>3 DEF Answer, SignedOut, FetchFails, NetworkError, TypeOK
  <2>5. outages' \in 0..MaxOutages
    BY <1>3, GatewayAssumption DEF Answer, SignedOut, FetchFails, NetworkError, TypeOK
  <2>6. TypeOK'
    BY <2>1, <2>2, <2>3, <2>4, <2>5 DEF TypeOK
  <2>7. AttemptsLeft'
    <3> SUFFICES ASSUME NEW d \in Calls
                 PROVE  /\ phase'[d] \in {"idle", "held"} => attempt[d] < MaxAttempts
                        /\ phase'[d] = "sent" => attempt[d] > 0
      BY <2>1 DEF AttemptsLeft
    <3>1. attempt[d] # MaxAttempts => attempt[d] < MaxAttempts
      BY GatewayAssumption DEF TypeOK
    <3> QED
      BY <2>2, <3>1 DEF AttemptsLeft
  <2>8. Recorded'
    BY <2>1 DEF Recorded, Writes
  <2> QED
    BY <2>6, <2>7, <2>8
<1>4. CASE Boot
  BY <1>4 DEF Boot, TypeOK, AttemptsLeft, Recorded, Writes
<1>5. CASE PowerOff
  <2>1. exec' \in [Calls -> [1..MaxAttempts -> Outcomes]]
        /\ \A c \in Calls, k \in 1..MaxAttempts : exec'[c][k] # "ok"
    BY <1>5 DEF PowerOff, Outcomes
  <2>2. TypeOK'
    BY <1>5, <2>1, GatewayAssumption DEF PowerOff, TypeOK, Outcomes
  <2>3. AttemptsLeft' /\ Recorded'
    BY <1>5, <2>1 DEF PowerOff, AttemptsLeft, Recorded, Writes
  <2> QED
    BY <2>2, <2>3
<1>6. CASE UNCHANGED vars
  BY <1>6 DEF vars, TypeOK, AttemptsLeft, Recorded, Writes
<1> QED
  BY <1>1, <1>2, <1>3, <1>4, <1>5, <1>6 DEF Next

-----------------------------------------------------------------------------
(* Theorems *)

(* Every variable keeps its type, and so the records of a call stay within *)
(* the attempts it had, whatever is lost and however often it is sent.     *)
THEOREM GatewayTypeCorrect == WritesAreRecordedOnce => (Spec => []TypeOK)
<1> SUFFICES ASSUME WritesAreRecordedOnce PROVE Spec => []TypeOK
  OBVIOUS
<1>1. Init => IInv
  BY InitIsSound DEF IInv
<1>2. IInv /\ [Next]_vars => IInv'
  BY NextKeepsIInv
<1>3. IInv => TypeOK
  BY DEF IInv
<1> QED
  BY <1>1, <1>2, <1>3, PTL DEF Spec

(* A call the client repeats, of which several executions may be under way *)
(* on a host that comes and goes, is recorded at most once, and before its *)
(* caller is told "ok" (client.ts: "retries don't double-create").         *)
THEOREM RetriesRecordOnce == WritesAreRecordedOnce => (Spec => ImplementsSubmitOnce)
<1> SUFFICES ASSUME WritesAreRecordedOnce PROVE Spec => ImplementsSubmitOnce
  OBVIOUS
<1>1. Init => IInv /\ Once!Init
  BY InitIsSound DEF IInv, Init, Once!Init, Told
<1>2. IInv /\ [Next]_vars => IInv'
  BY NextKeepsIInv
<1>3. IInv /\ [Next]_vars => [Once!Next]_<<rows, Told>>
  <2> SUFFICES ASSUME IInv, [Next]_vars
               PROVE  [Once!Next]_<<rows, Told>>
    OBVIOUS
  <2> USE DEF IInv
  <2>1. ASSUME NEW c \in Calls, Submit(c) \/ Resend(c)
        PROVE  UNCHANGED <<rows, Told>>
    <3>1. \A d \in Calls : d # c => phase'[d] = phase[d]
      BY <2>1 DEF Submit, Resend, Send, TypeOK
    <3>2. phase[c] \in {"idle", "held"} /\ phase'[c] = "sent"
      BY <2>1 DEF Submit, Resend, Send, TypeOK
    <3> QED
      BY <2>1, <3>1, <3>2 DEF Submit, Resend, Told
  <2>2. ASSUME NEW c \in Calls, Arrive(c) \/ Backend(c)
        PROVE  Once!Record(c) \/ UNCHANGED <<rows, Told>>
    <3>1. UNCHANGED phase
          /\ (UNCHANGED rows \/ (c \in Writes /\ rows[c] = 0 /\ rows' = [rows EXCEPT ![c] = 1]))
      BY <2>2, BackendStep
    <3>2. UNCHANGED Told
      BY <3>1 DEF Told
    <3> QED
      BY <3>1, <3>2 DEF Once!Record
  <2>3. ASSUME NEW c \in Calls, Answer(c)
        PROVE  Once!TellOk(c) \/ Once!TellError(c)
    <3>1. UNCHANGED rows /\ phase[c] = "sent" /\ Told[c] = "none"
      BY <2>3 DEF Answer, Told
    <3>2. CASE exec[c][attempt[c]] = "ok" /\ phase' = [phase EXCEPT ![c] = "resolved"]
      <4>1. attempt[c] \in 1..MaxAttempts
        BY <3>1, GatewayAssumption DEF TypeOK, AttemptsLeft
      <4>2. c \in Writes => rows[c] = 1
        BY <3>2, <4>1 DEF Recorded
      <4>3. Told' = [Told EXCEPT ![c] = "ok"]
        BY <3>2 DEF Told, TypeOK
      <4> QED
        BY <3>1, <4>2, <4>3 DEF Once!TellOk
    <3>3. CASE phase' = [phase EXCEPT ![c] = "rejected"]
      <4>1. Told' = [Told EXCEPT ![c] = "error"]
        BY <3>3 DEF Told, TypeOK
      <4> QED
        BY <3>1, <4>1 DEF Once!TellError
    <3> QED
      BY <2>3, <3>2, <3>3 DEF Answer
  <2>4. ASSUME NEW c \in Calls, FetchFails(c) \/ NetworkError(c)
        PROVE  Once!TellError(c) \/ UNCHANGED <<rows, Told>>
    <3>1. UNCHANGED rows /\ phase[c] = "sent" /\ Told[c] = "none"
      BY <2>4 DEF FetchFails, NetworkError, Told
    <3>2. CASE phase' = [phase EXCEPT ![c] = "rejected"]
      <4>1. Told' = [Told EXCEPT ![c] = "error"]
        BY <3>2 DEF Told, TypeOK
      <4> QED
        BY <3>1, <4>1 DEF Once!TellError
    <3>3. CASE phase' = [phase EXCEPT ![c] = "held"]
      BY <3>1, <3>3 DEF Told, TypeOK
    <3> QED
      BY <2>4, <3>2, <3>3 DEF FetchFails, NetworkError, HoldOrGiveUp
  <2>5. ASSUME NEW c \in Calls, SignedOut(c)
        PROVE  UNCHANGED <<rows, Told>>
    BY <2>5 DEF SignedOut, Told, TypeOK
  <2>6. CASE Boot \/ PowerOff \/ UNCHANGED vars
    BY <2>6 DEF Boot, PowerOff, vars, Told
  <2> QED
    BY <2>1, <2>2, <2>3, <2>4, <2>5, <2>6 DEF Next, Once!Next
<1> QED
  BY <1>1, <1>2, <1>3, PTL DEF Spec, ImplementsSubmitOnce, Once!Spec
=============================================================================
