----------------------------- MODULE ApiGateway -----------------------------
(***************************************************************************)
(* The way of a request from the browser to the API and back               *)
(* (frontend/src/api/client.ts, serverWake.ts, ops/wake-worker/worker.js). *)
(*                                                                         *)
(* The host is powered off when idle.  The worker passes requests through; *)
(* a 502, a 530 and a fetch that fails in any other way all become a 503   *)
(* SERVER_WAKING, and the client sends the request again every 5 seconds   *)
(* until 4 minutes have gone, counted here in attempts.  A fetch can fail  *)
(* after the request reached the backend, so one call can be executed      *)
(* several times, and an execution nobody waits for any more still         *)
(* commits.  The header Idempotency-Key stays in the config that is sent   *)
(* again; only two routes of the backend read it.                          *)
(***************************************************************************)
EXTENDS Naturals, FiniteSets

CONSTANTS
    Calls,        \* the requests of one tab
    Path,         \* where each goes; "read" stands for any GET
    MaxAttempts,  \* attempts that fit in GIVE_UP_AFTER_MS
    MaxOutages    \* bound on lost connections and power-offs

IdempotentPostPaths == {"customers", "transactions", "loans"}
ExplicitKeyPaths == {"vehicles", "personnel", "documents", "loans/approve"}
KeyReadBy == {"customers", "transactions"}
UnkeyedPaths == {"cash-entries", "auth/login"}
Paths == {"read"} \cup IdempotentPostPaths \cup ExplicitKeyPaths \cup UnkeyedPaths

ASSUME GatewayAssumption ==
    /\ Path \in [Calls -> Paths]
    /\ MaxAttempts \in Nat \ {0}
    /\ MaxOutages \in Nat

VARIABLES
    phase,    \* where the call is, for the client
    attempt,  \* number of times it was sent
    exec,     \* what the backend did with each attempt
    rows,     \* records made for the call
    host,     \* the EC2 instance
    waking,   \* "waking" of serverWake.ts: the overlay covers the page
    outages   \* outages left

vars == <<phase, attempt, exec, rows, host, waking, outages>>

Ended == {"resolved", "rejected", "gone"}

TypeOK ==
    /\ phase \in [Calls -> {"idle", "sent", "held"} \cup Ended]
    /\ attempt \in [Calls -> 0..MaxAttempts]
    /\ exec \in [Calls -> [1..MaxAttempts ->
                   {"none", "arrived", "looked", "ok", "refused", "denied", "lost"}]]
    /\ rows \in [Calls -> 0..MaxAttempts]
    /\ host \in {"off", "booting", "up"}
    /\ waking \in BOOLEAN
    /\ outages \in 0..MaxOutages

\* Calls that ask for a record.
Writes == {c \in Calls : Path[c] \notin {"read", "auth/login"}}
Keyed(c) == Path[c] \in IdempotentPostPaths \cup ExplicitKeyPaths
\* The backend finds the record again by the key the call carries.
FoundByKey(c) == Keyed(c) /\ Path[c] \in KeyReadBy /\ rows[c] > 0
\* The state the first execution left refuses the second: the loan is no
\* longer a DRAFT, the chassis number, the mobile number or the hash is taken.
RefusedByState(c) == Path[c] \in ExplicitKeyPaths /\ rows[c] > 0

Init ==
    /\ phase = [c \in Calls |-> "idle"]
    /\ attempt = [c \in Calls |-> 0]
    /\ exec = [c \in Calls |-> [k \in 1..MaxAttempts |-> "none"]]
    /\ rows = [c \in Calls |-> 0]
    /\ host \in {"off", "up"}
    /\ waking = FALSE
    /\ outages = MaxOutages

Send(c) ==
    /\ phase' = [phase EXCEPT ![c] = "sent"]
    /\ attempt' = [attempt EXCEPT ![c] = @ + 1]

Submit(c) ==
    /\ phase[c] = "idle"
    /\ Send(c)
    /\ UNCHANGED <<exec, rows, host, waking, outages>>

\* The 5 seconds are over.
Resend(c) ==
    /\ phase[c] = "held"
    /\ Send(c)
    /\ UNCHANGED <<exec, rows, host, waking, outages>>

-----------------------------------------------------------------------------
(* The backend *)

Becomes(c, k, e) == exec' = [exec EXCEPT ![c][k] = e]

\* The worker's fetch arrives; an expired or revoked token is denied at once.
Arrive(c) ==
    /\ phase[c] = "sent" /\ host = "up"
    /\ exec[c][attempt[c]] = "none"
    /\ \E e \in {"arrived", "denied"} : Becomes(c, attempt[c], e)
    /\ UNCHANGED <<phase, attempt, rows, host, waking, outages>>

\* The key is looked up; a record that has it is the answer.
LookUp(c, k) ==
    /\ exec[c][k] = "arrived"
    /\ Becomes(c, k, IF FoundByKey(c) THEN "ok" ELSE "looked")
    /\ UNCHANGED <<phase, attempt, rows, host, waking, outages>>

\* Mutant: a violated unique key is not looked up again, as if there were none.
InsertUnchecked(c, k) ==
    /\ ~RefusedByState(c)
    /\ Becomes(c, k, "ok")
    /\ rows' = IF c \in Writes THEN [rows EXCEPT ![c] = @ + 1] ELSE rows

\* The insert, and on a violated unique key the record that is there.
Insert(c, k) ==
    \/ /\ FoundByKey(c)
       /\ Becomes(c, k, "ok")
       /\ UNCHANGED rows
    \/ /\ ~FoundByKey(c) /\ ~RefusedByState(c)
       /\ Becomes(c, k, "ok")
       /\ rows' = IF c \in Writes THEN [rows EXCEPT ![c] = @ + 1] ELSE rows

Refuse(c, k) == Becomes(c, k, "refused") /\ UNCHANGED rows

Execute(c, k) ==
    /\ exec[c][k] = "looked"
    /\ Insert(c, k) \/ Refuse(c, k)
    /\ UNCHANGED <<phase, attempt, host, waking, outages>>

-----------------------------------------------------------------------------
(* The answer *)

\* Mutant: only successes settle the call.
AnswerOkOnly(c) ==
    /\ phase[c] = "sent" /\ host = "up"
    /\ exec[c][attempt[c]] = "ok"
    /\ phase' = [phase EXCEPT ![c] = "resolved"]
    /\ waking' = FALSE
    /\ UNCHANGED <<attempt, exec, rows, host, outages>>

\* A success marks the server awake, a refusal does not.
Answer(c) ==
    /\ phase[c] = "sent" /\ host = "up"
    /\ \/ /\ exec[c][attempt[c]] = "ok"
          /\ phase' = [phase EXCEPT ![c] = "resolved"]
          /\ waking' = FALSE
       \/ /\ \/ exec[c][attempt[c]] = "refused"
             \/ exec[c][attempt[c]] = "denied" /\ Path[c] = "auth/login"
          /\ phase' = [phase EXCEPT ![c] = "rejected"]
          /\ UNCHANGED waking
    /\ UNCHANGED <<attempt, exec, rows, host, outages>>

\* A 401 away from /login drops the token and loads the login page: every
\* other call of the tab is forgotten with the page.
SignedOut(c) ==
    /\ phase[c] = "sent" /\ host = "up"
    /\ exec[c][attempt[c]] = "denied" /\ Path[c] # "auth/login"
    /\ phase' = [d \in Calls |-> IF phase[d] \in {"sent", "held"} THEN "gone" ELSE phase[d]]
    /\ waking' = FALSE
    /\ UNCHANGED <<attempt, exec, rows, host, outages>>

\* Mutant: no give-up time.
HoldForever(c) == phase' = [phase EXCEPT ![c] = "held"] /\ waking' = TRUE

\* SERVER_WAKING: wait and send again, or give up after four minutes.
HoldOrGiveUp(c) ==
    IF attempt[c] = MaxAttempts
    THEN phase' = [phase EXCEPT ![c] = "rejected"] /\ waking' = FALSE
    ELSE phase' = [phase EXCEPT ![c] = "held"] /\ waking' = TRUE

\* The worker could not fetch.  Of a host that is off it asks EC2 to start
\* it, unless it did so in the last 30 seconds; the call to AWS may fail.
\* A lost connection fails the fetch whatever the backend makes of it.
FetchFails(c) ==
    /\ phase[c] = "sent"
    /\ \/ /\ host # "up" \/ exec[c][attempt[c]] = "lost"
          /\ UNCHANGED outages
       \/ /\ host = "up" /\ outages > 0
          /\ exec[c][attempt[c]] # "lost"
          /\ outages' = outages - 1
    /\ host' \in {host} \cup (IF host = "off" THEN {"booting"} ELSE {})
    /\ HoldOrGiveUp(c)
    /\ UNCHANGED <<attempt, exec, rows>>

\* The browser cannot reach the worker: the call fails at once.
NetworkError(c) ==
    /\ phase[c] = "sent"
    /\ outages > 0
    /\ phase' = [phase EXCEPT ![c] = "rejected"]
    /\ outages' = outages - 1
    /\ UNCHANGED <<attempt, exec, rows, host, waking>>

-----------------------------------------------------------------------------
(* The host *)

Boot ==
    /\ host = "booting"
    /\ host' = "up"
    /\ UNCHANGED <<phase, attempt, exec, rows, waking, outages>>

\* Powered off by idle-shutdown.sh, or crashed: what was not committed is
\* rolled back, what was not answered will not be.
PowerOff ==
    /\ host = "up" /\ outages > 0
    /\ host' = "off"
    /\ outages' = outages - 1
    /\ exec' = [c \in Calls |-> [k \in 1..MaxAttempts |->
                  IF exec[c][k] = "none" THEN "none" ELSE "lost"]]
    /\ UNCHANGED <<phase, attempt, rows, waking>>

Backend(c) == \E k \in 1..MaxAttempts : LookUp(c, k) \/ Execute(c, k)

Next ==
    \/ \E c \in Calls :
         \/ Submit(c) \/ Resend(c) \/ Arrive(c) \/ Backend(c)
         \/ Answer(c) \/ SignedOut(c) \/ FetchFails(c) \/ NetworkError(c)
    \/ Boot \/ PowerOff

Spec == Init /\ [][Next]_vars

\* Timers fire, a request that is under way is answered or fails, a host that
\* boots comes up.  Nothing makes the user submit, the host start or stop.
Fairness ==
    /\ \A c \in Calls :
         /\ WF_vars(Resend(c))
         /\ WF_vars(Arrive(c) \/ Backend(c))
         /\ WF_vars(Answer(c) \/ SignedOut(c) \/ FetchFails(c))
    /\ WF_vars(Boot)

FairSpec == Spec /\ Fairness

-----------------------------------------------------------------------------
(* Properties *)

\* What the caller of the client has been told; a page that was left is told nothing.
Told == [c \in Calls |-> CASE phase[c] = "resolved" -> "ok"
                           [] phase[c] = "rejected" -> "error"
                           [] OTHER -> "none"]

Once == INSTANCE SubmitOnce WITH records <- rows, told <- Told

(* Retried calls are recorded at most once, and a resolved one was recorded  *)
(* (client.ts: "retries don't double-create"; services/transaction.py:425).  *)
ImplementsSubmitOnce == Once!Spec

(* A call that was sent is settled in the end, also if the host never starts: *)
(* retryWhileWaking gives up.                                                 *)
EveryCallEnds == \A c \in Calls : (phase[c] = "sent") ~> (phase[c] \in Ended)
=============================================================================
