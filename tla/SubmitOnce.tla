----------------------------- MODULE SubmitOnce -----------------------------
(***************************************************************************)
(* What the client of the API is promised for a call it makes: the record  *)
(* a POST asks for is made at most once, and a call that was told "ok" has *)
(* been recorded.  A call that was told "error" may still have been, or    *)
(* may be later: the client cannot know.                                   *)
(***************************************************************************)
EXTENDS Naturals

CONSTANTS
    Calls,    \* requests
    Writes    \* those that ask for a record

VARIABLES
    records,  \* records made for each call
    told      \* what its caller has been told: "none", "ok" or "error"

Init ==
    /\ records = [c \in Calls |-> 0]
    /\ told = [c \in Calls |-> "none"]

Record(c) ==
    /\ c \in Writes
    /\ records[c] = 0
    /\ records' = [records EXCEPT ![c] = 1]
    /\ UNCHANGED told

TellOk(c) ==
    /\ told[c] = "none"
    /\ c \in Writes => records[c] = 1
    /\ told' = [told EXCEPT ![c] = "ok"]
    /\ UNCHANGED records

TellError(c) ==
    /\ told[c] = "none"
    /\ told' = [told EXCEPT ![c] = "error"]
    /\ UNCHANGED records

Next == \E c \in Calls : Record(c) \/ TellOk(c) \/ TellError(c)

Spec == Init /\ [][Next]_<<records, told>>
=============================================================================
