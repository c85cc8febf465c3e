----------------------------- MODULE QueryCache -----------------------------
(***************************************************************************)
(* What a page shows after the user's own change: one entry of the React   *)
(* Query cache (app/providers.tsx) and one mutation started on a page that *)
(* shows the entry.  Entries are independent of each other, so one entry   *)
(* and one mutation at a time stand for all; which ones is chosen first.   *)
(*                                                                         *)
(* The library's part (a fetch under way, its cancellation, retry: 1, what *)
(* is refetched on mount and on invalidation) is external, modelled as the *)
(* code uses it.                                                           *)
(***************************************************************************)
EXTENDS ApiHooks, Naturals

VARIABLES
    q,         \* the entry
    m,         \* the mutation
    step,      \* where the mutation is
    data,      \* what the entry holds: nothing, the tables before or after the write
    invalid,   \* marked by invalidateQueries
    aged,      \* older than staleTime
    mounted,   \* shown on the page
    fetch,     \* "idle", "asked", or the answer under way
    retried,   \* the one retry is used
    error,     \* the last fetch failed
    raced      \* an answer from before the write was still to come when it settled

cache == <<data, invalid, aged, fetch, retried, error>>
cacheVars == <<q, m, step, cache, mounted, raced>>

-----------------------------------------------------------------------------
(* Pages: the entries each shows and the mutations started on it. *)

Page(shows, does) == [shows |-> shows, does |-> does]

CollectionsPage ==
    Page({"loan", "summary", "transactions", "dueCycles"}, {})
LedgerTab ==
    Page({"transactions", "summary", "dueCycles"},
         {"confirmTransaction", "failTransaction", "updateTransaction",
          "deleteTransaction", "restoreTransaction", "createTransaction"})
ScheduleTab == Page({"dueCycles", "transactions"}, {"classifyCycle", "reclassifyCycle"})
ReviewSection == Page({"openProposal"}, {"propose", "review", "reopen", "closeLoan"})

LoanPage ==
    Page({"loan", "customer", "proofs", "stability", "personnel", "dueCycles", "summary",
          "transactions"},
         {"approveLoan", "deleteLoan"})
LoanSections ==
    Page({"customer", "proofs", "vehicle", "personnel", "documents", "hpFamilies"},
         {"updateLoan", "updateCustomer", "updateVehicle", "createVehicle",
          "addPersonnel", "updatePersonnel", "updateRole", "removePersonnel",
          "createProof", "updateProof", "uploadDocument", "deleteDocument", "restoreDocument"})

Wizard ==
    Page({"loan", "customer", "proofs", "stability", "personnel", "documents", "hpFamilies"},
         {"createLoan", "updateLoan", "updateCustomer", "createVehicle", "createProof",
          "createStability", "addPersonnel", "removePersonnel", "uploadDocument"})

\* A card of a draft can be approved from the list.
FinancesPage == Page({"loanList", "customer"}, {"approveLoan"})

\* The finances written off are a list of loans.
Worklist ==
    Page({"worklist", "confirmations", "proposals", "candidates", "loanList"},
         {"createTransaction", "confirmTransaction", "failTransaction", "propose", "review", "reopen"})

VehiclePage == Page({"vehicle", "vehicleLoans", "documents"},
                    {"updateVehicle", "deleteVehicle", "restoreVehicle"})
CustomerPage == Page({"customer"}, {"deleteCustomer"})
TeamPage == Page({"users"}, {"createUser", "deleteUser", "changeRole"})
SettingsPage == Page({"branding"}, {"updateBranding"})
CashTab == Page({"cashEntries"}, {"createCash", "deleteCash"})

\* Parts that are on the screen together: a loan's page holds the tabs of its collections.
Screens ==
    {{CollectionsPage, LedgerTab, ScheduleTab, ReviewSection},
     {LoanPage, LoanSections, LedgerTab, ScheduleTab, ReviewSection},
     {Wizard}, {FinancesPage}, {Worklist}, {VehiclePage}, {CustomerPage}, {TeamPage},
     {SettingsPage}, {CashTab}}

SamePage ==
    {pair \in (DOMAIN Mutations) \X (DOMAIN Queries) :
       /\ Concerns(pair[1], pair[2])
       /\ \E s \in Screens : /\ \E p \in s : pair[1] \in p.does
                             /\ \E p \in s : pair[2] \in p.shows}

\* What a page shows and its mutations do not refresh.  A classification also changes
\* what is owed and can move the loan and its proposal, as a full payment can.  A loan's
\* terms make its schedule and what is owed; a customer's name is embedded in the loan.
\* An approval leaves the empty ledger of the draft.  No hook names an infinite list, and
\* the worklist is chosen by the loan's status.  On purpose: the series of HP numbers are
\* a hint, and a deleted vehicle is kept to be restored.
KnownGaps ==
    ({"classifyCycle", "reclassifyCycle"} \X {"loan", "summary", "openProposal"})
    \cup ({"confirmTransaction"} \X {"openProposal", "proposals", "candidates"})
    \cup ({"updateLoan"} \X {"dueCycles", "summary"})
    \cup {<<"updateCustomer", "loan">>}
    \cup ({"approveLoan"} \X {"dueCycles", "summary", "transactions"})
    \cup ({"approveLoan", "createTransaction", "confirmTransaction", "failTransaction",
          "propose", "review"} \X {"loanList"})
    \cup ({"propose", "review"} \X {"worklist"})
    \cup ({"createLoan", "updateLoan"} \X {"hpFamilies"})
    \cup {<<"deleteVehicle", "vehicle">>}

CacheTypeOK ==
    /\ <<m, q>> \in SamePage
    /\ step \in {"idle", "sent", "committed", "settled", "refused", "unknown"}
    /\ data \in {"none", "before", "after"}
    /\ fetch \in {"idle", "asked", "before", "after"}
    /\ \A flag \in {invalid, aged, mounted, retried, error, raced} : flag \in BOOLEAN

CacheInit ==
    /\ \E pair \in SamePage : m = pair[1] /\ q = pair[2]
    /\ step = "idle"
    /\ data = "none"
    /\ fetch = "idle"
    /\ invalid = FALSE /\ aged = FALSE /\ mounted = FALSE
    /\ retried = FALSE /\ error = FALSE /\ raced = FALSE

-----------------------------------------------------------------------------
(* The entry *)

StartFetch == fetch' = "asked" /\ retried' = FALSE

\* Mutant: an entry that is there is shown as it is.
MountIfMissing ==
    /\ ~mounted
    /\ mounted' = TRUE
    /\ IF fetch = "idle" /\ data = "none"
       THEN StartFetch /\ error' = FALSE
       ELSE UNCHANGED <<fetch, retried, error>>
    /\ UNCHANGED <<q, m, step, data, invalid, aged, raced>>

\* A page that shows the entry is opened: what is missing, marked or aged is
\* fetched, unless a fetch is under way.
Mount ==
    /\ ~mounted
    /\ mounted' = TRUE
    /\ IF fetch = "idle" /\ (data = "none" \/ invalid \/ aged)
       THEN StartFetch /\ error' = FALSE
       ELSE UNCHANGED <<fetch, retried, error>>
    /\ UNCHANGED <<q, m, step, data, invalid, aged, raced>>

\* No queryFn takes the abort signal: a fetch goes on when the page is left.
Unmount ==
    /\ mounted
    /\ mounted' = FALSE
    /\ UNCHANGED <<q, m, step, cache, raced>>

\* An entry nobody shows is dropped after five minutes.
Collect ==
    /\ ~mounted /\ fetch = "idle" /\ data # "none"
    /\ data' = "none" /\ invalid' = FALSE /\ aged' = FALSE /\ error' = FALSE
    /\ raced' = FALSE
    /\ UNCHANGED <<q, m, step, fetch, retried, mounted>>

Age ==
    /\ data # "none" /\ ~aged
    /\ aged' = TRUE
    /\ UNCHANGED <<q, m, step, data, invalid, fetch, retried, error, mounted, raced>>

\* The server reads its tables.
ServerAnswers ==
    /\ fetch = "asked"
    /\ fetch' = IF step \in {"committed", "settled", "unknown"} THEN "after" ELSE "before"
    /\ UNCHANGED <<q, m, step, data, invalid, aged, retried, error, mounted, raced>>

QuerySucceeds ==
    /\ fetch \in {"before", "after"}
    /\ data' = fetch
    /\ fetch' = "idle"
    /\ invalid' = FALSE /\ aged' = FALSE /\ error' = FALSE
    /\ UNCHANGED <<q, m, step, retried, mounted, raced>>

\* One retry; whether a failed fetch marks old data is the library's choice.
QueryFails ==
    /\ fetch # "idle"
    /\ IF ~retried
       THEN fetch' = "asked" /\ retried' = TRUE /\ UNCHANGED <<invalid, error>>
       ELSE /\ fetch' = "idle" /\ error' = TRUE /\ UNCHANGED retried
            /\ invalid' \in {invalid, TRUE}
    /\ UNCHANGED <<q, m, step, data, aged, mounted, raced>>

-----------------------------------------------------------------------------
(* The mutation *)

Mutate ==
    /\ step = "idle"
    /\ step' = "sent"
    /\ UNCHANGED <<q, m, cache, mounted, raced>>

ServerCommits ==
    /\ step = "sent"
    /\ step' = "committed"
    /\ UNCHANGED <<q, m, cache, mounted, raced>>

\* Refused, or the answer is lost (no mutation is retried): no onSuccess.
MutationFails ==
    /\ \/ step = "sent" /\ step' = "refused"
       \/ step = "committed" /\ step' = "unknown"
    /\ UNCHANGED <<q, m, cache, mounted, raced>>

\* setQueryData leaves a fetch under way alone.
SeededNow == q \in Mutations[m].seeds
\* invalidateQueries marks the entry and, if it is shown, fetches it again; a
\* fetch under way is given up for it only if there is data already.
Refetches ==
    /\ Invalidates(m, q) /\ mounted
    /\ fetch = "idle" \/ data' # "none"

\* onSuccess of the hook.
OnSuccess ==
    /\ data' = IF q \in Mutations[m].drops THEN "none"
               ELSE IF SeededNow THEN "after" ELSE data
    /\ invalid' = ((invalid /\ ~SeededNow) \/ Invalidates(m, q))
    /\ aged' = (aged /\ ~SeededNow)
    /\ error' = (error /\ ~SeededNow /\ ~Refetches)
    /\ IF Refetches THEN StartFetch ELSE UNCHANGED <<fetch, retried>>

Settle ==
    /\ step = "committed"
    /\ step' = "settled"
    /\ OnSuccess
    /\ raced' = (fetch = "before" /\ ~Refetches)
    /\ UNCHANGED <<q, m, mounted>>

CacheNext ==
    \/ Mount \/ Unmount \/ Collect \/ Age
    \/ ServerAnswers \/ QuerySucceeds \/ QueryFails
    \/ Mutate \/ ServerCommits \/ MutationFails \/ Settle

CacheSpec == CacheInit /\ [][CacheNext]_cacheVars

\* A fetch is answered or fails; nothing else has to happen.
CacheFairness == WF_cacheVars(ServerAnswers) /\ WF_cacheVars(QuerySucceeds \/ QueryFails)

FairCacheSpec == CacheSpec /\ CacheFairness

-----------------------------------------------------------------------------
(* Properties *)

(* Once a mutation settled, no copy from before it passes for current: it was *)
(* replaced, or is marked and fetched when it is shown.  The exceptions are   *)
(* the hooks in KnownGaps and an answer that was on its way before the write. *)
OldCopyIsMarked ==
    step = "settled" /\ <<m, q>> \notin KnownGaps /\ ~raced /\ fetch = "idle" /\ data = "before"
    => invalid

(* A page that stays open shows the user's own change in the end, or an error. *)
OwnChangeShows ==
    (step = "settled" /\ mounted /\ <<m, q>> \notin KnownGaps /\ ~raced)
    ~> (data # "before" \/ error \/ ~mounted)
=============================================================================
