------------------------------ MODULE ApiHooks ------------------------------
(***************************************************************************)
(* The hooks of frontend/src/api/queries as data: for each query its key   *)
(* in the React Query cache and the tables from which the server reads     *)
(* what the pages show of it, for each mutation the tables it writes and   *)
(* what its onSuccess does to the cache.  Of a loan, "loan" is its status  *)
(* and dates, "terms" are its amounts and numbers.  Ids and filters in     *)
(* keys are left out: one loan, one customer and so on are followed.       *)
(***************************************************************************)
EXTENDS Sequences, Naturals

\* The tables of the sections below, which have no hook in common, as one.
Table(parts) ==
    [hook \in UNION {DOMAIN part : part \in parts} |->
        (CHOOSE part \in parts : hook \in DOMAIN part)[hook]]

Query(key, reads) == [key |-> key, reads |-> reads]

\* seeds: entries whose data the response replaces (setQueryData).
\* keys: prefixes given to invalidateQueries.  drops: to removeQueries.
Mutation(writes, keys) == [writes |-> writes, keys |-> keys, seeds |-> {}, drops |-> {}]
Seeding(m, entries) == [m EXCEPT !.seeds = entries]
Dropping(m, entries) == [m EXCEPT !.drops = entries]

-----------------------------------------------------------------------------
(* loans.ts: a loan embeds its customer and vehicle and says whether an EMI is *)
(* due, from its cycles and pending payments.  Correcting the first EMI date   *)
(* of a running loan moves its cycles.                                         *)

LoanReads == {"loan", "terms", "customer", "vehicle", "cycle", "txn"}

LoanQueries ==
    [loanList |-> Query(<<"loans", "infiniteList">>, LoanReads),
     loan |-> Query(<<"loans", "detail">>, LoanReads),
     hpFamilies |-> Query(<<"loans", "hpFamilies">>, {"terms"})]

OneLoan == {<<"loans", "list">>, <<"loans", "detail">>, <<"loans", "byCustomer">>}

LoanEdits ==
    [createLoan |-> Seeding(Mutation({"loan", "terms"}, OneLoan), {"loan"}),
     updateLoan |-> Mutation({"loan", "terms", "cycle"}, OneLoan),
     deleteLoan |-> Dropping(Mutation({"loan"}, {<<"loans", "list">>}), {"loan"}),
     approveLoan |-> Seeding(Mutation({"loan", "cycle", "txn"}, OneLoan), {"loan"})]

LoanClosing ==
    [closeLoan |-> Mutation({"loan"}, OneLoan \cup {<<"transactions", "summary">>})]

-----------------------------------------------------------------------------
(* transactions.ts: the summary sets the payments against what the terms and *)
(* the active penalties ask for.                                             *)

TransactionQueries ==
    [transactions |-> Query(<<"transactions", "byLoan">>, {"txn", "punctuality"}),
     confirmations |-> Query(<<"transactions", "pendingConfirmations">>,
                             {"txn", "cycle", "terms", "customer"})]

SummaryQuery == [summary |-> Query(<<"transactions", "summary">>, {"txn", "terms", "penalty"})]

\* Mutant: invalidateLoanLedger forgets the cycles.
LoanLedgerWithoutCycles ==
    {<<"transactions", "byLoan">>, <<"transactions", "summary">>,
     <<"transactions", "pendingConfirmations">>, <<"loans", "detail">>}

LoanLedger ==
    {<<"transactions", "byLoan">>, <<"transactions", "summary">>,
     <<"transactions", "pendingConfirmations">>, <<"dueCycles">>, <<"loans", "detail">>}

\* A confirmation can settle the cycle, move the loan on and withdraw its automatic
\* proposal; an edit or a restoration can settle the cycle.
Decisions ==
    [createTransaction |-> Mutation({"txn"}, LoanLedger),
     confirmTransaction |-> Mutation({"txn", "cycle", "punctuality", "loan", "proposal"}, LoanLedger),
     failTransaction |-> Mutation({"txn"}, LoanLedger)]

Corrections ==
    [updateTransaction |-> Mutation({"txn", "cycle", "punctuality"}, LoanLedger),
     deleteTransaction |-> Mutation({"txn", "cycle"}, LoanLedger),
     restoreTransaction |-> Mutation({"txn", "cycle", "punctuality"}, LoanLedger)]

-----------------------------------------------------------------------------
(* dueCycles.ts, badDebt.ts *)

CycleQuery == [dueCycles |-> Query(<<"dueCycles", "byLoan">>, {"cycle"})]
WorklistQuery ==
    [worklist |-> Query(<<"dueCycles", "worklistInfinite">>,
                        {"cycle", "txn", "loan", "terms", "customer"})]

\* A verdict adds or takes back a penalty; one at the cap proposes the loan as bad debt.
Classifications ==
    LET verdict == Mutation({"cycle", "penalty", "punctuality", "loan", "proposal"},
                            {<<"dueCycles", "byLoan">>, <<"transactions", "byLoan">>})
    IN  [classifyCycle |-> verdict, reclassifyCycle |-> verdict]

\* A row of the queue shows its finance; of the open one the page shows the proposal alone.
ProposalQueries ==
    [proposals |-> Query(<<"badDebtProposals", "worklistInfinite">>, {"proposal", "terms", "customer"}),
     openProposal |-> Query(<<"badDebtProposals", "open">>, {"proposal"})]

CandidateQuery ==
    [candidates |-> Query(<<"badDebtProposals", "candidatesInfinite">>,
                          {"cycle", "loan", "terms", "customer"})]

ProposalSteps ==
    LET Step(writes) ==
            Mutation(writes, {<<"loans", "detail">>, <<"loans", "list">>, <<"badDebtProposals">>})
    IN  [propose |-> Step({"proposal", "loan"}), review |-> Step({"proposal", "loan"}),
         reopen |-> Step({"proposal"})]

-----------------------------------------------------------------------------
(* vehicles.ts, customers.ts, personnel.ts, users.ts, employees.ts *)

VehicleQueries ==
    [vehicleList |-> Query(<<"vehicles", "infiniteList">>, {"vehicle", "newVehicle"}),
     vehicle |-> Query(<<"vehicles", "detail">>, {"vehicle"})]

VehicleLoansQuery == [vehicleLoans |-> Query(<<"vehicles", "detail", "loans">>, {"loan", "terms", "customer"})]

CreateVehicle == [createVehicle |-> Seeding(Mutation({"newVehicle"}, {<<"vehicles", "list">>}), {"vehicle"})]

VehicleEdits ==
    [updateVehicle |-> Seeding(Mutation({"vehicle"}, {<<"vehicles", "list">>, <<"loans">>}), {"vehicle"}),
     deleteVehicle |-> Mutation({"vehicle"}, {<<"vehicles", "list">>}),
     restoreVehicle |-> Seeding(Mutation({"vehicle"}, {<<"vehicles", "list">>}), {"vehicle"})]

\* The name of the assigned employee is joined in on read.
CustomerQueries ==
    [customerList |-> Query(<<"customers", "infiniteList">>, {"customer", "user"}),
     customer |-> Query(<<"customers", "detail">>, {"customer", "user"})]

CustomerEdits ==
    [createCustomer |-> Seeding(Mutation({"customer"}, {<<"customers", "list">>}), {"customer"}),
     deleteCustomer |-> Dropping(Mutation({"customer"}, {<<"customers", "list">>}), {"customer"}),
     updateCustomer |-> Seeding(Mutation({"customer"}, {<<"customers", "list">>, <<"customers", "detail">>}),
                                    {"customer"})]

PersonnelQuery == [personnel |-> Query(<<"personnel", "byLoan">>, {"person"})]

\* useCreatePersonnel alone touches no list: a person is listed once added.
PersonnelEdits ==
    LET listed == Mutation({"person"}, {<<"personnel", "byLoan">>})
    IN  [addPersonnel |-> listed, updatePersonnel |-> listed,
         updateRole |-> listed, removePersonnel |-> listed]

UserQueries == [users |-> Query(<<"users", "infiniteList">>, {"user"})]
EmployeeQuery == [employees |-> Query(<<"employees", "list">>, {"user"})]

UserEdits ==
    LET roster == Mutation({"user"}, {<<"users">>, <<"employees">>})
    IN  [createUser |-> roster, deleteUser |-> roster, changeRole |-> roster]

-----------------------------------------------------------------------------
(* documents.ts, identityProofs.ts, stabilityDocs.ts, settings.ts, cashEntries.ts *)

DocumentQuery == [documents |-> Query(<<"documents", "list">>, {"document"})]

DocumentEdits ==
    LET listed == Mutation({"document"}, {<<"documents", "list">>})
    IN  [uploadDocument |-> listed, deleteDocument |-> listed, restoreDocument |-> listed]

ProofQueries == [proofs |-> Query(<<"identityProofs", "customer">>, {"proof"})]

ProofEdits ==
    LET owners == Mutation({"proof"}, {<<"identityProofs", "customer">>})
    IN  [createProof |-> owners, updateProof |-> owners]

StabilityQuery == [stability |-> Query(<<"stabilityDocs", "byLoan">>, {"stability"})]
StabilityEdit == [createStability |-> Mutation({"stability"}, {<<"stabilityDocs", "byLoan">>})]

BrandingQuery == [branding |-> Query(<<"settings", "branding">>, {"settings"})]
BrandingEdit == [updateBranding |-> Mutation({"settings"}, {<<"settings", "branding">>})]

CashQuery == [cashEntries |-> Query(<<"cashEntries", "list">>, {"cash"})]

CashEdits ==
    LET book == Mutation({"cash"}, {<<"cashEntries">>, <<"reports", "dayReport">>,
                                    <<"reports", "pnl">>, <<"reports", "balanceSheet">>})
    IN  [createCash |-> book, deleteCash |-> book]

-----------------------------------------------------------------------------
(* reports.ts *)

ReportKeys == {"dayReport", "pnl", "balanceSheet"}

CashReports == [q \in ReportKeys |-> Query(<<"reports", q>>, {"cash"})]

-----------------------------------------------------------------------------
QueryTables ==
    {LoanQueries, TransactionQueries, SummaryQuery, CycleQuery, WorklistQuery,
     ProposalQueries, CandidateQuery, VehicleQueries, VehicleLoansQuery,
     CustomerQueries, PersonnelQuery, UserQueries, EmployeeQuery,
     DocumentQuery, ProofQueries, StabilityQuery, BrandingQuery, CashQuery, CashReports}

MutationTables ==
    {LoanEdits, LoanClosing, Decisions, Corrections, Classifications,
     ProposalSteps, CreateVehicle, VehicleEdits, CustomerEdits,
     PersonnelEdits, UserEdits, DocumentEdits, ProofEdits,
     StabilityEdit, BrandingEdit, CashEdits}

Queries == Table(QueryTables)
Mutations == Table(MutationTables)

\* invalidateQueries and removeQueries match by prefix of the key.
Matches(prefix, key) ==
    Len(prefix) <= Len(key) /\ \A i \in 1..Len(prefix) : prefix[i] = key[i]
Invalidates(m, q) == \E k \in Mutations[m].keys : Matches(k, Queries[q].key)
Concerns(m, q) == Mutations[m].writes \cap Queries[q].reads # {}
Reached(m, q) == Invalidates(m, q) \/ q \in Mutations[m].seeds \cup Mutations[m].drops
=============================================================================
