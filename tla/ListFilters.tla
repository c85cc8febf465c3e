---------------------------- MODULE ListFilters ----------------------------
(***************************************************************************)
(* The list pages and the lenses of Collections as data: which parameters  *)
(* of the URL narrow the rows, which the page shows a control for, which   *)
(* its empty text knows of, and how its rows are sorted.  The lenses share *)
(* one set of parameters; each keeps its own sort.                         *)
(***************************************************************************)
EXTENDS Naturals, FiniteSets

VARIABLES
    place,   \* the page or lens shown
    on,      \* parameters that have a value
    order    \* the sort of the page or lens shown

filterVars == <<place, on, order>>

List(narrows, controls, says) == [narrows |-> narrows, controls |-> controls, says |-> says]

By(field, dir) == [field |-> field, dir |-> dir]
Both(fields) == [field : fields, dir : {"asc", "desc"}]
Flip(dir) == IF dir = "asc" THEN "desc" ELSE "asc"

\* Columns with a sortable header and the direction a first click gives;
\* the options of the select beside them; the sort before any click.
Sorting(asc, desc, options, default) ==
    [headers |-> {By(f, "asc") : f \in asc} \cup {By(f, "desc") : f \in desc},
     options |-> options, default |-> default]
Unsorted == Sorting({}, {}, {By("server", "desc")}, By("server", "desc"))

-----------------------------------------------------------------------------
(* Finances *)

FinancesQuery == {"status", "pending_approval", "customer_id", "assigned_to", "search", "dates"}
\* Mutant: no chip for a customer.
FinancesToolbarWithoutCustomer == {"status", "pending_approval", "assigned_to", "search", "dates"}
FinancesToolbar == {"status", "pending_approval", "customer_id", "assigned_to", "search", "dates"}
FinancesEmpty == {"status", "pending_approval", "customer_id", "assigned_to", "search", "dates"}
\* Mutant: one direction of the approval date is not offered.
FinancesSortsNewestOnly ==
    Sorting({"full_name", "mandal_village", "status"}, {"created_at", "approval_date"},
            Both({"created_at", "full_name", "mandal_village", "status"})
            \cup {By("approval_date", "desc")}, By("created_at", "desc"))
FinancesSorts ==
    Sorting({"full_name", "mandal_village", "status"}, {"created_at", "approval_date"},
            Both({"created_at", "full_name", "mandal_village", "status", "approval_date"}),
            By("created_at", "desc"))

-----------------------------------------------------------------------------
(* Customers, Vehicles, Team *)

CustomersQuery == {"assigned_to", "search", "dates"}
CustomersToolbar == {"assigned_to", "search", "dates"}
CustomersEmpty == {"assigned_to", "search", "dates"}
CustomersSorts ==
    Sorting({"full_name", "assigned_employee_name"}, {"created_at"},
            Both({"created_at", "full_name", "assigned_employee_name"}), By("created_at", "desc"))

VehiclesQuery == {"status", "type", "search", "dates"}
VehiclesToolbar == {"status", "type", "search", "dates"}
VehiclesEmpty == {"status", "type", "search"}
VehiclesSorts ==
    Sorting({"plate_number", "make", "status"}, {"created_at", "year", "market_value"},
            Both({"created_at", "plate_number", "make", "year", "market_value"})
            \cup {By("status", "asc")}, By("created_at", "desc"))

TeamQuery == {"role", "search"}
TeamToolbar == {"role", "search"}
TeamEmpty == {"role", "search"}

-----------------------------------------------------------------------------
(* Collections *)

CyclesQuery == {"assigned_to", "search", "dates"}
CycleToolbar == {"assigned_to", "search", "dates"}
CyclesEmpty == {"assigned_to", "search", "dates"}
CycleSortOptions ==
    Both({"due_date", "shortfall"})
    \cup {By(f, "asc") : f \in {"customer_name", "cycle_number", "cycle_status", "loan"}}
CycleSorts ==
    Sorting({"customer_name", "loan", "cycle_number", "due_date", "cycle_status"}, {"shortfall"},
            CycleSortOptions, By("due_date", "asc"))

ConfirmationsQuery == {"assigned_to", "dates"}
ConfirmationsEmpty == {"assigned_to"}
ConfirmationSorts ==
    Sorting({"customer_name", "loan"}, {"amount", "effective_payment_date", "created_at"},
            Both({"created_at"}) \cup {By("amount", "desc"), By("effective_payment_date", "desc"),
            By("customer_name", "asc"), By("loan", "asc")}, By("created_at", "asc"))

ProposalsQuery == {"dates"}
ProposalSorts ==
    Sorting({"customer_name", "loan"}, {"principal", "proposed_at"},
            Both({"proposed_at"}) \cup {By("principal", "desc"), By("customer_name", "asc"),
            By("loan", "asc")}, By("proposed_at", "desc"))

CandidatesQuery == {"assigned_to"}
CandidateSorts ==
    Sorting({"customer_name", "loan"}, {"days_overdue", "shortfall"},
            {By(f, "desc") : f \in {"days_overdue", "shortfall", "principal"}}
            \cup {By("customer_name", "asc"), By("loan", "asc")}, By("days_overdue", "desc"))

\* A list of loans, sorted by the server; its rows lead to the loan.
WrittenOffTable == [query |-> {"assigned_to"}, sorts |-> Unsorted]

-----------------------------------------------------------------------------
Lists ==
    [finances |-> List(FinancesQuery, FinancesToolbar, FinancesEmpty),
     customers |-> List(CustomersQuery, CustomersToolbar, CustomersEmpty),
     vehicles |-> List(VehiclesQuery, VehiclesToolbar, VehiclesEmpty),
     team |-> List(TeamQuery, TeamToolbar, TeamEmpty),
     cycles |-> List(CyclesQuery, CycleToolbar, CyclesEmpty),
     confirmations |-> List(ConfirmationsQuery, {"assigned_to", "dates"}, ConfirmationsEmpty),
     proposals |-> List(ProposalsQuery, {"dates"}, {}),
     candidates |-> List(CandidatesQuery, {}, {}),
     writtenOff |-> List(WrittenOffTable.query, {}, {})]

Sorts ==
    [finances |-> FinancesSorts, customers |-> CustomersSorts, vehicles |-> VehiclesSorts,
     team |-> Unsorted, cycles |-> CycleSorts, confirmations |-> ConfirmationSorts,
     proposals |-> ProposalSorts, candidates |-> CandidateSorts,
     writtenOff |-> WrittenOffTable.sorts]

Lenses == {"cycles", "confirmations", "proposals", "candidates", "writtenOff"}

FilterTypeOK ==
    /\ place \in DOMAIN Lists
    /\ on \subseteq UNION {Lists[p].narrows : p \in DOMAIN Lists}
    /\ order.dir \in {"asc", "desc"}

\* What a list opened from the menu, the dashboard or a bookmark starts with.
Links ==
    [p \in DOMAIN Lists |-> IF p = "finances" THEN {{}, {"status"}, {"customer_id"}} ELSE {{}}]

FilterInit ==
    /\ place \in DOMAIN Lists \ {"candidates", "writtenOff", "confirmations", "proposals"}
    /\ on \in Links[place]
    /\ order = Sorts[place].default

OpenList(p) == /\ p \notin Lenses \/ p = "cycles"
           /\ place' = p /\ order' = Sorts[p].default
           /\ on' \in Links[p]

\* The chips of Collections and the tabs of its bad-debt lens; a lens is
\* sorted the way it was left.
SwitchLens(p) ==
    /\ place \in Lenses /\ p \in Lenses \ {place}
    /\ place' = p
    /\ order' \in {Sorts[p].default} \cup Sorts[p].options
                 \cup {By(h.field, dir) : h \in Sorts[p].headers, dir \in {"asc", "desc"}}
    /\ UNCHANGED on

\* A status and "awaiting approval" exclude each other; "All" clears both.  The
\* chip of a customer can only be cleared.
Pick(p) ==
    /\ p \in Lists[place].controls \ {"customer_id"}
    /\ on' = (on \ {"status", "pending_approval"})
             \cup (IF p \in {"status", "pending_approval"} THEN {} ELSE on) \cup {p}
    /\ UNCHANGED <<place, order>>

Clear(p) ==
    /\ p \in Lists[place].controls \cap on
    /\ on' = on \ {p}
    /\ UNCHANGED <<place, order>>

\* toggleSort: the active column flips, another one starts its own way.
HeaderClick(h) ==
    /\ h \in Sorts[place].headers
    /\ order' = IF order.field = h.field THEN By(h.field, Flip(order.dir)) ELSE h
    /\ UNCHANGED <<place, on>>

SelectSort(option) ==
    /\ option \in Sorts[place].options
    /\ order' = option
    /\ UNCHANGED <<place, on>>

FilterNext ==
    \/ \E p \in DOMAIN Lists : OpenList(p) \/ SwitchLens(p)
    \/ \E p \in Lists[place].controls : Pick(p) \/ Clear(p)
    \/ \E h \in Sorts[place].headers : HeaderClick(h)
    \/ \E option \in Sorts[place].options : SelectSort(option)

FilterSpec == FilterInit /\ [][FilterNext]_filterVars

-----------------------------------------------------------------------------
(* Properties.  The lists that do not keep them are named. *)

NotControlled == {"candidates", "writtenOff"} \X {"assigned_to"}
NotMentioned ==
    NotControlled \cup ({"vehicles", "confirmations", "proposals"} \X {"dates"})

(* A filter that narrows the rows can be seen and cleared where it narrows    *)
(* them, and an empty list does not say that there is nothing at all.         *)
FiltersAreSeen ==
    \A p \in on \cap Lists[place].narrows :
        /\ <<place, p>> \notin NotControlled => p \in Lists[place].controls
        /\ <<place, p>> \notin NotMentioned => p \in Lists[place].says

\* The select offers these columns one way only; their header turns them both ways.
Unlabelled ==
    [finances |-> {}, customers |-> {}, team |-> {}, writtenOff |-> {},
     vehicles |-> {By("status", "desc")},
     cycles |-> {By(f, "desc") : f \in {"customer_name", "loan", "cycle_number", "cycle_status"}},
     confirmations |-> {By(f, "asc") : f \in {"amount", "effective_payment_date"}}
                       \cup {By(f, "desc") : f \in {"customer_name", "loan"}},
     proposals |-> {By("principal", "asc"), By("customer_name", "desc"), By("loan", "desc")},
     candidates |-> {By(f, "asc") : f \in {"days_overdue", "shortfall"}}
                    \cup {By(f, "desc") : f \in {"customer_name", "loan"}}]

(* "there's no header-click combination that lands in a state the Select      *)
(* can't label" (SortSelect.tsx:9-12), but for the sorts that are named: no   *)
(* order of clicks, choices and changes of the lens leads to another one.     *)
SortIsOffered == order \in Sorts[place].options \cup Unlabelled[place]
=============================================================================
