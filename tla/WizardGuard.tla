---------------------------- MODULE WizardGuard ----------------------------
(***************************************************************************)
(* The wizard that fills in a new finance: its steps, the forms on them,   *)
(* and the guard that asks before a step is left with unsaved text.  The   *)
(* forms report to the guard whether they hold such text; the guard knows  *)
(* only what was reported.                                                 *)
(***************************************************************************)
EXTENDS Naturals

VARIABLES
    screen,   \* the step on the screen, or where the user has gone
    forms,    \* the forms on the screen
    edited,   \* the forms that differ from what they started with
    pending,  \* the forms that are saving
    created,  \* the forms whose request, or the first of two, has succeeded
    done,     \* the forms that are not shown again
    reported, \* the forms the guard takes for unsaved
    target,   \* where the user wants to go, while the guard asks
    asked     \* the forms whose text the user has agreed to lose, still there

wizardVars == <<screen, forms, edited, pending, created, done, reported, target, asked>>

-----------------------------------------------------------------------------
Forms == {"CustomerInfoCard", "Guarantor", "CoHirer", "VehicleCreateCard",
          "FinancialsForm", "AssignmentForm"}

\* The two forms that add a person are opened by a button.
Adders == {"Guarantor", "CoHirer"}
\* These save in two requests, and go away after the second.
Creators == Adders \cup {"VehicleCreateCard"}

Steps == {"customer", "personnel", "vehicle", "photos", "financials"}
Away == {"list", "finance"}

FormsOf(s) ==
    CASE s = "customer" -> {"CustomerInfoCard"}
      [] s = "vehicle" -> {"VehicleCreateCard"}
      [] s = "financials" -> {"FinancialsForm", "AssignmentForm"}
      [] OTHER -> {}

\* Mutant: the form reports only while its request is under way.
SaysDirtyLate(f, ty, ok) == f \in ty \cap pending
\* What a form reports: AssignmentForm nothing, the others that they were changed,
\* until their request, or the first of two, has succeeded.
SaysDirty(f, ty, ok) == f \in ty \ ok /\ f # "AssignmentForm"

\* A form reports again only when what it says has changed.
Report(ty, ok) ==
    reported' = {f \in Forms : IF SaysDirty(f, ty, ok) = SaysDirty(f, edited, created)
                               THEN f \in reported
                               ELSE SaysDirty(f, ty, ok)}

\* The text that would be lost with the form.
Unsaved == edited \ (created \cap {"CustomerInfoCard"})

WizardInit ==
    /\ screen \in Steps
    /\ forms = FormsOf(screen)
    /\ edited = {} /\ pending = {} /\ created = {} /\ done = {}
    /\ reported = {} /\ target = "none" /\ asked = {}

\* The screen is free while the guard does not ask.
GuardIsQuiet == target = "none" /\ screen \in Steps

OpenAdder(f) ==
    /\ GuardIsQuiet /\ screen = "personnel" /\ f \in Adders \ forms
    /\ forms' = forms \cup {f}
    /\ UNCHANGED <<screen, edited, pending, created, done, reported, target, asked>>

TypeInto(f) ==
    /\ GuardIsQuiet /\ f \in forms \ (edited \cup done)
    /\ edited' = edited \cup {f}
    /\ Report(edited', created)
    /\ asked' = asked \ {f}
    /\ UNCHANGED <<screen, forms, pending, created, done, target>>

SaveStep(f) ==
    /\ GuardIsQuiet /\ f \in (forms \cap edited) \ (pending \cup done)
    /\ pending' = pending \cup {f}
    /\ created' = created \ {f}
    /\ Report(edited, created')
    /\ UNCHANGED <<screen, forms, edited, done, target, asked>>

\* CustomerInfoCard becomes a summary; the terms start again from what was saved;
\* the others wait for their second request.
SaveSucceeds(f) ==
    /\ f \in pending \ created
    /\ pending' = IF f \in Creators THEN pending ELSE pending \ {f}
    /\ created' = IF f \in Creators \cup {"CustomerInfoCard"} THEN created \cup {f} ELSE created
    /\ edited' = IF f \in {"FinancialsForm", "AssignmentForm"} THEN edited \ {f} ELSE edited
    /\ done' = done \cup ({f} \cap {"CustomerInfoCard"})
    /\ Report(edited', created')
    /\ UNCHANGED <<screen, forms, target, asked>>

TakeDown(fs) ==
    /\ forms' = forms \ fs
    /\ edited' = edited \ fs /\ pending' = pending \ fs /\ created' = created \ fs
    /\ reported' = reported \ fs

Attached(f) ==
    /\ f \in pending \cap created
    /\ done' = done \cup ({f} \ Adders)
    /\ asked' = asked \ {f}
    /\ TakeDown({f})
    /\ UNCHANGED <<screen, target>>

\* After the first request has succeeded the form stays, with its error.
SaveFails(f) ==
    /\ f \in pending
    /\ pending' = pending \ {f}
    /\ UNCHANGED <<screen, forms, edited, created, done, reported, target, asked>>

\* A step chosen again leaves its forms where they are.
Move(s, left) ==
    /\ screen' = s
    /\ IF s = screen
       THEN reported' = left /\ UNCHANGED <<forms, edited, pending, created>>
       ELSE /\ forms' = FormsOf(s) \ done
            /\ edited' = {} /\ pending' = {} /\ created' = {} /\ reported' = {}
    /\ UNCHANGED done

\* The stepper, Back and Continue, Open finance and Exit.
GoTo(s) ==
    /\ GuardIsQuiet
    /\ IF reported # {}
       THEN /\ target' = s
            /\ UNCHANGED <<screen, forms, edited, pending, created, done, reported, asked>>
       ELSE /\ target' = target
            /\ asked' = IF s = screen THEN asked ELSE {}
            /\ Move(s, {})

Stay ==
    /\ target # "none"
    /\ target' = "none"
    /\ UNCHANGED <<screen, forms, edited, pending, created, done, reported, asked>>

\* The reports are forgotten, whether or not their forms go.
LeaveAnyway ==
    /\ target # "none"
    /\ target' = "none"
    /\ asked' = IF target = screen THEN asked \cup Unsaved ELSE {}
    /\ Move(target, {})

\* The rest of the application is reached without the guard.
GoElsewhere ==
    /\ GuardIsQuiet
    /\ screen' = "elsewhere"
    /\ asked' = {}
    /\ TakeDown(Forms)
    /\ UNCHANGED <<done, target>>

\* The loan is read again in the background: a failure takes the forms off the
\* screen, the next success puts them back as they start.
RefetchFails ==
    /\ screen \in Steps
    /\ asked' = {}
    /\ TakeDown(Forms)
    /\ UNCHANGED <<screen, done, target>>

RefetchSucceeds ==
    /\ screen \in Steps /\ forms = {}
    /\ forms' = FormsOf(screen) \ done
    /\ UNCHANGED <<screen, edited, pending, created, done, reported, target, asked>>

ComeBack(s) ==
    /\ screen \notin Steps
    /\ screen' = s /\ forms' = FormsOf(s) \ done
    /\ UNCHANGED <<edited, pending, created, done, reported, target, asked>>

WizardNext ==
    \/ \E f \in Forms :
           OpenAdder(f) \/ TypeInto(f) \/ SaveStep(f) \/ SaveSucceeds(f) \/ Attached(f) \/ SaveFails(f)
    \/ \E s \in Steps \cup Away : GoTo(s)
    \/ \E s \in Steps : ComeBack(s)
    \/ Stay \/ LeaveAnyway \/ GoElsewhere \/ RefetchFails \/ RefetchSucceeds

WizardSpec == WizardInit /\ [][WizardNext]_wizardVars

-----------------------------------------------------------------------------
WizardTypeOK ==
    /\ screen \in Steps \cup Away \cup {"elsewhere"}
    /\ edited \subseteq forms /\ pending \subseteq edited /\ created \subseteq edited
    /\ done \subseteq Forms /\ reported \subseteq forms
    /\ target \in Steps \cup Away \cup {"none"}
    /\ asked \subseteq forms

\* The ways round the guard.
Unguarded == GoElsewhere \/ RefetchFails

\* Text that is not saved leaves the screen only by its save, or after the user was
\* asked about it, other than the text of a form that never reports, or that has made
\* its record and not attached it.  Only the two ways round the guard, a link of the
\* rest of the application and a failure to read the loan again, take text unasked.
TextIsAskedFor ==
    [][\A f \in Unsaved \ edited' :
           \/ target # "none" \/ f \in asked
           \/ SaveSucceeds(f)
           \/ f \in created \cup {"AssignmentForm"}
           \/ Unguarded]_wizardVars
=============================================================================
