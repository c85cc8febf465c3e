----------------------------- MODULE EditForms -----------------------------
(***************************************************************************)
(* The forms that edit a record of the server: a customer, a person, a     *)
(* vehicle, the terms of a loan, the name of the organization.  A form     *)
(* starts from the copy of the record the page holds.  The copy is read    *)
(* again in the background while the form stays open, other users write    *)
(* the record meanwhile, and what a save sends is worked out from the form *)
(* and from the copy of that moment.  Some fields of one record are        *)
(* followed through several openings of one form, with one save on the way *)
(* at a time.                                                              *)
(***************************************************************************)
EXTENDS Naturals

CONSTANTS
    Together,    \* the sets of fields that are followed together
    MaxElsewhere \* writes of other users

ASSUME ElsewhereAssumption == MaxElsewhere \in Nat

VARIABLES
    editor,    \* the form
    admin,     \* the user is an admin, or may change the sensitive terms
    server,    \* the record, field by field
    copy,      \* what the page last received of it
    open,      \* the form is on the screen
    base,      \* the copy the form started from
    form,      \* what its fields show
    typed,     \* the fields the user has set
    save,      \* the request on the way
    elsewhere  \* number of writes of other users

editVars == <<editor, admin, server, copy, open, base, form, typed, save, elsewhere>>

-----------------------------------------------------------------------------
(* "name" stands for the required fields, "remarks" for the ones that may be *)
(* blank, "pan" for the numbers that arrive masked and "assignee" for the    *)
(* fields only an admin changes, the sensitive terms of a loan among them.   *)

Blank == "blank"
Mask == "masked"

Values(f) == IF f = "name" THEN {"a", "b"} ELSE {"a", Blank}

\* What a user reads of a record.
Shown(rec) ==
    [f \in DOMAIN rec |-> IF f = "pan" /\ rec[f] # Blank THEN Mask ELSE rec[f]]

FieldsOf ==
    [CustomerEditForm |-> {"name", "remarks", "pan", "assignee"},
     EditForm |-> {"name", "remarks", "pan", "assignee"},
     CustomerInfoCard |-> {"remarks", "pan"},
     PersonnelEditForm |-> {"name", "remarks", "pan"},
     VehicleEditForm |-> {"name", "remarks"},
     FinanceEditForm |-> {"name", "remarks", "assignee"},
     FinancialsForm |-> {"name", "remarks"},
     AssignmentForm |-> {"remarks", "assignee"},
     OrganizationCard |-> {"name"},
     RelationshipEditor |-> {"remarks"}]

Fields == DOMAIN server

\* These stay on the page when their save is accepted.
Lasting == {"FinancialsForm", "AssignmentForm", "OrganizationCard"}

\* A new number is entered in an empty field, and so is all of CustomerInfoCard;
\* the assignee of EditForm is filled in by an effect.
StartsBlank(f) ==
    \/ f = "pan"
    \/ editor = "CustomerInfoCard"
    \/ editor = "EditForm" /\ f = "assignee"

\* Mutant: the number on file is put into its field.
SeedAll == copy
Seed == [f \in Fields |-> IF StartsBlank(f) THEN Blank ELSE copy[f]]

-----------------------------------------------------------------------------
(* The fields a save sends.                                                  *)

Changed == {f \in Fields \ {"pan"} : form[f] # copy[f]}
NewNumber == {f \in Fields \cap {"pan"} : form[f] # Blank}

\* The fields of an admin are left out for the others.
ForRole(fs) == IF admin THEN fs ELSE fs \ {"assignee"}

DiffOfCustomer == ForRole(Changed) \cup IF admin THEN NewNumber ELSE {}
DiffOfPerson == Changed \cup IF admin THEN NewNumber ELSE {}
DiffOfVehicle == Changed
DiffOfTerms == ForRole(Changed)
DiffOfAssignment == ForRole(Changed)

\* Mutant: an assignee that was not filled in yet counts as changed.
DiffOfCustomerPageAnyAssignee == ForRole(Changed) \cup NewNumber
\* On the customer's own page the assignee counts only when it was chosen.
DiffOfCustomerPage ==
    ForRole(Changed \ ({"assignee"} \ typed)) \cup NewNumber

\* Everything, apart from amounts that are blank.
AllTerms == {f \in Fields : f = "remarks" => form[f] # Blank}

\* What the copy lacks.
MissingDetails == {f \in Fields : copy[f] = Blank}

FieldsSent ==
    CASE editor = "CustomerEditForm" -> DiffOfCustomer
      [] editor = "PersonnelEditForm" -> DiffOfPerson
      [] editor = "VehicleEditForm" -> DiffOfVehicle
      [] editor = "FinanceEditForm" -> DiffOfTerms
      [] editor = "AssignmentForm" -> DiffOfAssignment
      [] editor = "EditForm" -> DiffOfCustomerPage
      [] editor = "FinancialsForm" -> AllTerms
      [] editor = "CustomerInfoCard" -> MissingDetails
      [] editor \in {"OrganizationCard", "RelationshipEditor"} -> Fields

\* The checks before a save: CustomerInfoCard wants everything that is missing,
\* the button of the organization's form is off while nothing is changed.
MayBeSent ==
    /\ editor = "CustomerInfoCard" =>
           MissingDetails # {} /\ \A f \in MissingDetails : form[f] # Blank
    /\ editor = "OrganizationCard" => Changed # {}

-----------------------------------------------------------------------------
\* The record after a request: what the request does not name stays.
Patched(rec, payload) ==
    [f \in DOMAIN rec |-> IF f \in DOMAIN payload THEN payload[f] ELSE rec[f]]

NoSave == [stage |-> "none"]
Nothing == [f \in Fields |-> Blank]

EditInit ==
    /\ editor \in DOMAIN FieldsOf
    /\ admin \in BOOLEAN
    /\ ~admin => FieldsOf[editor] \cap {"pan", "assignee"} # {}
    /\ \E fs \in Together \cap SUBSET FieldsOf[editor] :
           /\ server \in [fs -> {"a", Blank}]
           /\ "name" \in fs => server["name"] = "a"
    /\ copy = Shown(server)
    /\ open = FALSE /\ base = Nothing /\ form = Nothing /\ typed = {}
    /\ save = NoSave
    /\ elsewhere = 0

OpenForm ==
    /\ ~open
    /\ editor = "CustomerInfoCard" => MissingDetails # {}
    /\ open' = TRUE
    /\ base' = copy /\ form' = Seed /\ typed' = {}
    /\ UNCHANGED <<editor, admin, server, copy, save, elsewhere>>

\* What only an admin changes is not on the form of the others; the page that
\* edits a customer and the one that collects details take a number from anyone.
Offered(f) ==
    \/ admin
    \/ f \in {"name", "remarks"}
    \/ f = "pan" /\ editor \in {"EditForm", "CustomerInfoCard"}

SetField(f, v) ==
    /\ open
    /\ Offered(f)
    /\ v # form[f]
    /\ form' = [form EXCEPT ![f] = v]
    /\ typed' = typed \cup {f}
    /\ UNCHANGED <<editor, admin, server, copy, open, base, save, elsewhere>>

\* The list of employees has arrived: the current assignee is shown.
FillAssignee ==
    /\ open /\ editor = "EditForm" /\ admin
    /\ "assignee" \in Fields \ typed
    /\ form' = [form EXCEPT !["assignee"] = copy["assignee"]]
    /\ UNCHANGED <<editor, admin, server, copy, open, base, typed, save, elsewhere>>

Shut == open' = FALSE /\ base' = Nothing /\ form' = Nothing /\ typed' = {}

\* Cancel is off while a save is on the way, but the page can be left and the
\* section folded; the form then no longer hears of its save.
LeaveForm ==
    /\ open
    /\ Shut
    /\ save' = IF save.stage = "none" THEN save ELSE [save EXCEPT !.heard = FALSE]
    /\ UNCHANGED <<editor, admin, server, copy, elsewhere>>

\* With nothing to send a form is closed, or says so.
SaveForm ==
    /\ open
    /\ save.stage = "none"
    /\ MayBeSent
    /\ IF FieldsSent # {}
       THEN /\ save' = [stage |-> "sent", heard |-> TRUE,
                        payload |-> [f \in FieldsSent |-> form[f]]]
            /\ UNCHANGED <<open, base, form, typed>>
       ELSE /\ editor \notin Lasting \cup {"EditForm"}
            /\ Shut
            /\ UNCHANGED save
    /\ UNCHANGED <<editor, admin, server, copy, elsewhere>>

Write ==
    /\ save.stage = "sent"
    /\ server' = Patched(server, save.payload)
    /\ save' = [save EXCEPT !.stage = "ok"]
    /\ UNCHANGED <<editor, admin, copy, open, base, form, typed, elsewhere>>

\* Refused, or the network fails before or after the server has written.
Fail ==
    /\ save.stage # "none"
    /\ save' = NoSave
    /\ UNCHANGED <<editor, admin, server, copy, open, base, form, typed, elsewhere>>

\* The terms start again from the values of the save: what was typed meanwhile
\* is gone.
Accepted ==
    /\ save.stage = "ok"
    /\ save' = NoSave
    /\ IF ~save.heard \/ editor \in Lasting \ {"FinancialsForm"}
       THEN UNCHANGED <<open, base, form, typed>>
       ELSE IF editor = "FinancialsForm"
       THEN open' = open /\ form' = Patched(Nothing, save.payload) /\ base' = form' /\ typed' = {}
       ELSE Shut
    /\ UNCHANGED <<editor, admin, server, copy, elsewhere>>

\* The record is read again.  Only the organization's form takes over what the
\* user has not changed.
Refresh ==
    /\ copy' = Shown(server)
    /\ IF open /\ editor = "OrganizationCard"
       THEN /\ form' = [f \in Fields |-> IF f \in typed THEN form[f] ELSE copy'[f]]
            /\ base' = copy'
       ELSE UNCHANGED <<base, form>>
    /\ UNCHANGED <<editor, admin, server, open, typed, save, elsewhere>>

WrittenElsewhere(f, v) ==
    /\ elsewhere < MaxElsewhere
    /\ v # server[f]
    /\ server' = [server EXCEPT ![f] = v]
    /\ elsewhere' = elsewhere + 1
    /\ UNCHANGED <<editor, admin, copy, open, base, form, typed, save>>

EditNext ==
    \/ OpenForm \/ FillAssignee \/ LeaveForm \/ SaveForm
    \/ Write \/ Fail \/ Accepted \/ Refresh
    \/ \E f \in Fields : \E v \in Values(f) : SetField(f, v) \/ WrittenElsewhere(f, v)

EditSpec == EditInit /\ [][EditNext]_editVars

-----------------------------------------------------------------------------
EditTypeOK ==
    /\ editor \in DOMAIN FieldsOf /\ admin \in BOOLEAN /\ open \in BOOLEAN
    /\ Fields \subseteq FieldsOf[editor] /\ typed \subseteq Fields
    /\ \A f \in Fields :
           /\ server[f] \in Values(f) \cup {Mask}
           /\ {copy[f], base[f], form[f]} \subseteq Values(f) \cup {Mask, Blank}
    /\ save.stage \in {"none", "sent", "ok"}
    /\ save # NoSave => DOMAIN save.payload \subseteq Fields
    /\ elsewhere \in 0..MaxElsewhere

\* What a save sends of a field the user has not set: nothing while the copy of that
\* field is what the form was opened with, unless the form always sends everything and
\* the field holds what the copy holds.  So a save does not undo the assignment of a
\* customer, for one, or write the masked form of a number in its place.  Once the copy
\* was read again with another value the form sends the old one, and that is no longer
\* true.
OnlyChosenIsSent ==
    [][save = NoSave /\ save' # NoSave =>
           \A f \in DOMAIN save'.payload :
               \/ f \in typed
               \/ base[f] # copy[f] /\ form[f] = base[f]
               \/ /\ editor \in {"FinancialsForm", "RelationshipEditor"}
                  /\ form[f] = copy[f]]_editVars
=============================================================================
