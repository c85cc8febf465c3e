------------------------------ MODULE Dialogs ------------------------------
(***************************************************************************)
(* The dialogs of the frontend that collect input and send it: one at a    *)
(* time is followed over several openings, for one or two subjects (rows   *)
(* of a table, accounts of the team).                                      *)
(*                                                                         *)
(* Each dialog decides for itself what sets its input back, whether it can *)
(* be left while its request is on the way and what its success does; the  *)
(* records below say so.  An answer comes back to the component that sent  *)
(* the request, whichever opening that component then shows; when the      *)
(* component has gone, with the page or alone, nobody hears it.            *)
(***************************************************************************)
EXTENDS Naturals

CONSTANT MaxOpenings

ASSUME OpeningsAssumption == MaxOpenings \in Nat

VARIABLES
    kind,     \* the dialog
    opening,  \* the opening it shows, 0 when closed
    openings, \* number of openings so far
    subject,  \* what it was opened for, kept after it closes
    text,     \* the opening in which its input was typed, 0 as seeded
    request,  \* the request its component waits for
    stray,    \* requests on the way whose answer nobody hears, by how they were lost
    panel     \* the opening whose result it shows, 0 none

dialogVars == <<kind, opening, openings, subject, text, request, stray, panel>>

-----------------------------------------------------------------------------
(* holds: Cancel, Escape and the backdrop do nothing while the request is on  *)
(* the way.  clears: when the input is set back to its seed.  ends: what      *)
(* success does.  rows: opened for one of several subjects.                   *)

Dialog(holds, clears, ends, rows) ==
    [holds |-> holds, clears |-> clears, ends |-> ends, rows |-> rows]

ApproveAction == Dialog(TRUE, {"open"}, "close", FALSE)
ProposeAction == Dialog(TRUE, {"open"}, "close", FALSE)
ReviewAction == Dialog(TRUE, {"open"}, "close", FALSE)
\* The form is unmounted with the dialog.
CloseAction == Dialog(FALSE, {"close"}, "close", FALSE)
DeleteDraftAction == Dialog(TRUE, {"close"}, "leave", FALSE)
\* A row of the worklist; an effect on the row's id clears the notes.
BadDebtReviewDialog == Dialog(TRUE, {"open"}, "close", TRUE)
\* Mounted for one candidate, with a reason that is written for it.
ProposeCandidateDialog == Dialog(TRUE, {"close"}, "close", TRUE)
RecordPaymentDialog == Dialog(TRUE, {"open", "reseed"}, "close", FALSE)
EditTransactionDialog == Dialog(TRUE, {"open"}, "close", TRUE)
\* Seeded when it shows another cycle than last time.
ClassifyCycleDialog == Dialog(TRUE, {"subject"}, "close", TRUE)
\* Mutant: it can be left, and opened again, while the account is created.
CreateAccountDialogUnheld == Dialog(FALSE, {"close"}, "panel", FALSE)
CreateAccountDialog == Dialog(TRUE, {"close"}, "panel", FALSE)
\* Mutant: closing is not refused while the request is on the way.
ResetPasswordDialogUnheld == Dialog(FALSE, {}, "panel", TRUE)
ResetPasswordDialog == Dialog(TRUE, {"close"}, "panel", TRUE)
ChangeRoleDialog == Dialog(TRUE, {"close"}, "close", TRUE)
\* Mutant: the confirmation word stays.
RemoveAccountDialogKept == Dialog(TRUE, {}, "close", TRUE)
RemoveAccountDialog == Dialog(TRUE, {"close"}, "close", TRUE)
\* Whichever way the panel is left, the user is signed out.
ChangePasswordDialog == Dialog(TRUE, {"close"}, "panel", FALSE)
QuickAddCustomerDialog == Dialog(TRUE, {"close"}, "close", FALSE)
RevealPii == Dialog(TRUE, {"open"}, "close", FALSE)
RevealCustomerPII == Dialog(TRUE, {"open"}, "close", FALSE)
ArchiveCustomer == Dialog(TRUE, {"open"}, "leave", FALSE)
\* The deleted vehicle's page offers to restore it.
DeleteVehicle == Dialog(TRUE, {"close"}, "close", FALSE)
AddEntryDialog == Dialog(FALSE, {"success"}, "close", FALSE)

Kinds ==
    [ApproveAction |-> ApproveAction, ProposeAction |-> ProposeAction,
     ReviewAction |-> ReviewAction, CloseAction |-> CloseAction,
     DeleteDraftAction |-> DeleteDraftAction,
     BadDebtReviewDialog |-> BadDebtReviewDialog,
     ProposeCandidateDialog |-> ProposeCandidateDialog,
     RecordPaymentDialog |-> RecordPaymentDialog,
     EditTransactionDialog |-> EditTransactionDialog,
     ClassifyCycleDialog |-> ClassifyCycleDialog,
     CreateAccountDialog |-> CreateAccountDialog,
     ResetPasswordDialog |-> ResetPasswordDialog,
     ChangeRoleDialog |-> ChangeRoleDialog,
     RemoveAccountDialog |-> RemoveAccountDialog,
     ChangePasswordDialog |-> ChangePasswordDialog,
     QuickAddCustomerDialog |-> QuickAddCustomerDialog,
     RevealPii |-> RevealPii, RevealCustomerPII |-> RevealCustomerPII,
     ArchiveCustomer |-> ArchiveCustomer, DeleteVehicle |-> DeleteVehicle,
     AddEntryDialog |-> AddEntryDialog]

D == Kinds[kind]

NoRequest == [opening |-> 0, text |-> 0]
Waiting == request # NoRequest

\* With the page, with the form alone, or by a reset of the mutation.
Losses == {"page", "form", "reset"}
Lost(how) == IF Waiting THEN stray \cup {how} ELSE stray

DialogTypeOK ==
    /\ kind \in DOMAIN Kinds
    /\ openings \in 0..MaxOpenings
    /\ {opening, text, panel} \subseteq 0..openings
    /\ subject \in {"none", "a", "b"}
    /\ request \in [opening : 0..openings, text : 0..openings]
    /\ stray \subseteq Losses

DialogInit ==
    /\ kind \in DOMAIN Kinds
    /\ opening = 0 /\ openings = 0 /\ text = 0 /\ panel = 0
    /\ subject = "none"
    /\ request = NoRequest
    /\ stray = {}

Seeded(when) == IF when \in D.clears THEN 0 ELSE text

Open(s) ==
    /\ opening = 0 /\ openings < MaxOpenings
    /\ s = "b" => D.rows
    /\ openings' = openings + 1
    /\ opening' = openings + 1
    /\ subject' = s
    /\ text' = IF "subject" \in D.clears /\ subject # s THEN 0 ELSE Seeded("open")
    /\ UNCHANGED <<kind, request, stray, panel>>

Type ==
    /\ opening # 0 /\ panel = 0
    /\ text' = opening
    /\ UNCHANGED <<kind, opening, openings, subject, request, stray, panel>>

\* A form that is unmounted no longer hears the answer.
Close ==
    /\ opening # 0
    /\ ~(D.holds /\ Waiting)
    /\ opening' = 0 /\ panel' = 0
    /\ text' = Seeded("close")
    /\ IF "close" \in D.clears
       THEN request' = NoRequest /\ stray' = Lost("form")
       ELSE UNCHANGED <<request, stray>>
    /\ UNCHANGED <<kind, openings, subject>>

\* Back, a reload, or the page shows an error in place of its content: nothing holds
\* the component, and a new one knows of no request.
PageUnmounts ==
    /\ subject # "none"
    /\ opening' = 0 /\ panel' = 0 /\ text' = 0
    /\ subject' = "none"
    /\ request' = NoRequest /\ stray' = Lost("page")
    /\ UNCHANGED <<kind, openings>>

\* The button is disabled while the component waits.
SendForm ==
    /\ opening # 0 /\ panel = 0
    /\ ~Waiting
    /\ request' = [opening |-> opening, text |-> text]
    /\ UNCHANGED <<kind, opening, openings, subject, text, stray, panel>>

\* onSuccess of the call.
Succeeds ==
    /\ Waiting
    /\ request' = NoRequest
    /\ IF D.ends = "panel"
       THEN panel' = opening /\ UNCHANGED <<opening, text>>
       ELSE /\ opening' = 0
            /\ text' = IF {"close", "success"} \cap D.clears # {} THEN 0 ELSE text
            /\ UNCHANGED panel
    /\ UNCHANGED <<kind, openings, subject, stray>>

Refused ==
    /\ Waiting
    /\ request' = NoRequest
    /\ UNCHANGED <<kind, opening, openings, subject, text, stray, panel>>

StrayAnswer ==
    /\ stray # {}
    /\ \E how \in stray : stray' = stray \ {how}
    /\ UNCHANGED <<kind, opening, openings, subject, text, request, panel>>

\* The cycles arrive again and name another one to pay: the form is seeded
\* again and the mutation reset, which forgets a request under way.
Reseed ==
    /\ "reseed" \in D.clears /\ opening # 0
    /\ text' = 0
    /\ request' = NoRequest
    /\ stray' = Lost("reset")
    /\ UNCHANGED <<kind, opening, openings, subject, panel>>

DialogNext ==
    \/ \E s \in {"a", "b"} : Open(s)
    \/ Type \/ Close \/ PageUnmounts \/ SendForm \/ Succeeds \/ Refused
    \/ StrayAnswer \/ Reseed

DialogSpec == DialogInit /\ [][DialogNext]_dialogVars

-----------------------------------------------------------------------------
(* Properties.  The dialogs named in them are the ones that do not keep them. *)

(* What a dialog shows was typed in this opening, not left over from another  *)
(* row or a cancelled attempt.                                                *)
StartsClean ==
    opening # 0 /\ kind \notin {"ClassifyCycleDialog", "AddEntryDialog"}
    => text \in {0, opening}

(* An answer closes the opening that asked, and takes no other input with it. *)
AnswerMeetsItsOpening ==
    [][Succeeds /\ kind # "AddEntryDialog" => request.opening = opening]_dialogVars

(* A second request is not sent while the first is on its way: a payment      *)
(* recorded twice has two keys and stays recorded twice.  Only leaving the    *)
(* page with a request on the way, which no dialog holds back, lets one be    *)
(* sent again by the dialog that is there on return.                          *)
SentOnce ==
    Waiting /\ kind \notin {"CloseAction", "RecordPaymentDialog"} => stray \subseteq {"page"}
=============================================================================
