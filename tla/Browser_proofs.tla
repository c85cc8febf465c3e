--------------------------- MODULE Browser_proofs ---------------------------
(***************************************************************************)
(* What the parts of the frontend keep, for any number of rows, tries,     *)
(* openings, entries of the history and writes of other users: one section *)
(* for each part, with its types, the invariant its properties rest on and *)
(* the theorems.                                                           *)
(***************************************************************************)
EXTENDS Dialogs, SearchBox, ListFilters, EditForms, SaveSteps, WizardGuard, UndoWindow, QueryCache,
        SequenceTheorems, TLAPS

-----------------------------------------------------------------------------
(* The dialogs.                                                             *)

DialogNames == {"ApproveAction", "ProposeAction", "ReviewAction", "CloseAction",
          "DeleteDraftAction", "BadDebtReviewDialog", "ProposeCandidateDialog",
          "RecordPaymentDialog", "EditTransactionDialog", "ClassifyCycleDialog",
          "CreateAccountDialog", "ResetPasswordDialog", "ChangeRoleDialog",
          "RemoveAccountDialog", "ChangePasswordDialog", "QuickAddCustomerDialog",
          "RevealPii", "RevealCustomerPII", "ArchiveCustomer", "DeleteVehicle",
          "AddEntryDialog"}

\* What the theorems need to know of the table of dialogs.
ClearedBetween(k) ==
    k \notin {"ClassifyCycleDialog", "AddEntryDialog"}
    => {"open", "close"} \cap Kinds[k].clears # {}
HeldOrUnmounted(k) ==
    k \notin {"AddEntryDialog"}
    => /\ Kinds[k].holds \/ "close" \in Kinds[k].clears
       /\ Kinds[k].holds \/ k = "CloseAction"
OnlyPaymentsReseed(k) == "reseed" \in Kinds[k].clears => k = "RecordPaymentDialog"
NewEntry(k) == k = "AddEntryDialog" => "close" \notin Kinds[k].clears

\* The table of dialogs, read once for all the proofs: one case for each dialog.
LEMMA KindFacts ==
    ASSUME NEW k \in DOMAIN Kinds
    PROVE  ClearedBetween(k) /\ HeldOrUnmounted(k) /\ OnlyPaymentsReseed(k) /\ NewEntry(k)
<1> USE DEF Dialog, ClearedBetween, HeldOrUnmounted, OnlyPaymentsReseed, NewEntry
<1>1. CASE k \in {"ApproveAction", "ProposeAction", "ReviewAction"}
  <2>1. Kinds["ApproveAction"] = ApproveAction
    BY DEF Kinds
  <2>2. Kinds["ProposeAction"] = ProposeAction
    BY DEF Kinds
  <2>3. Kinds["ReviewAction"] = ReviewAction
    BY DEF Kinds
  <2> QED
    BY <1>1, <2>1, <2>2, <2>3 DEF ApproveAction, ProposeAction, ReviewAction
<1>2. CASE k \in {"CloseAction", "DeleteDraftAction", "BadDebtReviewDialog"}
  <2>1. Kinds["CloseAction"] = CloseAction
    BY DEF Kinds
  <2>2. Kinds["DeleteDraftAction"] = DeleteDraftAction
    BY DEF Kinds
  <2>3. Kinds["BadDebtReviewDialog"] = BadDebtReviewDialog
    BY DEF Kinds
  <2> QED
    BY <1>2, <2>1, <2>2, <2>3 DEF CloseAction, DeleteDraftAction, BadDebtReviewDialog
<1>3. CASE k \in {"ProposeCandidateDialog", "RecordPaymentDialog", "EditTransactionDialog"}
  <2>1. Kinds["ProposeCandidateDialog"] = ProposeCandidateDialog
    BY DEF Kinds
  <2>2. Kinds["RecordPaymentDialog"] = RecordPaymentDialog
    BY DEF Kinds
  <2>3. Kinds["EditTransactionDialog"] = EditTransactionDialog
    BY DEF Kinds
  <2> QED
    BY <1>3, <2>1, <2>2, <2>3 DEF ProposeCandidateDialog, RecordPaymentDialog,
       EditTransactionDialog
<1>4. CASE k \in {"ClassifyCycleDialog", "CreateAccountDialog", "ResetPasswordDialog"}
  <2>1. Kinds["ClassifyCycleDialog"] = ClassifyCycleDialog
    BY DEF Kinds
  <2>2. Kinds["CreateAccountDialog"] = CreateAccountDialog
    BY DEF Kinds
  <2>3. Kinds["ResetPasswordDialog"] = ResetPasswordDialog
    BY DEF Kinds
  <2> QED
    BY <1>4, <2>1, <2>2, <2>3 DEF ClassifyCycleDialog, CreateAccountDialog,
       ResetPasswordDialog
<1>5. CASE k \in {"ChangeRoleDialog", "RemoveAccountDialog", "ChangePasswordDialog"}
  <2>1. Kinds["ChangeRoleDialog"] = ChangeRoleDialog
    BY DEF Kinds
  <2>2. Kinds["RemoveAccountDialog"] = RemoveAccountDialog
    BY DEF Kinds
  <2>3. Kinds["ChangePasswordDialog"] = ChangePasswordDialog
    BY DEF Kinds
  <2> QED
    BY <1>5, <2>1, <2>2, <2>3 DEF ChangeRoleDialog, RemoveAccountDialog,
       ChangePasswordDialog
<1>6. CASE k \in {"QuickAddCustomerDialog", "RevealPii", "RevealCustomerPII"}
  <2>1. Kinds["QuickAddCustomerDialog"] = QuickAddCustomerDialog
    BY DEF Kinds
  <2>2. Kinds["RevealPii"] = RevealPii
    BY DEF Kinds
  <2>3. Kinds["RevealCustomerPII"] = RevealCustomerPII
    BY DEF Kinds
  <2> QED
    BY <1>6, <2>1, <2>2, <2>3 DEF QuickAddCustomerDialog, RevealPii, RevealCustomerPII
<1>7. CASE k \in {"ArchiveCustomer", "DeleteVehicle", "AddEntryDialog"}
  <2>1. Kinds["ArchiveCustomer"] = ArchiveCustomer
    BY DEF Kinds
  <2>2. Kinds["DeleteVehicle"] = DeleteVehicle
    BY DEF Kinds
  <2>3. Kinds["AddEntryDialog"] = AddEntryDialog
    BY DEF Kinds
  <2> QED
    BY <1>7, <2>1, <2>2, <2>3 DEF ArchiveCustomer, DeleteVehicle, AddEntryDialog
<1>8. k \in DialogNames
  BY DEF Kinds, DialogNames
<1> QED
  BY <1>1, <1>2, <1>3, <1>4, <1>5, <1>6, <1>7, <1>8 DEF DialogNames

-----------------------------------------------------------------------------
OpeningTypes ==
    /\ kind \in DOMAIN Kinds
    /\ openings \in Nat
    /\ opening \in 0..openings
    /\ stray \subseteq Losses

\* What is cleared on closing is clean while closed.
ClosedIsClean == opening = 0 /\ "close" \in D.clears => text = 0

\* While the page stays, a request is left behind only by a form that is unmounted or
\* seeded again under it.
StrayNeedsAReason ==
    kind \notin {"CloseAction", "RecordPaymentDialog"} => stray \subseteq {"page"}

\* The component waits for the opening it shows.
WaitsForItsOpening == Waiting /\ kind # "AddEntryDialog" => opening # 0 /\ request.opening = opening

DialogInv == OpeningTypes /\ ClosedIsClean /\ StartsClean /\ StrayNeedsAReason /\ WaitsForItsOpening

\* Opening seeds what the dialog clears on opening, and drops an old request.
LEMMA OpenKeepsDialog == ASSUME DialogInv, NEW s, Open(s) PROVE DialogInv'
<1>1. ClearedBetween(kind)
  BY KindFacts DEF DialogInv, OpeningTypes
<1>2. OpeningTypes' /\ ClosedIsClean' /\ StrayNeedsAReason'
  BY DEF DialogInv, OpeningTypes, ClosedIsClean, StrayNeedsAReason, Open, D
<1>3. StartsClean'
  BY <1>1 DEF DialogInv, ClosedIsClean, StartsClean, ClearedBetween, Open, Seeded, D
<1>4. WaitsForItsOpening'
  BY DEF DialogInv, WaitsForItsOpening, Waiting, Open
<1> QED
  BY <1>2, <1>3, <1>4 DEF DialogInv

\* Closing leaves text or a request behind only for the dialogs that keep them.
LEMMA CloseKeepsDialog == ASSUME DialogInv, Close PROVE DialogInv'
<1>1. HeldOrUnmounted(kind) /\ NewEntry(kind)
  BY KindFacts DEF DialogInv, OpeningTypes
<1>2. OpeningTypes' /\ ClosedIsClean' /\ StartsClean'
  <2>1. /\ kind' = kind /\ openings' = openings /\ opening' = 0 /\ stray' \subseteq Losses
        /\ "close" \in D.clears => text' = 0
    BY DEF DialogInv, OpeningTypes, Close, Seeded, Lost, Losses
  <2>2. ClosedIsClean' /\ StartsClean'
    BY <2>1 DEF ClosedIsClean, StartsClean, D
  <2>3. OpeningTypes'
    BY <2>1 DEF DialogInv, OpeningTypes
  <2> QED
    BY <2>2, <2>3
<1>3. StrayNeedsAReason'
  BY <1>1 DEF DialogInv, StrayNeedsAReason, HeldOrUnmounted, NewEntry, Close, Lost, D
<1>4. WaitsForItsOpening'
  BY <1>1 DEF DialogInv, WaitsForItsOpening, Waiting, HeldOrUnmounted, Close, D
<1> QED
  BY <1>2, <1>3, <1>4 DEF DialogInv

\* A page that is left takes the dialog, its text and what it waits for with it.
LEMMA PageUnmountsKeepsDialog == ASSUME DialogInv, PageUnmounts PROVE DialogInv'
<1>1. /\ kind' = kind /\ openings' = openings /\ opening' = 0 /\ text' = 0
      /\ request' = NoRequest /\ stray' \subseteq stray \cup {"page"}
  BY DEF PageUnmounts, Lost
<1>2. OpeningTypes'
  BY <1>1 DEF DialogInv, OpeningTypes, Losses
<1>3. ClosedIsClean' /\ StartsClean' /\ StrayNeedsAReason' /\ WaitsForItsOpening'
  BY <1>1 DEF DialogInv, ClosedIsClean, StartsClean, StrayNeedsAReason, WaitsForItsOpening, Waiting
<1> QED
  BY <1>2, <1>3 DEF DialogInv

\* Every action of a dialog keeps the invariant.
LEMMA DialogStepKeeps == ASSUME DialogInv, [DialogNext]_dialogVars PROVE DialogInv'
<1>1. ASSUME NEW s \in {"a", "b"}, Open(s) PROVE DialogInv'
  BY <1>1, OpenKeepsDialog
<1>2. CASE Type
  BY <1>2 DEF DialogInv, OpeningTypes, ClosedIsClean, StartsClean, StrayNeedsAReason, WaitsForItsOpening,
     Waiting, D, Type
<1>3. CASE Close
  BY <1>3, CloseKeepsDialog
<1>4. CASE SendForm
  BY <1>4 DEF DialogInv, OpeningTypes, ClosedIsClean, StartsClean, StrayNeedsAReason, WaitsForItsOpening,
     Waiting, D, SendForm
<1>5. CASE Succeeds
  BY <1>5 DEF DialogInv, OpeningTypes, ClosedIsClean, StartsClean, StrayNeedsAReason, WaitsForItsOpening,
     Waiting, D, Succeeds
<1>6. CASE Refused
  BY <1>6 DEF DialogInv, OpeningTypes, ClosedIsClean, StartsClean, StrayNeedsAReason, WaitsForItsOpening,
     Waiting, D, Refused
<1>9. CASE StrayAnswer
  BY <1>9 DEF DialogInv, OpeningTypes, ClosedIsClean, StartsClean, StrayNeedsAReason, WaitsForItsOpening,
     Waiting, D, StrayAnswer
<1>10. CASE PageUnmounts
  BY <1>10, PageUnmountsKeepsDialog
<1>7. CASE Reseed
  <2>1. kind = "RecordPaymentDialog"
    BY <1>7, KindFacts DEF DialogInv, OpeningTypes, OnlyPaymentsReseed, Reseed, D
  <2> QED
    BY <1>7, <2>1 DEF DialogInv, OpeningTypes, ClosedIsClean, StartsClean, StrayNeedsAReason,
       WaitsForItsOpening, Waiting, D, Reseed, Lost, Losses
<1>8. CASE UNCHANGED dialogVars
  BY <1>8 DEF DialogInv, OpeningTypes, ClosedIsClean, StartsClean, StrayNeedsAReason, WaitsForItsOpening,
     Waiting, D, dialogVars
<1> QED
  BY <1>1, <1>2, <1>3, <1>4, <1>5, <1>6, <1>7, <1>8, <1>9, <1>10 DEF DialogNext

\* The invariant holds in every reachable state.
THEOREM DialogInvariant == DialogSpec => []DialogInv
<1>1. DialogInit => DialogInv
  <2> SUFFICES ASSUME DialogInit PROVE DialogInv
    OBVIOUS
  <2>1. OpeningTypes
    <3>1. kind \in DOMAIN Kinds
      BY DEF DialogInit
    <3>2. openings \in Nat /\ opening \in 0..openings
      BY DEF DialogInit
    <3>3. stray \subseteq Losses
      BY DEF DialogInit
    <3> QED
      BY <3>1, <3>2, <3>3 DEF OpeningTypes
  <2>2. ClosedIsClean /\ StartsClean /\ StrayNeedsAReason /\ WaitsForItsOpening
    BY DEF DialogInit, ClosedIsClean, StartsClean, StrayNeedsAReason, WaitsForItsOpening, Waiting
  <2> QED
    BY <2>1, <2>2 DEF DialogInv
<1> QED
  BY <1>1, DialogStepKeeps, PTL DEF DialogSpec

\* No dialog but the two named shows input of an earlier opening, after any number
\* of openings for any rows, answers and cancellations.
THEOREM DialogsStartClean == DialogSpec => []StartsClean
<1>1. DialogInv => StartsClean
  BY DEF DialogInv
<1> QED
  BY <1>1, DialogInvariant, PTL

\* No dialog but the two named sends a request while another of its own is unanswered,
\* unless the page was left with that other one on the way.
THEOREM DialogsSendOnce == DialogSpec => []SentOnce
<1>1. DialogInv => SentOnce
  BY DEF DialogInv, StrayNeedsAReason, SentOnce
<1> QED
  BY <1>1, DialogInvariant, PTL

\* An answer acts on the opening that asked for it, for every dialog but one.
THEOREM AnswersMeetTheirOpening == DialogSpec => AnswerMeetsItsOpening
<1>1. DialogInv => [Succeeds /\ kind # "AddEntryDialog" => request.opening = opening]_dialogVars
  BY DEF DialogInv, WaitsForItsOpening, Succeeds
<1> QED
  BY <1>1, DialogInvariant, PTL DEF AnswerMeetsItsOpening

\* The openings that are remembered are past ones or the present one.
CountsFit ==
    /\ openings \in 0..MaxOpenings
    /\ opening \in 0..openings /\ text \in 0..openings /\ panel \in 0..openings
    /\ request \in [opening : 0..openings, text : 0..openings]
NamesFit == kind \in DOMAIN Kinds /\ subject \in {"none", "a", "b"} /\ stray \subseteq Losses

\* More openings leave room for what was in range.
LEMMA MoreOpenings ==
    ASSUME NEW n \in Nat
    PROVE  /\ 0..n \subseteq 0..(n + 1)
           /\ [opening : 0..n, text : 0..n] \subseteq [opening : 0..(n + 1), text : 0..(n + 1)]
<1>1. 0..n \subseteq 0..(n + 1)
  OBVIOUS
<1> QED
  BY <1>1

\* The empty request is within any number of openings.
LEMMA RequestsFit ==
    /\ \A n \in Nat : NoRequest \in [opening : 0..n, text : 0..n]
    /\ \A n \in Nat : \A o, t \in 0..n : [opening |-> o, text |-> t] \in [opening : 0..n, text : 0..n]
BY DEF NoRequest

\* Opening counts once more, up to the bound.
LEMMA OpenFits == ASSUME CountsFit, NEW s, Open(s) PROVE CountsFit'
<1>1. /\ openings \in Nat /\ openings < MaxOpenings /\ openings' = openings + 1
      /\ opening' = openings + 1 /\ text' \in {0, text} /\ panel' = panel /\ request' = request
  BY OpeningsAssumption DEF CountsFit, Open, Seeded
<1>2. openings' \in 0..MaxOpenings /\ opening' \in 0..openings'
  BY <1>1, OpeningsAssumption
<1>3. text' \in 0..openings' /\ panel' \in 0..openings'
  BY <1>1 DEF CountsFit
<1>4. request' \in [opening : 0..openings', text : 0..openings']
  BY <1>1, MoreOpenings DEF CountsFit
<1> QED
  BY <1>2, <1>3, <1>4 DEF CountsFit

\* Every action remembers openings that have happened.
LEMMA DialogStepFits == ASSUME CountsFit, [DialogNext]_dialogVars PROVE CountsFit'
<1>0. openings \in Nat
  BY OpeningsAssumption DEF CountsFit
<1>1. ASSUME NEW s, Open(s) PROVE CountsFit'
  BY <1>1, OpenFits
<1>2. CASE Type
  BY <1>2 DEF CountsFit, Type
<1>3. CASE Close
  <2>1. /\ openings' = openings /\ opening' = 0 /\ panel' = 0 /\ text' \in {0, text}
        /\ request' \in {request, NoRequest}
    BY <1>3 DEF Close, Seeded
  <2> QED
    BY <1>0, <2>1, RequestsFit DEF CountsFit
<1>4. CASE SendForm
  <2>1. /\ openings' = openings /\ opening' = opening /\ panel' = panel /\ text' = text
        /\ request' = [opening |-> opening, text |-> text]
    BY <1>4 DEF SendForm
  <2>2. request' \in [opening : 0..openings, text : 0..openings]
    BY <1>0, <2>1, RequestsFit DEF CountsFit
  <2> QED
    BY <2>1, <2>2 DEF CountsFit
<1>5. CASE Succeeds
  <2>1. /\ openings' = openings /\ opening' \in {opening, 0} /\ panel' \in {panel, opening}
        /\ text' \in {text, 0} /\ request' = NoRequest
    BY <1>5 DEF Succeeds
  <2> QED
    BY <1>0, <2>1, RequestsFit DEF CountsFit
<1>6. CASE Refused
  BY <1>0, <1>6, RequestsFit DEF Refused, CountsFit
<1>7. CASE StrayAnswer
  BY <1>7 DEF StrayAnswer, CountsFit
<1>8. CASE Reseed
  <2>1. /\ openings' = openings /\ opening' = opening /\ panel' = panel /\ text' = 0
        /\ request' = NoRequest
    BY <1>8 DEF Reseed
  <2> QED
    BY <1>0, <2>1, RequestsFit DEF CountsFit
<1>9. CASE UNCHANGED dialogVars
  BY <1>9 DEF dialogVars, CountsFit
<1>10. CASE PageUnmounts
  <2>1. /\ openings' = openings /\ opening' = 0 /\ panel' = 0 /\ text' = 0
        /\ request' = NoRequest
    BY <1>10 DEF PageUnmounts
  <2> QED
    BY <1>0, <2>1, RequestsFit DEF CountsFit
<1> QED
  BY <1>1, <1>2, <1>3, <1>4, <1>5, <1>6, <1>7, <1>8, <1>9, <1>10 DEF DialogNext

\* The dialog stays the same one and its flags stay flags.
LEMMA DialogNamesFit == ASSUME NamesFit, [DialogNext]_dialogVars PROVE NamesFit'
BY DEF NamesFit, DialogNext, dialogVars, Open, Type, Close, PageUnmounts, SendForm, Succeeds,
   Refused, StrayAnswer, Reseed, Lost, Losses

\* The state of a dialog keeps its type: which opening is on the screen, which one the
\* text and the pending request belong to.
THEOREM DialogTypeCorrect == DialogSpec => []DialogTypeOK
<1>1. DialogInit => CountsFit
  BY RequestsFit, OpeningsAssumption DEF DialogInit, CountsFit
<1>2. DialogInit => NamesFit
  BY DEF DialogInit, NamesFit
<1>3. CountsFit /\ NamesFit => DialogTypeOK
  BY DEF CountsFit, NamesFit, DialogTypeOK
<1> QED
  BY <1>1, <1>2, <1>3, DialogStepFits, DialogNamesFit, PTL DEF DialogSpec

-----------------------------------------------------------------------------
(* The search box.                                                          *)

\* The box was last filled from, or written to, the entry that is shown; while
\* another page is shown the entry to return to is remembered.
BoxFollows ==
    /\ here # 0 => /\ left = 0
                   /\ written = history[here]
                   /\ ~timer => Trim(draft) = written
    /\ here = 0 => left \in 1..Len(history)

BoxTypes ==
    /\ history \in Seq(Terms) /\ Len(history) \in 1..MaxEntries
    /\ here \in 0..Len(history)
BoxText == draft \in Drafts /\ written \in Terms /\ timer \in BOOLEAN

BoxInv == BoxTypes /\ BoxText /\ BoxFollows

\* Trimming gives a term that can be searched, and changes no term.
LEMMA TrimIsTerm ==
    /\ \A word \in Drafts : Trim(word) \in Terms
    /\ \A term \in Terms : Trim(term) = term /\ term \in Drafts
BY DEF Drafts, Terms, Trim

\* Following an entry leaves the box with what the entry searches for.
LEMMA FollowsTheTerm ==
    ASSUME BoxInv, here # 0, NEW term \in Terms, Follow(term, written)
    PROVE  /\ written' = term /\ draft' \in Drafts /\ timer' \in BOOLEAN
           /\ ~timer' => Trim(draft') = term
<1>1. CASE term # written
  BY <1>1, TrimIsTerm DEF Follow
<1>2. CASE term = written
  BY <1>2 DEF BoxInv, BoxText, BoxFollows, Follow
<1> QED
  BY <1>1, <1>2

\* A new entry follows the one that is shown; what was ahead of it is dropped.
LEMMA PushKeepsBox ==
    ASSUME BoxInv, NEW term \in Terms, Push(term)
    PROVE  BoxInv'
<1> DEFINE kept == SubSeq(history, 1, here)
<1>1. /\ history \in Seq(Terms) /\ here \in 1..Len(history) /\ Len(history) \in Nat
      /\ here < MaxEntries /\ left = 0
  BY DEF BoxInv, BoxTypes, BoxFollows, Push
<1>2. kept \in Seq(Terms) /\ Len(kept) = here
  <2>1. \A i \in 1..here : history[i] \in Terms
    BY <1>1, ElementOfSeq
  <2> QED
    BY <1>1, <2>1, SubSeqProperties
<1>3. /\ history' = Append(kept, term) /\ here' = here + 1 /\ left' = left
      /\ Follow(term, written)
  BY DEF Push
<1> HIDE DEF kept
<1>4. history' \in Seq(Terms) /\ Len(history') = here + 1 /\ history'[here + 1] = term
  BY <1>1, <1>2, <1>3, AppendProperties
<1>5. /\ written' = term /\ draft' \in Drafts /\ timer' \in BOOLEAN
      /\ ~timer' => Trim(draft') = term
  BY <1>1, <1>3, FollowsTheTerm
<1>6. BoxTypes'
  BY <1>1, <1>3, <1>4, EntriesAssumption DEF BoxTypes
<1>7. BoxText'
  BY <1>5 DEF BoxText
<1>8. BoxFollows'
  BY <1>1, <1>3, <1>4, <1>5 DEF BoxFollows
<1> QED
  BY <1>6, <1>7, <1>8 DEF BoxInv

\* The debounced write (useTableSearch) searches for what is in the box.
LEMMA TickKeepsBox == ASSUME BoxInv, Tick PROVE BoxInv'
<1>1. /\ history \in Seq(Terms) /\ here \in 1..Len(history) /\ left = 0
      /\ Trim(draft) \in Terms
  BY TrimIsTerm DEF BoxInv, BoxTypes, BoxText, BoxFollows, Tick
<1>2. history' = [history EXCEPT ![here] = Trim(draft)]
  BY DEF Tick
<1>3. history' \in Seq(Terms) /\ Len(history') = Len(history) /\ history'[here] = Trim(draft)
  BY <1>1, <1>2, ExceptSeq
<1>4. here' = here /\ left' = left /\ draft' = draft /\ written' = Trim(draft) /\ timer' = FALSE
  BY DEF Tick
<1>5. BoxTypes'
  BY <1>1, <1>3, <1>4 DEF BoxInv, BoxTypes
<1>6. BoxText'
  BY <1>1, <1>4 DEF BoxInv, BoxText
<1>7. BoxFollows'
  BY <1>1, <1>3, <1>4 DEF BoxFollows
<1> QED
  BY <1>5, <1>6, <1>7 DEF BoxInv

\* Every action of the box and of the history keeps the invariant.
LEMMA SearchStepKeepsBox == ASSUME BoxInv, [SearchNext]_searchVars PROVE BoxInv'
<1>0. history \in Seq(Terms) /\ (here # 0 => here \in 1..Len(history))
  BY DEF BoxInv, BoxTypes
<1>1. ASSUME NEW word \in Drafts, TypeTerm(word) PROVE BoxInv'
  <2>1. BoxTypes'
    BY <1>1 DEF BoxInv, BoxTypes, TypeTerm
  <2>2. BoxText' /\ BoxFollows'
    BY <1>1 DEF BoxInv, BoxText, BoxFollows, TypeTerm
  <2> QED
    BY <2>1, <2>2 DEF BoxInv
<1>2. CASE Tick
  BY <1>2, TickKeepsBox
<1>3. ASSUME here # 0, NEW term \in {history[here], ""}, Push(term) PROVE BoxInv'
  <2>1. here \in 1..Len(history) /\ history \in Seq(Terms)
    BY <1>3, <1>0
  <2>2. history[here] \in Terms
    BY <2>1, ElementOfSeq
  <2>3. term \in Terms
    BY <2>2 DEF Terms
  <2> QED
    BY <1>3, <2>3, PushKeepsBox
<1>4. ASSUME NEW to \in {here - 1, here + 1}, Go(to) PROVE BoxInv'
  <2>1. /\ here # 0 /\ to \in 1..Len(history) /\ history \in Seq(Terms) /\ here' = to
        /\ history' = history /\ left' = left
    BY <1>4 DEF BoxInv, BoxTypes, Go
  <2>2. history[to] \in Terms
    BY <2>1, ElementOfSeq
  <2>3. Follow(history[to], written)
    BY <1>4 DEF Go
  <2>4. /\ written' = history[to] /\ draft' \in Drafts /\ timer' \in BOOLEAN
        /\ ~timer' => Trim(draft') = history[to]
    BY <2>1, <2>2, <2>3, FollowsTheTerm
  <2>5. BoxTypes'
    BY <2>1 DEF BoxInv, BoxTypes
  <2>6. BoxText'
    BY <2>2, <2>4 DEF BoxText
  <2>7. BoxFollows'
    BY <2>1, <2>4 DEF BoxInv, BoxFollows
  <2> QED
    BY <2>5, <2>6, <2>7 DEF BoxInv
<1>5. CASE LeaveLists
  <2>1. /\ here \in 1..Len(history) /\ history' = history /\ here' = 0 /\ left' = here
        /\ draft' = draft /\ written' = written /\ timer' = FALSE
    BY <1>5 DEF BoxInv, BoxTypes, LeaveLists
  <2>2. BoxTypes'
    BY <2>1 DEF BoxInv, BoxTypes
  <2>3. BoxText'
    BY <2>1 DEF BoxInv, BoxText
  <2>4. BoxFollows'
    BY <2>1 DEF BoxFollows
  <2> QED
    BY <2>2, <2>3, <2>4 DEF BoxInv
<1>6. CASE Return
  <2>1. left \in 1..Len(history) /\ history \in Seq(Terms)
    BY <1>6 DEF BoxInv, BoxTypes, BoxFollows, Return
  <2>2. history[left] \in Terms
    BY <2>1, ElementOfSeq
  <2>3. /\ history' = history /\ here' = left /\ left' = 0
        /\ draft' = history[left] /\ written' = history[left] /\ timer' = FALSE
    BY <1>6 DEF Return, Mounted
  <2>4. BoxTypes'
    BY <2>1, <2>3 DEF BoxInv, BoxTypes
  <2>5. BoxText'
    BY <2>2, <2>3, TrimIsTerm DEF BoxText
  <2>6. BoxFollows'
    BY <2>1, <2>2, <2>3, TrimIsTerm DEF BoxFollows
  <2> QED
    BY <2>4, <2>5, <2>6 DEF BoxInv
<1>7. CASE UNCHANGED searchVars
  <2>1. BoxTypes'
    BY <1>7 DEF BoxInv, BoxTypes, searchVars
  <2>2. BoxText' /\ BoxFollows'
    BY <1>7 DEF BoxInv, BoxText, BoxFollows, searchVars
  <2> QED
    BY <2>1, <2>2 DEF BoxInv
<1> QED
  BY <1>1, <1>2, <1>3, <1>4, <1>5, <1>6, <1>7 DEF SearchNext

\* The invariant of the search box holds in every reachable state.
THEOREM SearchInvariant == SearchSpec => []BoxInv
<1>1. SearchInit => BoxInv
  <2> SUFFICES ASSUME SearchInit PROVE BoxInv
    OBVIOUS
  <2>1. PICK term \in Terms : history = <<term>> /\ draft = term /\ written = term
    BY DEF SearchInit
  <2>2. history \in Seq(Terms) /\ Len(history) = 1 /\ history[1] = term
    BY <2>1
  <2>3. here = 1 /\ left = 0 /\ timer = FALSE
    BY DEF SearchInit
  <2>4. BoxTypes
    BY <2>2, <2>3, EntriesAssumption DEF BoxTypes
  <2>5. BoxText
    BY <2>1, <2>3, TrimIsTerm DEF BoxText
  <2>6. BoxFollows
    BY <2>1, <2>2, <2>3, TrimIsTerm DEF BoxFollows
  <2> QED
    BY <2>4, <2>5, <2>6 DEF BoxInv
<1> QED
  BY <1>1, SearchStepKeepsBox, PTL DEF SearchSpec

\* The history, the place in it and the draft keep their types.
THEOREM SearchTypeCorrect == SearchSpec => []SearchTypeOK
<1>1. BoxInv => SearchTypeOK
  <2> SUFFICES ASSUME BoxInv PROVE SearchTypeOK
    OBVIOUS
  <2>1. history \in [1..Len(history) -> Terms] /\ Len(history) \in 1..MaxEntries
    BY LenProperties DEF BoxInv, BoxTypes
  <2>2. {here, left} \subseteq 0..Len(history)
    BY <2>1 DEF BoxInv, BoxTypes, BoxFollows
  <2> QED
    BY <2>1, <2>2 DEF SearchTypeOK, BoxInv, BoxText
<1> QED
  BY <1>1, SearchInvariant, PTL

\* The box and the list agree once the debounce has run: going back, forward, leaving and
\* returning never leave a text in the box that the list does not search for.
THEOREM BoxAgreesWithList == SearchSpec => []BoxMatchesSearch
<1>1. BoxInv => BoxMatchesSearch
  BY DEF BoxInv, BoxFollows, BoxMatchesSearch
<1> QED
  BY <1>1, SearchInvariant, PTL

\* What is being typed is not replaced when the debounce writes it to the address.
THEOREM TypingIsNeverOverwritten == SearchSpec => TypingIsKept
<1>1. BoxInv /\ [SearchNext]_searchVars
      => [here # 0 /\ timer /\ ~timer' /\ here' = here => draft' = draft]_searchVars
  <2> SUFFICES ASSUME BoxInv, SearchNext, here # 0, ~timer', here' = here PROVE draft' = draft
    BY DEF searchVars
  <2>1. here \in Nat
    BY DEF BoxInv, BoxTypes
  <2>2. ASSUME NEW word, TypeTerm(word) PROVE FALSE
    BY <2>2 DEF TypeTerm
  <2>3. ASSUME NEW term, Push(term) PROVE FALSE
    BY <2>1, <2>3 DEF Push
  <2>4. ASSUME NEW to \in {here - 1, here + 1}, Go(to) PROVE FALSE
    BY <2>1, <2>4 DEF Go
  <2> QED
    BY <2>2, <2>3, <2>4 DEF SearchNext, Tick, LeaveLists, Return
<1> QED
  BY <1>1, SearchInvariant, PTL DEF SearchSpec, TypingIsKept

-----------------------------------------------------------------------------
(* The lists and their filters.                                             *)

Directions == {"asc", "desc"}

\* Every sort a click can ask for has an option of the select, or is one of the gaps.
OffersAll(sorting, gaps) ==
    /\ sorting.default \in sorting.options
    /\ \A h \in sorting.headers : \A dir \in Directions : By(h.field, dir) \in sorting.options \cup gaps
    /\ sorting.headers \subseteq sorting.options \cup gaps

\* Every sort has a direction.
Directed(sorting) ==
    /\ sorting.default.dir \in Directions
    /\ \A s \in sorting.options \cup sorting.headers : s.dir \in Directions

\* A filter of the list is one the page shows, and its empty text knows, unless the
\* list is excepted; the page shows no other.
FiltersShown(p) ==
    /\ \A f \in Lists[p].narrows :
          /\ <<p, f>> \notin NotControlled => f \in Lists[p].controls
          /\ <<p, f>> \notin NotMentioned => f \in Lists[p].says
    /\ Lists[p].controls \subseteq Lists[p].narrows

\* A table offers all when each of its columns is there both ways.
LEMMA ColumnsOffered ==
    ASSUME NEW asc, NEW desc, NEW options, NEW default \in options, NEW gaps,
           \A f \in asc \cup desc : \A dir \in Directions : By(f, dir) \in options \cup gaps
    PROVE  OffersAll(Sorting(asc, desc, options, default), gaps)
<1> DEFINE s == Sorting(asc, desc, options, default)
<1>1. /\ s.options = options /\ s.default = default
      /\ s.headers = {By(f, "asc") : f \in asc} \cup {By(f, "desc") : f \in desc}
  BY DEF Sorting
<1>2. \A h \in s.headers :
          h \in options \cup gaps /\ \A dir \in Directions : By(h.field, dir) \in options \cup gaps
  BY <1>1 DEF By, Directions
<1> QED
  BY <1>1, <1>2 DEF OffersAll

\* Both directions of a field are in the set made of both directions.
LEMMA BothDirections ==
    ASSUME NEW fields PROVE \A f \in fields : \A dir \in Directions : By(f, dir) \in Both(fields)
BY DEF By, Both, Directions

\* On every list a click on a header gives a sort the select offers, or a named gap.
LEMMA HeadersAreOffered ==
    ASSUME NEW p \in DOMAIN Lists
    PROVE  OffersAll(Sorts[p], Unlabelled[p])
<1>0. "asc" \in Directions /\ "desc" \in Directions /\ \A dir \in Directions : dir = "asc" \/ dir = "desc"
  BY DEF Directions
<1>1. CASE p = "finances"
  <2>1. Sorts[p] = FinancesSorts /\ Unlabelled[p] = {}
    BY <1>1 DEF Sorts, Unlabelled
  <2>2. \A f \in {"created_at", "full_name", "mandal_village", "status", "approval_date"} :
           By(f, "asc") \in Both({"created_at", "full_name", "mandal_village", "status", "approval_date"})
           /\ By(f, "desc") \in Both({"created_at", "full_name", "mandal_village", "status", "approval_date"})
    BY <1>0, BothDirections
  <2> QED
    BY <1>0, <2>1, <2>2, ColumnsOffered DEF FinancesSorts
<1>2. CASE p = "customers"
  <2>1. Sorts[p] = CustomersSorts /\ Unlabelled[p] = {}
    BY <1>2 DEF Sorts, Unlabelled
  <2>2. \A f \in {"created_at", "full_name", "assigned_employee_name"} :
           By(f, "asc") \in Both({"created_at", "full_name", "assigned_employee_name"})
           /\ By(f, "desc") \in Both({"created_at", "full_name", "assigned_employee_name"})
    BY <1>0, BothDirections
  <2> QED
    BY <1>0, <2>1, <2>2, ColumnsOffered DEF CustomersSorts
<1>3. CASE p \in {"team", "writtenOff"}
  <2>1. Sorts[p] = Unsorted /\ Unlabelled[p] = {}
    BY <1>3 DEF Sorts, WrittenOffTable, Unlabelled
  <2> QED
    BY <2>1, ColumnsOffered DEF Unsorted
<1>4. CASE p = "vehicles"
  <2>1. Sorts[p] = VehiclesSorts /\ Unlabelled[p] = {By("status", "desc")}
    BY <1>4 DEF Sorts, Unlabelled
  <2>2. \A f \in {"created_at", "plate_number", "make", "year", "market_value"} :
           By(f, "asc") \in Both({"created_at", "plate_number", "make", "year", "market_value"})
           /\ By(f, "desc") \in Both({"created_at", "plate_number", "make", "year", "market_value"})
    BY <1>0, BothDirections
  <2> QED
    BY <1>0, <2>1, <2>2, ColumnsOffered DEF VehiclesSorts
<1>5. CASE p = "cycles"
  <2>1. /\ Sorts[p] = CycleSorts
        /\ Unlabelled[p] = {By(f, "desc") : f \in {"customer_name", "loan", "cycle_number", "cycle_status"}}
    BY <1>5 DEF Sorts, Unlabelled
  <2>2. \A f \in {"due_date", "shortfall"} :
           By(f, "asc") \in Both({"due_date", "shortfall"})
           /\ By(f, "desc") \in Both({"due_date", "shortfall"})
    BY <1>0, BothDirections
  <2> QED
    BY <1>0, <2>1, <2>2, ColumnsOffered DEF CycleSorts, CycleSortOptions
<1>6. CASE p = "confirmations"
  <2>1. /\ Sorts[p] = ConfirmationSorts
        /\ Unlabelled[p] = {By(f, "asc") : f \in {"amount", "effective_payment_date"}}
                            \cup {By(f, "desc") : f \in {"customer_name", "loan"}}
    BY <1>6 DEF Sorts, Unlabelled
  <2>2. \A f \in {"created_at"} :
           By(f, "asc") \in Both({"created_at"})
           /\ By(f, "desc") \in Both({"created_at"})
    BY <1>0, BothDirections
  <2> QED
    BY <1>0, <2>1, <2>2, ColumnsOffered DEF ConfirmationSorts
<1>7. CASE p = "proposals"
  <2>1. /\ Sorts[p] = ProposalSorts
        /\ Unlabelled[p] = {By("principal", "asc"), By("customer_name", "desc"), By("loan", "desc")}
    BY <1>7 DEF Sorts, Unlabelled
  <2>2. \A f \in {"proposed_at"} :
           By(f, "asc") \in Both({"proposed_at"})
           /\ By(f, "desc") \in Both({"proposed_at"})
    BY <1>0, BothDirections
  <2> QED
    BY <1>0, <2>1, <2>2, ColumnsOffered DEF ProposalSorts
<1>8. CASE p = "candidates"
  <2>1. /\ Sorts[p] = CandidateSorts
        /\ Unlabelled[p] = {By(f, "asc") : f \in {"days_overdue", "shortfall"}}
                            \cup {By(f, "desc") : f \in {"customer_name", "loan"}}
    BY <1>8 DEF Sorts, Unlabelled
  <2> QED
    BY <1>0, <2>1, ColumnsOffered, BothDirections DEF CandidateSorts
<1> QED
  BY <1>1, <1>2, <1>3, <1>4, <1>5, <1>6, <1>7, <1>8 DEF Lists

\* Every list has its table of sorts.
LEMMA PlacesSorted == DOMAIN Sorts = DOMAIN Lists
BY DEF Sorts, Lists

\* A table made of fields has a direction for each of its sorts.
LEMMA SortingDirected ==
    ASSUME NEW asc, NEW desc, NEW options, NEW default,
           default.dir \in Directions, \A s \in options : s.dir \in Directions
    PROVE  Directed(Sorting(asc, desc, options, default))
BY DEF Sorting, Directed, By, Directions

\* Every sort of every list has a direction.
LEMMA SortsAreDirected == ASSUME NEW p \in DOMAIN Lists PROVE Directed(Sorts[p])
<1>0. /\ \A f, dir : By(f, dir).dir = dir
      /\ \A fields : \A s \in Both(fields) : s.dir \in Directions
      /\ {"asc", "desc"} = Directions
  BY DEF By, Both, Directions
<1>1. CASE p = "finances"
  BY <1>0, <1>1, SortingDirected DEF Sorts, FinancesSorts
<1>2. CASE p = "customers"
  BY <1>0, <1>2, SortingDirected DEF Sorts, CustomersSorts
<1>3. CASE p = "vehicles"
  BY <1>0, <1>3, SortingDirected DEF Sorts, VehiclesSorts
<1>4. CASE p \in {"team", "writtenOff"}
  BY <1>0, <1>4, SortingDirected DEF Sorts, Unsorted, WrittenOffTable
<1>5. CASE p = "cycles"
  BY <1>0, <1>5, SortingDirected DEF Sorts, CycleSorts, CycleSortOptions
<1>6. CASE p = "confirmations"
  BY <1>0, <1>6, SortingDirected DEF Sorts, ConfirmationSorts
<1>7. CASE p = "proposals"
  BY <1>0, <1>7, SortingDirected DEF Sorts, ProposalSorts
<1>8. CASE p = "candidates"
  BY <1>0, <1>8, SortingDirected DEF Sorts, CandidateSorts
<1> QED
  BY <1>1, <1>2, <1>3, <1>4, <1>5, <1>6, <1>7, <1>8 DEF Lists

\* Every filter of every list has a control on its page and a word in its empty text, but
\* for the named exceptions.
LEMMA FiltersHaveControls == ASSUME NEW p \in DOMAIN Lists PROVE FiltersShown(p)
<1>1. CASE p = "finances"
  BY <1>1 DEF FiltersShown, Lists, List, FinancesQuery, FinancesToolbar, FinancesEmpty
<1>2. CASE p = "customers"
  BY <1>2 DEF FiltersShown, Lists, List, CustomersQuery, CustomersToolbar, CustomersEmpty
<1>3. CASE p = "vehicles"
  BY <1>3 DEF FiltersShown, Lists, List, VehiclesQuery, VehiclesToolbar, VehiclesEmpty,
     NotMentioned
<1>4. CASE p = "team"
  BY <1>4 DEF FiltersShown, Lists, List, TeamQuery, TeamToolbar, TeamEmpty
<1>5. CASE p = "cycles"
  BY <1>5 DEF FiltersShown, Lists, List, CyclesQuery, CycleToolbar, CyclesEmpty
<1>6. CASE p = "confirmations"
  BY <1>6 DEF FiltersShown, Lists, List, ConfirmationsQuery, ConfirmationsEmpty, NotMentioned
<1>7. CASE p = "proposals"
  BY <1>7 DEF FiltersShown, Lists, List, ProposalsQuery, NotMentioned
<1>8. CASE p = "candidates"
  BY <1>8 DEF FiltersShown, Lists, List, CandidatesQuery, NotMentioned, NotControlled
<1>9. CASE p = "writtenOff"
  BY <1>9 DEF FiltersShown, Lists, List, WrittenOffTable, NotMentioned, NotControlled
<1> QED
  BY <1>1, <1>2, <1>3, <1>4, <1>5, <1>6, <1>7, <1>8, <1>9 DEF Lists

FilterInv == FilterTypeOK /\ SortIsOffered

\* Every change of a filter, of a sort or of the page keeps the invariant.
LEMMA FilterStepKeeps == ASSUME FilterInv, [FilterNext]_filterVars PROVE FilterInv'
<1>1. ASSUME NEW p \in DOMAIN Lists, OpenList(p) PROVE FilterInv'
  <2>1. order' = Sorts[p].default /\ place' = p /\ on' \in Links[p]
    BY <1>1 DEF OpenList
  <2>2. on' \subseteq UNION {Lists[list].narrows : list \in DOMAIN Lists}
    <3>1. on' \subseteq Lists["finances"].narrows
      BY <2>1 DEF Links, Lists, List, FinancesQuery
    <3>2. "finances" \in DOMAIN Lists
      BY DEF Lists
    <3> QED
      BY <3>1, <3>2
  <2>3. order'.dir \in {"asc", "desc"}
    BY <1>1, <2>1, SortsAreDirected DEF Directed, Directions
  <2>4. SortIsOffered'
    BY <2>1, HeadersAreOffered DEF FilterInv, FilterTypeOK, SortIsOffered, OffersAll
  <2> QED
    BY <1>1, <2>1, <2>2, <2>3, <2>4 DEF FilterInv, FilterTypeOK
<1>2. ASSUME NEW p \in DOMAIN Lists, SwitchLens(p) PROVE FilterInv'
  <2>1. /\ place' = p /\ p \in Lenses /\ on' = on
        /\ order' \in {Sorts[p].default} \cup Sorts[p].options
                      \cup {By(h.field, dir) : h \in Sorts[p].headers, dir \in {"asc", "desc"}}
    BY <1>2 DEF SwitchLens
  <2>2. order'.dir \in {"asc", "desc"}
    BY <1>2, <2>1, SortsAreDirected DEF Directed, Directions, By
  <2>3. SortIsOffered'
    BY <2>1, HeadersAreOffered DEF SortIsOffered, OffersAll, Directions
  <2> QED
    BY <1>2, <2>1, <2>2, <2>3 DEF FilterInv, FilterTypeOK
<1>3. ASSUME NEW p \in Lists[place].controls, Pick(p) \/ Clear(p) PROVE FilterInv'
  <2>1. place' = place /\ order' = order /\ on' \subseteq on \cup {p}
    BY <1>3 DEF Pick, Clear
  <2>2. place \in DOMAIN Lists /\ Lists[place].controls \subseteq Lists[place].narrows
    BY FiltersHaveControls DEF FilterInv, FilterTypeOK, FiltersShown
  <2>3. on' \subseteq UNION {Lists[list].narrows : list \in DOMAIN Lists}
    BY <1>3, <2>1, <2>2 DEF FilterInv, FilterTypeOK
  <2> QED
    BY <2>1, <2>3 DEF FilterInv, FilterTypeOK, SortIsOffered
<1>4. ASSUME NEW h \in Sorts[place].headers, HeaderClick(h) PROVE FilterInv'
  <2>1. /\ place' = place /\ on' = on
        /\ order' = h \/ \E dir \in Directions : order' = By(h.field, dir)
    BY <1>4 DEF HeaderClick, Flip, Directions
  <2>2. order'.dir \in {"asc", "desc"}
    BY <2>1, SortsAreDirected DEF FilterInv, FilterTypeOK, Directed, Directions, By
  <2>3. SortIsOffered'
    BY <2>1, HeadersAreOffered DEF FilterInv, FilterTypeOK, SortIsOffered, OffersAll
  <2> QED
    BY <2>1, <2>2, <2>3 DEF FilterInv, FilterTypeOK
<1>5. ASSUME NEW option \in Sorts[place].options, SelectSort(option) PROVE FilterInv'
  BY <1>5, SortsAreDirected DEF SelectSort, FilterInv, FilterTypeOK, SortIsOffered, Directed,
     Directions
<1>6. CASE UNCHANGED filterVars
  BY <1>6 DEF filterVars, FilterInv, FilterTypeOK, SortIsOffered
<1> QED
  BY <1>1, <1>2, <1>3, <1>4, <1>5, <1>6 DEF FilterNext

\* The invariant of the lists holds in every reachable state.
THEOREM FilterInvariant == FilterSpec => []FilterInv
<1>1. FilterInit => FilterInv
  <2> SUFFICES ASSUME FilterInit PROVE FilterInv
    OBVIOUS
  <2>1. place \in DOMAIN Lists /\ order = Sorts[place].default
    BY DEF FilterInit
  <2>2. on \subseteq Lists["finances"].narrows /\ "finances" \in DOMAIN Lists
    BY <2>1 DEF FilterInit, Links, Lists, List, FinancesQuery
  <2>3. order.dir \in {"asc", "desc"}
    BY <2>1, SortsAreDirected DEF Directed, Directions
  <2>4. SortIsOffered
    BY <2>1, HeadersAreOffered DEF FilterInv, FilterTypeOK, SortIsOffered, OffersAll
  <2> QED
    BY <2>1, <2>2, <2>3, <2>4 DEF FilterInv, FilterTypeOK
<1> QED
  BY <1>1, FilterStepKeeps, PTL DEF FilterSpec

\* The filters that are on belong to the list that is shown, and its sort is a sort.
THEOREM FilterTypeCorrect == FilterSpec => []FilterTypeOK
BY FilterInvariant, PTL DEF FilterInv

\* On each of the nine lists the sort in force is one the select has a label for, or one of
\* the named sorts it has none for, whatever clicks on headers, choices and links led to it.
THEOREM SortsCanBeLabelled == FilterSpec => []SortIsOffered
BY FilterInvariant, PTL DEF FilterInv

\* A filter that narrows a list has a control on its page and is named when the list is
\* empty, but for the lists that are named: the user sees why rows are missing.
THEOREM FiltersCanBeCleared == FilterSpec => []FiltersAreSeen
<1>1. FilterInv => FiltersAreSeen
  BY FiltersHaveControls DEF FilterInv, FilterTypeOK, FiltersAreSeen, FiltersShown
<1> QED
  BY <1>1, FilterInvariant, PTL

-----------------------------------------------------------------------------
(* The forms that edit a record.                                            *)

\* The fields stay the same ones, and a request names no other.
EditTypes ==
    /\ editor \in DOMAIN FieldsOf
    /\ Fields \subseteq FieldsOf[editor]
    /\ DOMAIN form = Fields
    /\ save # NoSave => /\ save.stage \in {"sent", "ok"}
                        /\ DOMAIN save.payload \subseteq Fields

\* A field nobody has set shows what the form started from, or nothing.
StillAsItStarted(f) ==
    IF f = "pan" \/ editor = "CustomerInfoCard"
    THEN form[f] = Blank
    ELSE (editor = "EditForm" /\ f = "assignee") \/ form[f] = base[f]

EditInv ==
    /\ EditTypes
    /\ open => \A f \in Fields \ typed : StillAsItStarted(f)

\* Which fields the small forms have.
LEMMA EditorFields ==
    /\ "pan" \notin FieldsOf["FinancialsForm"]
    /\ FieldsOf["OrganizationCard"] = {"name"}
    /\ FieldsOf["RelationshipEditor"] = {"remarks"}
    /\ DOMAIN FieldsOf = {"CustomerEditForm", "EditForm", "CustomerInfoCard", "PersonnelEditForm",
                          "VehicleEditForm", "FinanceEditForm", "FinancialsForm",
                          "AssignmentForm", "OrganizationCard", "RelationshipEditor"}
BY DEF FieldsOf

\* A request has a stage, so it is not the absence of one.
LEMMA NoSaveStage == NoSave.stage = "none" /\ \A s : s.stage # "none" => s # NoSave
BY DEF NoSave

\* Opening starts every field from the copy and forgets what was typed.
LEMMA OpenFormKeeps == ASSUME EditInv, OpenForm PROVE EditInv'
BY DEF EditInv, EditTypes, StillAsItStarted, OpenForm, Seed, StartsBlank, Fields

\* A keystroke marks its field.
LEMMA SetFieldKeeps == ASSUME EditInv, NEW f \in Fields, NEW v, SetField(f, v) PROVE EditInv'
BY DEF EditInv, EditTypes, StillAsItStarted, SetField, Fields

\* The assignee filled in by the loader of staff is excepted by the invariant.
LEMMA FillAssigneeKeeps == ASSUME EditInv, FillAssignee PROVE EditInv'
BY DEF EditInv, EditTypes, StillAsItStarted, FillAssignee, Fields

\* Leaving shuts the form or starts it again.
LEMMA LeaveFormKeeps == ASSUME EditInv, LeaveForm PROVE EditInv'
<1>1. /\ UNCHANGED <<editor, server>> /\ open' = FALSE /\ form' = Nothing
      /\ save' = IF save.stage = "none" THEN save ELSE [save EXCEPT !.heard = FALSE]
  BY DEF LeaveForm, Shut
<1>2. DOMAIN form' = Fields'
  BY <1>1 DEF Nothing, Fields
<1>3. save' # NoSave => save'.stage \in {"sent", "ok"} /\ DOMAIN save'.payload \subseteq Fields
  BY <1>1, NoSaveStage DEF EditInv, EditTypes
<1> QED
  BY <1>1, <1>2, <1>3 DEF EditInv, EditTypes, Fields

\* What is sent are fields of the record.
LEMMA SentAreFields == ASSUME EditInv PROVE FieldsSent \subseteq Fields
BY EditorFields DEF EditInv, EditTypes, FieldsSent, DiffOfCustomer, DiffOfPerson, DiffOfVehicle,
   DiffOfTerms, DiffOfAssignment, DiffOfCustomerPage, AllTerms, MissingDetails, ForRole, Changed,
   NewNumber

\* What is sent are fields of the form.
LEMMA SaveFormKeeps == ASSUME EditInv, SaveForm PROVE EditInv'
<1>1. CASE FieldsSent # {}
  <2>1. /\ save'.stage = "sent" /\ DOMAIN save'.payload = FieldsSent
        /\ UNCHANGED <<editor, server, open, base, form, typed>>
    BY <1>1 DEF SaveForm
  <2> QED
    BY <2>1, SentAreFields DEF EditInv, EditTypes, StillAsItStarted, Fields
<1>2. CASE FieldsSent = {}
  BY <1>2 DEF SaveForm, Shut, Nothing, EditInv, EditTypes, Fields
<1> QED
  BY <1>1, <1>2

\* The write changes the record, never the form.
LEMMA WriteKeeps == ASSUME EditInv, Write PROVE EditInv'
<1>1. /\ UNCHANGED <<editor, open, base, form, typed>>
      /\ save # NoSave /\ server' = Patched(server, save.payload)
      /\ save' = [save EXCEPT !.stage = "ok"]
  BY NoSaveStage DEF Write
<1>2. Fields' = Fields
  BY <1>1 DEF EditInv, EditTypes, Fields, Patched
<1>3. save'.payload = save.payload /\ (save' # NoSave => save'.stage = "ok")
  BY <1>1
<1> QED
  BY <1>1, <1>2, <1>3 DEF EditInv, EditTypes, StillAsItStarted

\* The answer shuts the form or seeds it again.
LEMMA AcceptedKeeps == ASSUME EditInv, Accepted PROVE EditInv'
<1>1. save # NoSave /\ save' = NoSave /\ UNCHANGED <<editor, server>>
  BY NoSaveStage DEF Accepted
<1>2. CASE UNCHANGED <<open, base, form, typed>>
  BY <1>1, <1>2 DEF EditInv, EditTypes, StillAsItStarted, Fields
<1>3. CASE Shut
  BY <1>1, <1>3 DEF EditInv, EditTypes, Shut, Nothing, Fields
<1>4. CASE /\ editor = "FinancialsForm"
           /\ open' = open /\ form' = Patched(Nothing, save.payload) /\ base' = form' /\ typed' = {}
  <2>1. DOMAIN form' = Fields
    BY <1>1, <1>4 DEF EditInv, EditTypes, Nothing, Patched
  <2>2. "pan" \notin Fields
    BY <1>4, EditorFields DEF EditInv, EditTypes
  <2> QED
    BY <1>1, <1>4, <2>1, <2>2 DEF EditInv, EditTypes, StillAsItStarted, Fields
<1> QED
  BY <1>2, <1>3, <1>4 DEF Accepted

\* A new copy re-seeds only what the form follows.
LEMMA RefreshKeeps == ASSUME EditInv, Refresh PROVE EditInv'
<1>1. CASE open /\ editor = "OrganizationCard"
  <2>1. Fields \subseteq {"name"}
    BY <1>1, EditorFields DEF EditInv, EditTypes
  <2>2. /\ UNCHANGED <<editor, server, open, typed, save>>
        /\ form' = [f \in Fields |-> IF f \in typed THEN form[f] ELSE copy'[f]] /\ base' = copy'
    BY <1>1 DEF Refresh
  <2> QED
    BY <1>1, <2>1, <2>2 DEF EditInv, EditTypes, StillAsItStarted, Fields
<1>2. CASE ~(open /\ editor = "OrganizationCard")
  BY <1>2 DEF EditInv, EditTypes, StillAsItStarted, Refresh, Fields
<1> QED
  BY <1>1, <1>2

\* Every action of an edit form, and a write of another user, keeps the invariant.
LEMMA EditStepKeeps == ASSUME EditInv, [EditNext]_editVars PROVE EditInv'
<1>1. CASE Fail
  BY <1>1 DEF Fail, EditInv, EditTypes, StillAsItStarted, Fields
<1>2. ASSUME NEW f \in Fields, NEW v, WrittenElsewhere(f, v) PROVE EditInv'
  BY <1>2 DEF WrittenElsewhere, EditInv, EditTypes, StillAsItStarted, Fields
<1>3. CASE UNCHANGED editVars
  BY <1>3 DEF editVars, EditInv, EditTypes, StillAsItStarted, Fields
<1> QED
  BY <1>1, <1>2, <1>3, OpenFormKeeps, FillAssigneeKeeps, LeaveFormKeeps, SaveFormKeeps, WriteKeeps,
     AcceptedKeeps, RefreshKeeps, SetFieldKeeps DEF EditNext

\* The invariant of the edit forms holds in every reachable state.
THEOREM EditInvariant == EditSpec => []EditInv
<1>1. EditInit => EditInv
  BY DEF EditInit, EditInv, EditTypes, Nothing, Fields
<1> QED
  BY <1>1, EditStepKeeps, PTL DEF EditSpec

ChosenOrMoved(f) ==
    \/ f \in typed
    \/ base[f] # copy[f] /\ form[f] = base[f]
    \/ editor \in {"FinancialsForm", "RelationshipEditor"} /\ form[f] = copy[f]

\* A field that goes into the request was typed, or its start was not the copy, or the
\* form always sends it and it is what the copy holds.
LEMMA SentAreChosen ==
    ASSUME EditInv, open, MayBeSent, NEW f \in FieldsSent
    PROVE  ChosenOrMoved(f)
<1> SUFFICES ASSUME f \notin typed PROVE ChosenOrMoved(f)
  BY DEF ChosenOrMoved
<1>1. StillAsItStarted(f) /\ f \in Fields
  BY SentAreFields DEF EditInv
<1>2. CASE editor \in {"CustomerEditForm", "PersonnelEditForm", "VehicleEditForm",
                       "FinanceEditForm", "AssignmentForm"}
  <2>1. f \in Changed \cup NewNumber
    BY <1>2 DEF FieldsSent, DiffOfCustomer, DiffOfPerson, DiffOfVehicle, DiffOfTerms,
       DiffOfAssignment, ForRole
  <2> QED
    BY <1>1, <1>2, <2>1 DEF Changed, NewNumber, StillAsItStarted, ChosenOrMoved
<1>3. CASE editor = "EditForm"
  <2>1. f \in (Changed \ {"assignee"}) \cup NewNumber
    BY <1>3 DEF FieldsSent, DiffOfCustomerPage, ForRole
  <2> QED
    BY <1>1, <1>3, <2>1 DEF Changed, NewNumber, StillAsItStarted, ChosenOrMoved
<1>4. CASE editor \in {"FinancialsForm", "RelationshipEditor"}
  <2>1. f # "pan"
    BY <1>1, <1>4, EditorFields DEF EditInv, EditTypes
  <2> QED
    BY <1>1, <1>4, <2>1 DEF StillAsItStarted, ChosenOrMoved
<1>5. CASE editor = "CustomerInfoCard"
  <2>1. form[f] # Blank
    BY <1>5 DEF MayBeSent, FieldsSent
  <2> QED
    BY <1>1, <1>5, <2>1 DEF StillAsItStarted
<1>6. CASE editor = "OrganizationCard"
  <2>1. f = "name" /\ Changed \subseteq {"name"} /\ Changed # {}
    BY <1>1, <1>6, EditorFields DEF EditInv, EditTypes, Changed, MayBeSent
  <2>2. form[f] # copy[f]
    BY <2>1 DEF Changed
  <2> QED
    BY <1>1, <1>6, <2>1, <2>2 DEF StillAsItStarted, ChosenOrMoved
<1> QED
  BY <1>2, <1>3, <1>4, <1>5, <1>6, EditorFields DEF EditInv, EditTypes

\* A save names a field the user left alone only if the record was read again with another
\* value while the form was open, and then sends the old value, or in a form that always
\* sends everything and shows what was read: for any number of writes by others (the diffs
\* of the edit forms).
THEOREM UntouchedFieldsSentOnlyAfterRefetch == EditSpec => OnlyChosenIsSent
<1>1. ASSUME EditInv, EditNext, save = NoSave, save' # NoSave, NEW f \in DOMAIN save'.payload
      PROVE  ChosenOrMoved(f)
  <2>1. save.stage = "none"
    BY <1>1, NoSaveStage
  <2>2. SaveForm
    BY <1>1, <2>1 DEF EditNext, OpenForm, FillAssignee, LeaveForm, Write, Fail, Accepted, Refresh,
       SetField, WrittenElsewhere
  <2>3. open /\ MayBeSent /\ save'.payload = [g \in FieldsSent |-> form[g]]
    <3>1. FieldsSent # {}
      BY <1>1, <2>2 DEF SaveForm
    <3> QED
      BY <2>2, <3>1 DEF SaveForm
  <2> QED
    BY <1>1, <2>3, SentAreChosen
<1>2. EditInv /\ [EditNext]_editVars
      => [save = NoSave /\ save' # NoSave =>
             \A f \in DOMAIN save'.payload :
                 \/ f \in typed
                 \/ base[f] # copy[f] /\ form[f] = base[f]
                 \/ /\ editor \in {"FinancialsForm", "RelationshipEditor"}
                    /\ form[f] = copy[f]]_editVars
  BY <1>1 DEF ChosenOrMoved
<1> QED
  BY <1>2, EditInvariant, PTL DEF EditSpec, OnlyChosenIsSent

\* What a field can hold: a form that is closed shows nothing.
Good(f) == Values(f) \cup {Mask}

FieldsHoldValues ==
    /\ DOMAIN copy = Fields /\ DOMAIN base = Fields
    /\ \A f \in Fields :
          /\ server[f] \in Good(f) /\ copy[f] \in Good(f)
          /\ base[f] \in Good(f) \cup {Blank} /\ form[f] \in Good(f) \cup {Blank}
          /\ open => form[f] \in Good(f)
    /\ typed \subseteq Fields
    /\ admin \in BOOLEAN /\ open \in BOOLEAN

RequestsHoldValues ==
    save # NoSave =>
        /\ \A f \in DOMAIN save.payload : save.payload[f] \in Good(f)
        /\ editor = "FinancialsForm" => Fields \ {"remarks"} \subseteq DOMAIN save.payload

EditTypeInv == EditInv /\ FieldsHoldValues /\ RequestsHoldValues

\* What a form shows of a copy is a value of the field or the mask of a PAN.
LEMMA ShownIsGood ==
    ASSUME NEW rec, \A f \in DOMAIN rec : rec[f] \in Good(f)
    PROVE  DOMAIN Shown(rec) = DOMAIN rec /\ \A f \in DOMAIN rec : Shown(rec)[f] \in Good(f)
BY DEF Shown, Good

\* Every field but the name may be blank.
LEMMA BlankIsGood == \A f : f # "name" => Blank \in Good(f)
BY DEF Good, Values

\* Opening shows values of the copy.
LEMMA OpenFormTypes == ASSUME EditTypeInv, OpenForm PROVE FieldsHoldValues' /\ RequestsHoldValues'
<1>1. \A f \in Fields : StartsBlank(f) => f # "name"
  BY DEF StartsBlank, EditTypeInv, EditInv, EditTypes, FieldsOf
<1>2. DOMAIN Seed = Fields /\ \A f \in Fields : Seed[f] \in Good(f)
  BY <1>1, BlankIsGood DEF EditTypeInv, FieldsHoldValues, Seed
<1>3. /\ UNCHANGED <<editor, admin, server, copy, save>>
      /\ open' = TRUE /\ base' = copy /\ form' = Seed /\ typed' = {}
  BY DEF OpenForm
<1>4. Fields' = Fields
  BY <1>3 DEF Fields
<1> QED
  BY <1>2, <1>3, <1>4 DEF EditTypeInv, FieldsHoldValues, RequestsHoldValues, Good

\* Typing gives a field one of its values.
LEMMA SetFieldTypes ==
    ASSUME EditTypeInv, NEW g \in Fields, NEW v \in Values(g), SetField(g, v)
    PROVE  FieldsHoldValues' /\ RequestsHoldValues'
<1>1. /\ UNCHANGED <<editor, admin, server, copy, open, base, save>>
      /\ form' = [form EXCEPT ![g] = v] /\ typed' = typed \cup {g}
  BY DEF SetField
<1>2. Fields' = Fields
  BY <1>1 DEF Fields
<1> QED
  BY <1>1, <1>2 DEF EditTypeInv, EditInv, EditTypes, FieldsHoldValues, RequestsHoldValues, Good

\* The assignee that is filled in is one of the values.
LEMMA FillAssigneeTypes ==
    ASSUME EditTypeInv, FillAssignee
    PROVE  FieldsHoldValues' /\ RequestsHoldValues'
<1>1. /\ UNCHANGED <<editor, admin, server, copy, open, base, typed, save>>
      /\ "assignee" \in Fields
      /\ form' = [form EXCEPT !["assignee"] = copy["assignee"]]
  BY DEF FillAssignee
<1>2. Fields' = Fields
  BY <1>1 DEF Fields
<1> QED
  BY <1>1, <1>2 DEF EditTypeInv, EditInv, EditTypes, FieldsHoldValues, RequestsHoldValues, Good

\* A form that is shut keeps the record, the copy and the request's fields.
LEMMA ShutTypes ==
    ASSUME EditTypeInv, Shut, UNCHANGED <<editor, admin, server, copy>>
    PROVE  FieldsHoldValues'
<1>1. Fields' = Fields
  BY DEF Fields
<1> QED
  BY <1>1 DEF Shut, Nothing, EditTypeInv, FieldsHoldValues, Good

\* Leaving empties the form or fills it from the copy.
LEMMA LeaveFormTypes ==
    ASSUME EditTypeInv, LeaveForm
    PROVE  FieldsHoldValues' /\ RequestsHoldValues'
<1>1. FieldsHoldValues'
  BY ShutTypes DEF LeaveForm
<1>2. /\ UNCHANGED <<editor, server>>
      /\ save' = IF save.stage = "none" THEN save ELSE [save EXCEPT !.heard = FALSE]
  BY DEF LeaveForm
<1>3. Fields' = Fields
  BY <1>2 DEF Fields
<1>4. CASE save.stage = "none"
  BY <1>1, <1>2, <1>3, <1>4 DEF EditTypeInv, RequestsHoldValues
<1>5. CASE save.stage # "none"
  <2>1. save # NoSave /\ save'.payload = save.payload
    BY <1>2, <1>5, NoSaveStage
  <2> QED
    BY <1>1, <1>2, <1>3, <2>1 DEF EditTypeInv, RequestsHoldValues
<1> QED
  BY <1>4, <1>5

\* A payload holds what the form holds.
LEMMA SaveFormTypes ==
    ASSUME EditTypeInv, SaveForm
    PROVE  FieldsHoldValues' /\ RequestsHoldValues'
<1>1. CASE FieldsSent # {}
  <2>1. /\ save'.payload = [f \in FieldsSent |-> form[f]] /\ open
        /\ UNCHANGED <<editor, admin, server, copy, open, base, form, typed>>
    BY <1>1 DEF SaveForm
  <2>2. Fields' = Fields
    BY <2>1 DEF Fields
  <2>3. FieldsSent \subseteq Fields
    BY SentAreFields DEF EditTypeInv
  <2>4. editor = "FinancialsForm" => Fields \ {"remarks"} \subseteq FieldsSent
    BY DEF FieldsSent, AllTerms
  <2>5. RequestsHoldValues'
    BY <2>1, <2>2, <2>3, <2>4 DEF EditTypeInv, FieldsHoldValues, RequestsHoldValues, Good
  <2>6. FieldsHoldValues'
    BY <2>1, <2>2 DEF EditTypeInv, FieldsHoldValues, Good
  <2> QED
    BY <2>5, <2>6
<1>2. CASE FieldsSent = {}
  <2>1. Shut /\ UNCHANGED <<editor, admin, server, copy, save>>
    BY <1>2 DEF SaveForm
  <2>2. Fields' = Fields
    BY <2>1 DEF Fields
  <2> QED
    BY <2>1, <2>2, ShutTypes DEF EditTypeInv, RequestsHoldValues
<1> QED
  BY <1>1, <1>2

\* The record takes values of the payload.
LEMMA WriteTypes ==
    ASSUME EditTypeInv, Write
    PROVE  FieldsHoldValues' /\ RequestsHoldValues'
<1>1. /\ UNCHANGED <<editor, admin, copy, open, base, form, typed>>
      /\ save # NoSave /\ server' = Patched(server, save.payload)
      /\ save' = [save EXCEPT !.stage = "ok"]
  BY NoSaveStage DEF Write
<1>2. Fields' = Fields
  BY <1>1 DEF Fields, Patched
<1>3. \A f \in Fields : server'[f] \in Good(f)
  BY <1>1 DEF EditTypeInv, FieldsHoldValues, RequestsHoldValues, Patched, Fields
<1>4. save'.payload = save.payload
  BY <1>1
<1> QED
  BY <1>1, <1>2, <1>3, <1>4 DEF EditTypeInv, FieldsHoldValues, RequestsHoldValues, Good

\* The answer fills the copy from the record.
LEMMA AcceptedTypes ==
    ASSUME EditTypeInv, Accepted
    PROVE  FieldsHoldValues' /\ RequestsHoldValues'
<1>1. /\ save # NoSave /\ save' = NoSave /\ UNCHANGED <<editor, admin, server, copy>>
  BY NoSaveStage DEF Accepted
<1>2. Fields' = Fields /\ RequestsHoldValues'
  BY <1>1 DEF Fields, RequestsHoldValues
<1>3. CASE UNCHANGED <<open, base, form, typed>>
  BY <1>1, <1>2, <1>3 DEF EditTypeInv, FieldsHoldValues, Good
<1>4. CASE Shut
  BY <1>1, <1>2, <1>4, ShutTypes
<1>5. CASE /\ editor = "FinancialsForm"
           /\ open' = open /\ form' = Patched(Nothing, save.payload) /\ base' = form' /\ typed' = {}
  <2>1. DOMAIN form' = Fields /\ \A f \in Fields : form'[f] \in Good(f)
    BY <1>1, <1>5, BlankIsGood DEF EditTypeInv, RequestsHoldValues, Patched, Nothing
  <2> QED
    BY <1>1, <1>2, <1>5, <2>1 DEF EditTypeInv, FieldsHoldValues, Good
<1> QED
  BY <1>3, <1>4, <1>5, <1>2 DEF Accepted

\* A refetch fills the copy from the record.
LEMMA RefreshTypes ==
    ASSUME EditTypeInv, Refresh
    PROVE  FieldsHoldValues' /\ RequestsHoldValues'
<1>1. UNCHANGED <<editor, admin, server, open, typed, save>> /\ copy' = Shown(server)
  BY DEF Refresh
<1>2. Fields' = Fields
  BY <1>1 DEF Fields
<1>3. DOMAIN copy' = Fields /\ \A f \in Fields : copy'[f] \in Good(f)
  BY <1>1, ShownIsGood DEF EditTypeInv, FieldsHoldValues, Fields
<1>4. CASE /\ form' = [f \in Fields |-> IF f \in typed THEN form[f] ELSE copy'[f]]
           /\ base' = copy' /\ open
  BY <1>1, <1>2, <1>3, <1>4 DEF EditTypeInv, FieldsHoldValues, RequestsHoldValues, Good
<1>5. CASE UNCHANGED <<base, form>>
  BY <1>1, <1>2, <1>3, <1>5 DEF EditTypeInv, FieldsHoldValues, RequestsHoldValues, Good
<1> QED
  BY <1>4, <1>5 DEF Refresh

\* Every action keeps values in the fields.
LEMMA EditStepTypes ==
    ASSUME EditTypeInv, [EditNext]_editVars
    PROVE  FieldsHoldValues' /\ RequestsHoldValues'
<1>1. CASE Fail
  BY <1>1 DEF Fail, EditTypeInv, FieldsHoldValues, RequestsHoldValues, Fields
<1>2. ASSUME NEW g \in Fields, NEW v \in Values(g), WrittenElsewhere(g, v)
      PROVE  FieldsHoldValues' /\ RequestsHoldValues'
  <2>1. /\ UNCHANGED <<editor, admin, copy, open, base, form, typed, save>>
        /\ server' = [server EXCEPT ![g] = v]
    BY <1>2 DEF WrittenElsewhere
  <2>2. Fields' = Fields /\ \A f \in Fields : server'[f] \in Good(f)
    BY <2>1 DEF EditTypeInv, FieldsHoldValues, Fields, Good
  <2> QED
    BY <2>1, <2>2 DEF EditTypeInv, FieldsHoldValues, RequestsHoldValues, Good
<1>3. CASE UNCHANGED editVars
  BY <1>3 DEF editVars, EditTypeInv, FieldsHoldValues, RequestsHoldValues, Fields
<1>4. ASSUME NEW g \in Fields, NEW v \in Values(g), SetField(g, v)
      PROVE  FieldsHoldValues' /\ RequestsHoldValues'
  BY <1>4, SetFieldTypes
<1> QED
  BY <1>1, <1>2, <1>3, <1>4, OpenFormTypes, FillAssigneeTypes, LeaveFormTypes, SaveFormTypes,
     WriteTypes, AcceptedTypes, RefreshTypes DEF EditNext

\* The writes of others are counted up to their bound.
WritesCounted == elsewhere \in 0..MaxElsewhere

\* Writes of other users stay within their bound.
LEMMA ElsewhereIsBounded == EditSpec => []WritesCounted
<1>1. EditInit => WritesCounted
  BY ElsewhereAssumption DEF EditInit, WritesCounted
<1>2. ASSUME WritesCounted, [EditNext]_editVars
      PROVE  WritesCounted'
  <2>1. elsewhere' = elsewhere \/ (elsewhere < MaxElsewhere /\ elsewhere' = elsewhere + 1)
    BY <1>2 DEF EditNext, editVars, OpenForm, FillAssignee, LeaveForm, SaveForm, Write, Fail,
       Accepted, Refresh, SetField, WrittenElsewhere
  <2> QED
    BY <1>2, <2>1, ElsewhereAssumption DEF WritesCounted
<1> QED
  BY <1>1, <1>2, PTL DEF EditSpec

\* Record, copy, form and request keep their types: a field never holds what it cannot.
THEOREM EditTypeCorrect == EditSpec => []EditTypeOK
<1>1. EditInit => FieldsHoldValues /\ RequestsHoldValues
  <2> SUFFICES ASSUME EditInit PROVE FieldsHoldValues /\ RequestsHoldValues
    OBVIOUS
  <2>1. PICK fs : server \in [fs -> {"a", Blank}] /\ ("name" \in fs => server["name"] = "a")
    BY DEF EditInit
  <2>2. \A f \in Fields : server[f] \in Good(f)
    BY <2>1 DEF Fields, Good, Values, Blank
  <2>3. DOMAIN copy = Fields /\ \A f \in Fields : copy[f] \in Good(f)
    BY <2>2, ShownIsGood DEF EditInit, Fields
  <2>4. FieldsHoldValues
    BY <2>2, <2>3 DEF EditInit, FieldsHoldValues, Nothing
  <2>5. RequestsHoldValues
    BY DEF EditInit, RequestsHoldValues
  <2> QED
    BY <2>4, <2>5
<1>2. EditInv /\ FieldsHoldValues /\ RequestsHoldValues /\ [EditNext]_editVars
      => FieldsHoldValues' /\ RequestsHoldValues'
  BY EditStepTypes DEF EditTypeInv
<1>3. ASSUME EditInv, FieldsHoldValues, WritesCounted PROVE EditTypeOK
  <2>1. save.stage \in {"none", "sent", "ok"}
    BY <1>3 DEF EditInv, EditTypes, NoSave
  <2>2. /\ editor \in DOMAIN FieldsOf /\ Fields \subseteq FieldsOf[editor]
        /\ save # NoSave => DOMAIN save.payload \subseteq Fields
    BY <1>3 DEF EditInv, EditTypes
  <2>3. /\ admin \in BOOLEAN /\ open \in BOOLEAN /\ typed \subseteq Fields
        /\ \A f \in Fields : /\ server[f] \in Values(f) \cup {Mask}
                             /\ {copy[f], base[f], form[f]} \subseteq Values(f) \cup {Mask, Blank}
    BY <1>3 DEF FieldsHoldValues, Good
  <2> QED
    BY <1>3, <2>1, <2>2, <2>3 DEF EditTypeOK, WritesCounted
<1> QED
  BY <1>1, <1>2, <1>3, EditInvariant, ElsewhereIsBounded, PTL DEF EditSpec

-----------------------------------------------------------------------------
(* The forms that save in two requests.                                     *)

Stages == {"none", "first", "made", "found", "second", "attached", "over"}

SaveTypes ==
    /\ chain \in DOMAIN Chains
    /\ stage \in [Tries -> Stages]
    /\ made \subseteq Begun /\ attached \subseteq Begun /\ told \subseteq Begun
    /\ leftBehind \subseteq Begun /\ dropped \subseteq Begun /\ overtaken \subseteq Begun
    /\ first \in Running \cup {0} /\ second \in Running \cup {0}
    /\ shown \in {"form", "done", "away"}
    /\ proof \in {"none", "sent", "kept", "lost"}

\* Where a try is if the form does not go on with it.
AccountedFor == attached \cup told \cup leftBehind \cup dropped \cup overtaken

TriesAreFollowed ==
    /\ \A t \in Begun : t \in Awaited \cup AccountedFor
    /\ \A t \in Begun : stage[t] = "attached" => t \in attached
    /\ shown = "done" => attached # {}

\* The form goes on with a first request until its answer, then waits for the second.
StagesMatch ==
    /\ first # 0 => stage[first] \in {"first", "made", "found"}
    /\ second # 0 => stage[second] \in {"second", "attached"}

\* The newest try is the one that uploads or searches, and no later try than the one
\* whose record is waited for has sent a record.
TriesInOrder ==
    /\ \A t \in Begun : \A u \in Tries : u < t => u \in Begun
    /\ first # 0 => \A u \in Begun : u <= first
    /\ second # 0 => \A u \in Begun : u \in attached \/ stage[u] = "second" \/ Form.finds => u <= second

\* A form is overtaken by the record of an earlier try.
EarlierRecord == \A t \in overtaken \ attached : \E u \in attached : u < t

SaveInv == SaveTypes /\ TriesAreFollowed /\ StagesMatch /\ TriesInOrder /\ EarlierRecord

\* Tries are numbers, and "no try" is none of them.
LEMMA TriesAreNumbers == Tries \subseteq Nat /\ 0 \notin Tries
BY TriesAssumption DEF Tries

\* What a step of one try does to the tries that are under way.
Moved(t, to) ==
    /\ stage' \in [Tries -> Stages]
    /\ Begun' = Begun \cup {t}
    /\ Running' = IF to = "over" THEN Running \ {t} ELSE Running \cup {t}
    /\ stage'[t] = to
    /\ \A u \in Tries \ {t} : stage'[u] = stage[u]

\* A step of one try: it takes the next stage and the others keep theirs.
LEMMA TryMoves ==
    ASSUME SaveTypes, NEW t \in Tries, NEW to \in Stages \ {"none"},
           stage' = [stage EXCEPT ![t] = to]
    PROVE  Moved(t, to)
<1>1. /\ stage' \in [Tries -> Stages] /\ stage'[t] = to
      /\ \A u \in Tries \ {t} : stage'[u] = stage[u]
  BY DEF SaveTypes
<1>2. Begun' = Begun \cup {t}
  BY <1>1 DEF Begun
<1>3. Running' = IF to = "over" THEN Running \ {t} ELSE Running \cup {t}
  BY <1>1, <1>2 DEF Running, Begun
<1> QED
  BY <1>1, <1>2, <1>3 DEF Moved

\* A try that is under way has begun.
LEMMA BegunTries == /\ Running \subseteq Begun /\ Begun \subseteq Tries
                    /\ \A t \in Tries : stage[t] # "none" => t \in Begun
                    /\ \A t \in Tries : stage[t] \notin {"none", "over"} => t \in Running
BY DEF Running, Begun

\* A new try is the newest, and the form goes on with it.
LEMMA TryKeeps == ASSUME SaveInv, NEW t \in Tries, Try(t) PROVE SaveInv'
<1>1. Moved(t, "first")
  BY TryMoves DEF SaveInv, Try, Stages
<1>2. /\ t \notin Begun /\ first' = t /\ second' \in {0, second}
      /\ dropped' = dropped \cup (Awaited \ {second'})
      /\ UNCHANGED <<chain, made, attached, shown, told, leftBehind, overtaken, proof>>
      /\ Form.finds => second' = 0
  BY DEF Try
<1>3. Form' = Form
  BY <1>2 DEF Form
<1>4. SaveTypes'
  BY <1>1, <1>2, BegunTries DEF SaveInv, SaveTypes, Moved, Awaited
<1>5. TriesAreFollowed'
  BY <1>1, <1>2, TriesAreNumbers, BegunTries DEF SaveInv, TriesAreFollowed, AccountedFor, Moved, Awaited
<1>6. StagesMatch'
  BY <1>1, <1>2, BegunTries DEF SaveInv, SaveTypes, StagesMatch, Moved
<1>7. TriesInOrder'
  <2>1. \A u \in Tries : u < t => u \in Begun
    BY DEF Try
  <2>2. \A u \in Begun : u <= t
    BY <1>2, <2>1, TriesAreNumbers, BegunTries DEF SaveInv, TriesInOrder
  <2>3. second' # 0 => \A u \in Begun' : u \in attached' \/ stage'[u] = "second" \/ Form'.finds => u <= second'
    BY <1>1, <1>2, <1>3, BegunTries DEF SaveInv, SaveTypes, TriesInOrder, Moved
  <2>4. \A u \in Begun' : u <= first'
    BY <1>1, <1>2, <2>2, TriesAreNumbers DEF Moved
  <2>5. \A v \in Begun' : \A u \in Tries : u < v => u \in Begun'
    BY <1>1, <2>1 DEF SaveInv, TriesInOrder, Moved
  <2> QED
    BY <2>3, <2>4, <2>5 DEF TriesInOrder
<1>8. EarlierRecord'
  BY <1>2 DEF SaveInv, EarlierRecord
<1> QED
  BY <1>4, <1>5, <1>6, <1>7, <1>8 DEF SaveInv

\* The first write is done on the server; the form still goes on with the same tries.
LEMMA FirstDoneKeeps == ASSUME SaveInv, NEW t \in Tries, FirstDone(t) PROVE SaveInv'
<1>1. Moved(t, "made") /\ t \in Running /\ stage[t] = "first"
  BY TryMoves DEF SaveInv, FirstDone, Stages, Running, Begun
<1>2. /\ made' \subseteq made \cup {t}
      /\ UNCHANGED <<chain, attached, first, second, shown, told, leftBehind, dropped, overtaken, proof>>
      /\ Form' = Form
  BY DEF FirstDone, Form
<1>3. SaveTypes'
  BY <1>1, <1>2, BegunTries DEF SaveInv, SaveTypes, Moved
<1>4. TriesAreFollowed'
  BY <1>1, <1>2, BegunTries DEF SaveInv, TriesAreFollowed, AccountedFor, Moved, Awaited
<1>5. StagesMatch'
  BY <1>1, <1>2, BegunTries DEF SaveInv, SaveTypes, StagesMatch, Moved
<1>6. TriesInOrder' /\ EarlierRecord'
  BY <1>1, <1>2, BegunTries DEF SaveInv, TriesInOrder, EarlierRecord, Moved
<1> QED
  BY <1>3, <1>4, <1>5, <1>6 DEF SaveInv

\* The newest try sends its record, and is the one that is waited for.
LEMMA SendSecondKeeps ==
    ASSUME SaveInv, NEW t \in Tries, t = first, SendSecond(t),
           UNCHANGED <<chain, made, attached, shown, told, leftBehind, overtaken, proof>>
    PROVE  SaveInv'
<1>1. Moved(t, "second") /\ t \in Running
  BY TryMoves, TriesAreNumbers DEF SaveInv, SaveTypes, SendSecond, Stages
<1>2. first' = 0 /\ second' = t /\ dropped' = dropped \cup ({second} \ {0}) /\ Form' = Form
  BY DEF SendSecond, Form
<1>3. SaveTypes'
  BY <1>1, <1>2, BegunTries DEF SaveInv, SaveTypes, Moved
<1>4. TriesAreFollowed'
  BY <1>1, <1>2, TriesAreNumbers, BegunTries DEF SaveInv, TriesAreFollowed, AccountedFor, Moved, Awaited
<1>5. StagesMatch'
  BY <1>1, <1>2 DEF StagesMatch, Moved
<1>6. TriesInOrder' /\ EarlierRecord'
  BY <1>1, <1>2, TriesAreNumbers, BegunTries DEF SaveInv, TriesInOrder, EarlierRecord, Moved
<1> QED
  BY <1>3, <1>4, <1>5, <1>6 DEF SaveInv

\* The form goes on to the second request, offers the person, or no longer listens.
LEMMA FirstAnsweredKeeps == ASSUME SaveInv, NEW t \in Tries, FirstAnswered(t) PROVE SaveInv'
<1>1. CASE t = first /\ ~Form.finds
  BY <1>1, SendSecondKeeps DEF FirstAnswered
<1>2. CASE ~(t = first /\ ~Form.finds)
  <2> DEFINE to == IF t = first THEN "found" ELSE "over"
  <2>1. /\ to \in Stages \ {"none"} /\ to \notin {"attached", "second"} /\ (t = first => to = "found")
        /\ (to = "over" => t # first) /\ to \in {"found", "over"}
    BY DEF Stages
  <2>2. /\ stage' = [stage EXCEPT ![t] = to] /\ stage[t] = "made"
        /\ UNCHANGED <<chain, made, attached, first, second, shown, told, leftBehind, dropped,
                       overtaken, proof>>
    BY <1>2 DEF FirstAnswered
  <2> HIDE DEF to
  <2>3. Moved(t, to) /\ t \in Begun /\ t # second /\ Form' = Form
    BY <2>1, <2>2, TryMoves, BegunTries, TriesAreNumbers DEF SaveInv, StagesMatch, Form
  <2>4. SaveTypes'
    BY <2>1, <2>2, <2>3, BegunTries DEF SaveInv, SaveTypes, Moved
  <2>5. TriesAreFollowed'
    BY <2>1, <2>2, <2>3, BegunTries DEF SaveInv, TriesAreFollowed, AccountedFor, Moved, Awaited
  <2>6. StagesMatch'
    BY <2>1, <2>2, <2>3, BegunTries DEF SaveInv, SaveTypes, StagesMatch, Moved
  <2>7. TriesInOrder' /\ EarlierRecord'
    BY <2>1, <2>2, <2>3, BegunTries DEF SaveInv, TriesInOrder, EarlierRecord, Moved
  <2> QED
    BY <2>4, <2>5, <2>6, <2>7 DEF SaveInv
<1> QED
  BY <1>1, <1>2

\* The person that was found is attached instead of made.
LEMMA UseThisPersonKeeps == ASSUME SaveInv, NEW t \in Tries, UseThisPerson(t) PROVE SaveInv'
BY SendSecondKeeps DEF UseThisPerson

\* The second write attaches what the first made.
LEMMA SecondDoneKeeps == ASSUME SaveInv, NEW t \in Tries, SecondDone(t) PROVE SaveInv'
<1>1. Moved(t, "attached") /\ t \in Running /\ t \in Begun /\ stage[t] = "second"
  BY TryMoves DEF SaveInv, SecondDone, Stages, Running, Begun
<1>2. /\ attached' = attached \cup {t}
      /\ UNCHANGED <<chain, made, first, second, shown, told, leftBehind, dropped, overtaken, proof>>
      /\ Form' = Form
  BY DEF SecondDone, Form
<1>3. SaveTypes'
  BY <1>1, <1>2, BegunTries DEF SaveInv, SaveTypes, Moved
<1>4. TriesAreFollowed'
  BY <1>1, <1>2, BegunTries DEF SaveInv, TriesAreFollowed, AccountedFor, Moved, Awaited
<1>5. StagesMatch'
  BY <1>1, <1>2, BegunTries DEF SaveInv, SaveTypes, StagesMatch, Moved
<1>6. TriesInOrder'
  BY <1>1, <1>2, BegunTries DEF SaveInv, TriesInOrder, Moved
<1>7. EarlierRecord'
  BY <1>2 DEF SaveInv, EarlierRecord
<1> QED
  BY <1>3, <1>4, <1>5, <1>6, <1>7 DEF SaveInv

\* The record that is waited for is older than the file that is uploaded under it.
LEMMA SecondAnsweredKeeps == ASSUME SaveInv, NEW t \in Tries, SecondAnswered(t) PROVE SaveInv'
<1>1. Moved(t, "over") /\ t \in Begun /\ t \in attached /\ t # first /\ stage[t] = "attached"
  BY TryMoves, BegunTries, TriesAreNumbers
     DEF SaveInv, TriesAreFollowed, StagesMatch, SecondAnswered, Stages
<1>2. /\ first' \in {first, 0} /\ second' \in {second, 0} /\ (t = second => second' = 0)
      /\ shown' \in {"form", "done", "away"} /\ proof' \in {"none", "sent", "kept", "lost"}
      /\ overtaken' \subseteq overtaken \cup ({first} \ {0}) /\ overtaken \subseteq overtaken'
      /\ (first' # first => first \in overtaken' \cup {0})
      /\ (t # second => second' = second) /\ Form' = Form
      /\ UNCHANGED <<chain, made, attached, told, leftBehind, dropped>>
  BY DEF SaveInv, SaveTypes, SecondAnswered, UploaderGoes, Form
<1>3. SaveTypes'
  BY <1>1, <1>2, BegunTries DEF SaveInv, SaveTypes, Moved
<1>4. TriesAreFollowed'
  BY <1>1, <1>2, BegunTries DEF SaveInv, TriesAreFollowed, AccountedFor, Moved, Awaited
<1>5. StagesMatch'
  BY <1>1, <1>2, BegunTries DEF SaveInv, SaveTypes, StagesMatch, Moved
<1>6. TriesInOrder'
  BY <1>1, <1>2, BegunTries DEF SaveInv, TriesInOrder, Moved
<1>7. EarlierRecord'
  <2>1. first # 0 => t < first
    BY <1>1, TriesAreNumbers, BegunTries DEF SaveInv, SaveTypes, TriesInOrder
  <2> QED
    BY <1>1, <1>2, <2>1 DEF SaveInv, EarlierRecord
<1> QED
  BY <1>3, <1>4, <1>5, <1>6, <1>7 DEF SaveInv

\* The try that ends, or goes back to the person that was found.
EndsIn(t) ==
    \/ Moved(t, "over") /\ first' = IF t = first THEN 0 ELSE first
    \/ Moved(t, "found") /\ Form.finds /\ t = second /\ first' = t

\* A failure is told, or nobody is left to tell.
LEMMA TryFailsKeeps == ASSUME SaveInv, NEW t \in Tries, TryFails(t) PROVE SaveInv'
<1>1. EndsIn(t)
  BY TryMoves DEF SaveInv, TryFails, TryEnds, EndsIn, Stages
<1>2. /\ t \in Running /\ t \in Begun
      /\ second' = IF t = second THEN 0 ELSE second
      /\ told' = IF t \in Awaited THEN told \cup {t} ELSE told
      /\ UNCHANGED <<chain, made, attached, shown, leftBehind, dropped, overtaken, proof>>
      /\ Form' = Form
  BY BegunTries DEF TryFails, TryEnds, Form
<1>3. SaveTypes'
  BY <1>1, <1>2, BegunTries DEF SaveInv, SaveTypes, EndsIn, Moved
<1>4. TriesAreFollowed'
  <2>1. ASSUME NEW u \in Begun PROVE u \in Awaited' \cup AccountedFor'
    <3>1. CASE u = t
      BY <1>2, <3>1, TriesAreNumbers DEF SaveInv, TriesAreFollowed, AccountedFor
    <3>2. CASE u # t
      <4>1. Form.finds /\ t = second /\ first # 0 => first = t
        BY <1>2, TriesAreNumbers, BegunTries DEF SaveInv, SaveTypes, TriesInOrder
      <4>2. u = first => u = first'
        BY <1>1, <3>2, <4>1, TriesAreNumbers, BegunTries DEF EndsIn
      <4> QED
        BY <1>2, <3>2, <4>2, TriesAreNumbers, BegunTries
           DEF SaveInv, TriesAreFollowed, AccountedFor, Awaited
    <3> QED
      BY <3>1, <3>2
  <2>2. \A u \in Begun' : u \in Begun /\ (stage'[u] = "attached" => stage[u] = "attached")
    BY <1>1, <1>2, BegunTries DEF EndsIn, Moved
  <2> QED
    BY <1>2, <2>1, <2>2 DEF SaveInv, TriesAreFollowed
<1>5. StagesMatch'
  BY <1>1, <1>2, BegunTries DEF SaveInv, SaveTypes, StagesMatch, EndsIn, Moved
<1>6. TriesInOrder'
  BY <1>1, <1>2, BegunTries, TriesAreNumbers DEF SaveInv, TriesInOrder, EndsIn, Moved
<1>7. EarlierRecord'
  BY <1>2 DEF SaveInv, EarlierRecord
<1> QED
  BY <1>3, <1>4, <1>5, <1>6, <1>7 DEF SaveInv

\* A record that is read is older than what the form goes on with.
LEMMA ReadRecordKeeps == ASSUME SaveInv, ReadRecord PROVE SaveInv'
<1>1. /\ first' = 0 /\ second' = 0 /\ overtaken' = overtaken \cup Awaited /\ Form' = Form
      /\ Begun' = Begun /\ Running' = Running /\ attached # {} /\ shown' = "done"
      /\ UNCHANGED <<chain, stage, made, attached, told, leftBehind, dropped, proof>>
  BY DEF ReadRecord, Form, Begun, Running
<1>2. SaveTypes' /\ StagesMatch' /\ TriesAreFollowed'
  BY <1>1, BegunTries DEF SaveInv, SaveTypes, StagesMatch, TriesAreFollowed, AccountedFor, Awaited
<1>3. TriesInOrder'
  BY <1>1 DEF SaveInv, TriesInOrder
<1>4. EarlierRecord'
  <2>1. PICK u \in attached : TRUE
    BY <1>1
  <2>2. \A t \in Awaited \ attached : u < t
    BY <2>1, TriesAreNumbers, BegunTries DEF SaveInv, SaveTypes, TriesInOrder, Awaited
  <2> QED
    BY <1>1, <2>1, <2>2 DEF SaveInv, EarlierRecord
<1> QED
  BY <1>2, <1>3, <1>4 DEF SaveInv

\* Every action of a save in two requests keeps the invariant.
LEMMA SaveStepKeeps == ASSUME SaveInv, [SaveNext]_saveVars PROVE SaveInv'
<1> USE DEF SaveInv, SaveTypes, TriesAreFollowed, StagesMatch, TriesInOrder, EarlierRecord,
            AccountedFor, Begun, Running, Awaited, Form
<1>1. ASSUME NEW t \in Tries,
             \/ Try(t) \/ FirstDone(t) \/ FirstAnswered(t) \/ UseThisPerson(t)
             \/ SecondDone(t) \/ SecondAnswered(t) \/ TryFails(t)
      PROVE  SaveInv'
  BY ONLY SaveInv, <1>1, TryKeeps, FirstDoneKeeps, FirstAnsweredKeeps, UseThisPersonKeeps,
     SecondDoneKeeps, SecondAnsweredKeeps, TryFailsKeeps
<1>2. CASE ProofAnswered
  BY <1>2 DEF ProofAnswered
<1>3. CASE UploaderHidden
  BY <1>3, TriesAreNumbers DEF UploaderHidden
<1>4. CASE LeavePage
  BY <1>4, TriesAreNumbers DEF LeavePage
<1>5. CASE ReadRecord
  BY ONLY SaveInv, <1>5, ReadRecordKeeps
<1>6. CASE ReadPage
  BY <1>6 DEF ReadPage
<1>7. CASE UNCHANGED saveVars
  BY <1>7 DEF saveVars
<1> QED
  BY <1>1, <1>2, <1>3, <1>4, <1>5, <1>6, <1>7 DEF SaveNext

\* The invariant of the saves holds in every reachable state.
THEOREM SaveInvariant == SaveSpec => []SaveInv
<1>1. SaveInit => SaveInv
  BY DEF SaveInit, SaveInv, SaveTypes, TriesAreFollowed, StagesMatch, TriesInOrder, EarlierRecord,
     Begun, Running, Stages
<1> QED
  BY <1>1, SaveStepKeeps, PTL DEF SaveSpec

\* The stages of the tries and what became of their records keep their types.
THEOREM SaveTypeCorrect == SaveSpec => []SaveTypeOK
<1>1. SaveInv => SaveTypeOK
  BY DEF SaveInv, SaveTypes, SaveTypeOK, Stages
<1> QED
  BY <1>1, SaveInvariant, PTL

\* No save stops after its first request without the user being told, leaving the page or
\* putting another try in its place, unless the record of an earlier try took the form off
\* the screen; and no form shows itself done with nothing attached: for any number of tries
\* of the forms that save in two requests.
THEOREM NoSaveStopsUnseen == SaveSpec => []HalfSavesAreTold
<1>1. SaveInv => HalfSavesAreTold
  BY DEF SaveInv, SaveTypes, TriesAreFollowed, AccountedFor, EarlierRecord, HalfSavesAreTold, Awaited
<1> QED
  BY <1>1, SaveInvariant, PTL

-----------------------------------------------------------------------------
(* The guard of the wizard.                                                 *)

WizardTypes ==
    /\ screen \in Steps \cup Away \cup {"elsewhere"}
    /\ forms \subseteq Forms /\ edited \subseteq forms
    /\ pending \subseteq edited /\ created \subseteq edited
    /\ done \subseteq Forms /\ reported \subseteq forms /\ asked \subseteq forms
    /\ target \in Steps \cup Away \cup {"none"}

\* The guard knows of every form that says it holds unsaved text, unless the user
\* has agreed to lose it; and outside the wizard there is no form.
GuardKnows ==
    /\ \A f \in Forms : SaysDirty(f, edited, created) => f \in reported \cup asked
    /\ screen \notin Steps => forms = {}

WizardInv == WizardTypes /\ GuardKnows

\* Every form is on a step, and no step is a page outside the wizard.
LEMMA FormsOfSteps ==
    /\ \A s : FormsOf(s) \subseteq Forms
    /\ \A s \in Away \cup {"elsewhere"} : FormsOf(s) = {} /\ s \notin Steps
    /\ "none" \notin Steps \cup Away
BY DEF FormsOf, Forms, Steps, Away

\* A form that is opened is clean.
LEMMA OpenAdderKeeps == ASSUME WizardInv, NEW f \in Forms, OpenAdder(f) PROVE WizardInv'
BY DEF WizardInv, WizardTypes, GuardKnows, SaysDirty, OpenAdder, GuardIsQuiet

\* A form that is typed into reports to the guard, if it is one that reports.
LEMMA TypeIntoKeeps == ASSUME WizardInv, NEW f \in Forms, TypeInto(f) PROVE WizardInv'
<1>1. WizardTypes'
  BY DEF WizardInv, WizardTypes, SaysDirty, TypeInto, Report
<1>2. GuardKnows'
  BY DEF WizardInv, WizardTypes, GuardKnows, SaysDirty, TypeInto, Report
<1> QED
  BY <1>1, <1>2 DEF WizardInv

\* A form that saves has made nothing yet, and reports again.
LEMMA SaveStepKeepsGuard == ASSUME WizardInv, NEW f \in Forms, SaveStep(f) PROVE WizardInv'
<1>1. WizardTypes'
  BY DEF WizardInv, WizardTypes, SaysDirty, SaveStep, Report
<1>2. GuardKnows'
  BY DEF WizardInv, WizardTypes, GuardKnows, SaysDirty, SaveStep, Report
<1> QED
  BY <1>1, <1>2 DEF WizardInv

\* A form that has saved is clean, done, or waits for its second request.
LEMMA SaveSucceedsKeeps == ASSUME WizardInv, NEW f \in Forms, SaveSucceeds(f) PROVE WizardInv'
<1>1. WizardTypes'
  BY DEF WizardInv, WizardTypes, SaysDirty, SaveSucceeds, Report, Creators, Adders
<1>2. GuardKnows'
  BY DEF WizardInv, WizardTypes, GuardKnows, SaysDirty, SaveSucceeds, Report
<1> QED
  BY <1>1, <1>2 DEF WizardInv

\* A form that is done is taken off with its report.
LEMMA AttachedKeeps == ASSUME WizardInv, NEW f \in Forms, Attached(f) PROVE WizardInv'
<1>1. WizardTypes'
  BY DEF WizardInv, WizardTypes, Attached, TakeDown
<1>2. GuardKnows'
  BY DEF WizardInv, GuardKnows, SaysDirty, Attached, TakeDown
<1> QED
  BY <1>1, <1>2 DEF WizardInv

\* A refused save leaves the form dirty and reported.
LEMMA SaveFailsKeeps == ASSUME WizardInv, NEW f \in Forms, SaveFails(f) PROVE WizardInv'
BY DEF WizardInv, WizardTypes, GuardKnows, SaysDirty, SaveFails

\* Another step shows its own forms, untouched.
FreshStep(s) ==
    /\ screen' = s /\ done' = done
    /\ forms' = FormsOf(s) \ done
    /\ edited' = {} /\ pending' = {} /\ created' = {} /\ reported' = {} /\ asked' = {}

\* A step that is entered shows clean forms.
LEMMA FreshStepKeeps ==
    ASSUME WizardInv, NEW s \in Steps \cup Away, FreshStep(s),
           target' \in Steps \cup Away \cup {"none"}
    PROVE  WizardInv'
BY FormsOfSteps DEF WizardInv, WizardTypes, GuardKnows, SaysDirty, FreshStep

\* A change of screen passes the guard or is held for the question.
LEMMA GoToKeeps == ASSUME WizardInv, NEW s \in Steps \cup Away, GoTo(s) PROVE WizardInv'
<1>1. CASE reported # {}
  BY <1>1 DEF WizardInv, WizardTypes, GuardKnows, SaysDirty, GoTo
<1>2. CASE reported = {} /\ s = screen
  BY <1>2 DEF WizardInv, WizardTypes, GuardKnows, SaysDirty, GoTo, Move
<1>3. CASE reported = {} /\ s # screen
  <2>1. FreshStep(s) /\ target' = target
    BY <1>3 DEF GoTo, Move, FreshStep
  <2>2. target \in Steps \cup Away \cup {"none"}
    BY DEF WizardInv, WizardTypes
  <2> QED
    BY <2>1, <2>2, FreshStepKeeps
<1> QED
  BY <1>1, <1>2, <1>3

\* Leaving anyway is what the user agreed to.
LEMMA LeaveAnywayKeeps == ASSUME WizardInv, LeaveAnyway PROVE WizardInv'
<1>1. target \in Steps \cup Away /\ target' = "none"
  BY DEF WizardInv, WizardTypes, LeaveAnyway
<1>2. CASE target = screen
  <2>1. /\ screen' = screen /\ forms' = forms /\ edited' = edited /\ pending' = pending
        /\ created' = created /\ done' = done /\ reported' = {} /\ asked' = asked \cup Unsaved
    BY <1>2 DEF LeaveAnyway, Move
  <2>2. \A f \in Forms : SaysDirty(f, edited, created) => f \in Unsaved
    BY DEF SaysDirty, Unsaved
  <2>3. Unsaved \subseteq forms
    BY DEF WizardInv, WizardTypes, Unsaved
  <2> QED
    BY <1>1, <2>1, <2>2, <2>3 DEF WizardInv, WizardTypes, GuardKnows, SaysDirty
<1>3. CASE target # screen
  <2>1. FreshStep(target)
    BY <1>3 DEF LeaveAnyway, Move, FreshStep
  <2> QED
    BY <1>1, <2>1, FreshStepKeeps
<1> QED
  BY <1>2, <1>3

\* The forms are taken off the screen, with all they held.
LEMMA ClearedKeeps ==
    ASSUME WizardInv, TakeDown(Forms), asked' = {}, UNCHANGED <<done, target>>,
           screen' \in {screen, "elsewhere"}
    PROVE  WizardInv'
BY FormsOfSteps DEF WizardInv, WizardTypes, GuardKnows, SaysDirty, TakeDown

\* Every action of the wizard keeps the invariant.
LEMMA WizardStepKeeps == ASSUME WizardInv, [WizardNext]_wizardVars PROVE WizardInv'
<1>1. ASSUME NEW f \in Forms,
             \/ OpenAdder(f) \/ TypeInto(f) \/ SaveStep(f) \/ SaveSucceeds(f)
             \/ Attached(f) \/ SaveFails(f)
      PROVE  WizardInv'
  BY <1>1, OpenAdderKeeps, TypeIntoKeeps, SaveStepKeepsGuard, SaveSucceedsKeeps, AttachedKeeps,
     SaveFailsKeeps
<1>2. ASSUME NEW s \in Steps \cup Away, GoTo(s) PROVE WizardInv'
  BY <1>2, GoToKeeps
<1>3. ASSUME NEW s \in Steps, ComeBack(s) PROVE WizardInv'
  <2>1. /\ edited = {} /\ pending = {} /\ created = {} /\ reported = {} /\ asked = {}
    BY <1>3 DEF WizardInv, WizardTypes, GuardKnows, ComeBack
  <2>2. FreshStep(s) /\ target' = target
    BY <1>3, <2>1 DEF ComeBack, FreshStep
  <2>3. target \in Steps \cup Away \cup {"none"}
    BY DEF WizardInv, WizardTypes
  <2> QED
    BY <2>2, <2>3, FreshStepKeeps
<1>4. CASE Stay
  BY <1>4 DEF WizardInv, WizardTypes, GuardKnows, SaysDirty, Stay
<1>5. CASE LeaveAnyway
  BY <1>5, LeaveAnywayKeeps
<1>6. CASE GoElsewhere
  BY <1>6, ClearedKeeps DEF GoElsewhere
<1>7. CASE RefetchFails
  BY <1>7, ClearedKeeps DEF RefetchFails
<1>8. CASE RefetchSucceeds
  BY <1>8, FormsOfSteps DEF WizardInv, WizardTypes, GuardKnows, SaysDirty, RefetchSucceeds
<1>9. CASE UNCHANGED wizardVars
  BY <1>9 DEF WizardInv, WizardTypes, GuardKnows, SaysDirty, wizardVars
<1> QED
  BY <1>1, <1>2, <1>3, <1>4, <1>5, <1>6, <1>7, <1>8, <1>9 DEF WizardNext

\* The invariant of the wizard holds in every reachable state.
THEOREM WizardInvariant == WizardSpec => []WizardInv
<1>1. WizardInit => WizardInv
  BY FormsOfSteps DEF WizardInit, WizardInv, WizardTypes, GuardKnows, SaysDirty
<1> QED
  BY <1>1, WizardStepKeeps, PTL DEF WizardSpec

\* The screen, its forms and what the guard knows keep their types.
THEOREM WizardTypeCorrect == WizardSpec => []WizardTypeOK
<1>1. WizardInv => WizardTypeOK
  BY DEF WizardInv, WizardTypes, WizardTypeOK
<1> QED
  BY <1>1, WizardInvariant, PTL

\* After any order of typing, saving, failing and returning, text that is not saved leaves
\* the screen only by its save, after the question, or by one of the two ways round the guard;
\* the exceptions are the form that never reports and one whose record is made and not attached.
THEOREM OnlyNamedWaysLoseText == WizardSpec => TextIsAskedFor
<1> DEFINE Excused(f) == \/ target # "none" \/ f \in asked
                         \/ SaveSucceeds(f)
                         \/ f \in created \cup {"AssignmentForm"}
                         \/ Unguarded
<1>1. ASSUME WizardInv, WizardNext, NEW f \in Unsaved \ edited'
      PROVE  Excused(f)
  <2>1. ASSUME NEW s \in Steps \cup Away, GoTo(s)
        PROVE  Excused(f)
    <3>1. reported = {}
      BY <1>1, <2>1 DEF GoTo, Unsaved
    <3>2. f \in Forms /\ f \in edited
      BY <1>1 DEF WizardInv, WizardTypes, Unsaved
    <3> QED
      BY <1>1, <3>1, <3>2 DEF WizardInv, WizardTypes, GuardKnows, SaysDirty
  <2>2. ASSUME NEW s \in Steps, ComeBack(s)
        PROVE  Excused(f)
    BY <1>1, <2>2 DEF ComeBack, Unsaved
  <2>3. ASSUME NEW g \in Forms,
               \/ OpenAdder(g) \/ TypeInto(g) \/ SaveStep(g) \/ SaveSucceeds(g)
               \/ Attached(g) \/ SaveFails(g)
        PROVE  Excused(f)
    <3>1. CASE SaveSucceeds(g)
      BY <1>1, <3>1 DEF SaveSucceeds, Unsaved
    <3>2. CASE Attached(g)
      BY <1>1, <3>2 DEF Attached, TakeDown, Unsaved
    <3> QED
      BY <1>1, <2>3, <3>1, <3>2 DEF OpenAdder, TypeInto, SaveStep, SaveFails, Unsaved
  <2> QED
    BY <1>1, <2>1, <2>2, <2>3
       DEF WizardNext, Stay, LeaveAnyway, Unguarded, RefetchSucceeds, Unsaved
<1>2. WizardInv /\ [WizardNext]_wizardVars => [\A f \in Unsaved \ edited' : Excused(f)]_wizardVars
  BY <1>1
<1> QED
  BY <1>2, WizardInvariant, PTL DEF WizardSpec, TextIsAskedFor

-----------------------------------------------------------------------------
(* The undo window.                                                         *)

WindowTypes ==
    /\ gone \subseteq Rows /\ listed \subseteq Rows /\ untold \subseteq Rows
    /\ reading \subseteq SUBSET Rows
    /\ outdated \in BOOLEAN /\ restored \in BOOLEAN
    /\ deletion \in [Rows -> {"none", "sent", "done"}]
    /\ watched \in Rows \cup {None} /\ restoring \in Rows \cup {None}
    /\ undo \in Rows \cup {None}

\* The row that is offered has the only timer, and no request of its own to delete it.
OneWindow ==
    /\ timers = IF undo = None THEN {} ELSE {undo}
    /\ undo \in Rows => deletion[undo] = "none"
    /\ undo \in Rows \ untold => undo \in gone \/ (restoring = undo /\ restored)

\* A row with both requests on their way is one the screen may be wrong about.
RequestsAreKnown ==
    /\ \A r \in Rows : deletion[r] = "done" => r \in gone \cup untold
    /\ restoring \in Deleting => restoring \in untold

\* A list that was received, or that is to be, is right about the rows without a request.
RightAbout(list) ==
    \A r \in Rows \ untold :
        deletion[r] = "none" /\ restoring # r => (r \in list <=> r \notin gone)
ListsAreRight ==
    /\ ~outdated => RightAbout(listed)
    /\ \A list \in reading : RightAbout(list)

WindowInv == WindowTypes /\ OneWindow /\ RequestsAreKnown /\ ListsAreRight

\* A deletion is sent for a row with its own buttons.
LEMMA DeleteKeepsWindow == ASSUME WindowInv, NEW r \in Rows, Delete(r) PROVE WindowInv'
<1>1. WindowTypes'
  BY DEF WindowInv, WindowTypes, Delete
<1>2. OneWindow'
  BY DEF WindowInv, WindowTypes, OneWindow, Plain, Delete
<1>3. RequestsAreKnown'
  <2>1. restoring' = restoring /\ deletion' = [deletion EXCEPT ![r] = "sent"] /\ gone' = gone
    BY DEF Delete
  <2>2. \A row \in Rows : deletion'[row] = "done" => row \in gone' \cup untold'
    BY DEF WindowInv, WindowTypes, RequestsAreKnown, Delete
  <2>3. CASE restoring = r
    BY <2>2, <2>3 DEF RequestsAreKnown, Delete
  <2>4. CASE restoring # r
    <3>1. Deleting' \subseteq Deleting \cup {r}
      BY <2>1 DEF Deleting
    <3> QED
      BY <2>2, <3>1 DEF WindowInv, WindowTypes, RequestsAreKnown, Delete
  <2> QED
    BY <2>3, <2>4
<1>4. ListsAreRight'
  BY DEF WindowInv, WindowTypes, ListsAreRight, RightAbout, Delete
<1> QED
  BY <1>1, <1>2, <1>3, <1>4 DEF WindowInv

\* The server deletes the row.
LEMMA DeleteDoneKeepsWindow == ASSUME WindowInv, NEW r \in Rows, DeleteDone(r) PROVE WindowInv'
<1>1. WindowTypes'
  BY DEF WindowInv, WindowTypes, DeleteDone
<1>2. OneWindow'
  BY DEF WindowInv, WindowTypes, OneWindow, DeleteDone
<1>3. RequestsAreKnown'
  BY DEF WindowInv, WindowTypes, RequestsAreKnown, Deleting, DeleteDone
<1>4. ListsAreRight'
  BY DEF WindowInv, WindowTypes, ListsAreRight, RightAbout, DeleteDone
<1> QED
  BY <1>1, <1>2, <1>3, <1>4 DEF WindowInv

\* The answer offers its row in place of the one before and marks the list.
LEMMA DeleteAnsweredKeepsWindow == ASSUME WindowInv, NEW r \in Rows, DeleteAnswered(r) PROVE WindowInv'
<1>1. WindowTypes'
  BY DEF WindowInv, WindowTypes, DeleteAnswered, Invalidate
<1>2. OneWindow'
  BY NoneIsNoRow DEF WindowInv, WindowTypes, OneWindow, RequestsAreKnown, DeleteAnswered
<1>3. RequestsAreKnown'
  BY DEF WindowInv, WindowTypes, RequestsAreKnown, Deleting, DeleteAnswered
<1>4. ListsAreRight'
  BY DEF ListsAreRight, DeleteAnswered, Invalidate
<1> QED
  BY <1>1, <1>2, <1>3, <1>4 DEF WindowInv

\* After a failure the screen may be wrong about the row.
LEMMA DeleteFailsKeepsWindow == ASSUME WindowInv, NEW r \in Rows, DeleteFails(r) PROVE WindowInv'
<1>1. WindowTypes'
  BY DEF WindowInv, WindowTypes, DeleteFails
<1>2. OneWindow'
  BY DEF WindowInv, WindowTypes, OneWindow, DeleteFails
<1>3. RequestsAreKnown'
  BY DEF WindowInv, WindowTypes, RequestsAreKnown, Deleting, DeleteFails
<1>4. ListsAreRight'
  BY DEF WindowInv, WindowTypes, ListsAreRight, RightAbout, DeleteFails
<1> QED
  BY <1>1, <1>2, <1>3, <1>4 DEF WindowInv

\* The window closes and takes its offer.
LEMMA TimeIsUpKeepsWindow == ASSUME WindowInv, NEW r \in Rows, TimeIsUp(r) PROVE WindowInv'
<1>1. WindowTypes'
  BY DEF WindowInv, WindowTypes, TimeIsUp
<1>2. OneWindow'
  BY NoneIsNoRow DEF WindowInv, OneWindow, TimeIsUp
<1>3. RequestsAreKnown'
  BY DEF WindowInv, RequestsAreKnown, Deleting, TimeIsUp
<1>4. ListsAreRight'
  BY DEF WindowInv, ListsAreRight, RightAbout, TimeIsUp
<1> QED
  BY <1>1, <1>2, <1>3, <1>4 DEF WindowInv

\* Undo sends the request to restore the row that is offered.
LEMMA RestoreKeepsWindow == ASSUME WindowInv, Restore PROVE WindowInv'
<1>1. WindowTypes'
  BY DEF WindowInv, WindowTypes, Restore
<1>2. OneWindow'
  BY DEF WindowInv, OneWindow, Restore
<1>3. RequestsAreKnown'
  BY DEF WindowInv, OneWindow, RequestsAreKnown, Deleting, Restore
<1>4. ListsAreRight'
  BY NoneIsNoRow DEF WindowInv, ListsAreRight, RightAbout, Restore
<1> QED
  BY <1>1, <1>2, <1>3, <1>4 DEF WindowInv

\* The server restores the row.
LEMMA RestoreDoneKeepsWindow == ASSUME WindowInv, RestoreDone PROVE WindowInv'
<1>1. WindowTypes'
  BY DEF WindowInv, WindowTypes, RestoreDone
<1>2. OneWindow'
  BY DEF WindowInv, OneWindow, RestoreDone
<1>3. RequestsAreKnown'
  BY DEF WindowInv, RequestsAreKnown, Deleting, RestoreDone
<1>4. ListsAreRight'
  BY DEF WindowInv, ListsAreRight, RightAbout, RestoreDone
<1> QED
  BY <1>1, <1>2, <1>3, <1>4 DEF WindowInv

\* The answer ends the offer and marks the list.
LEMMA RestoreAnsweredKeepsWindow == ASSUME WindowInv, RestoreAnswered PROVE WindowInv'
<1>1. WindowTypes'
  BY DEF WindowInv, WindowTypes, RestoreAnswered, Invalidate
<1>2. OneWindow'
  BY NoneIsNoRow DEF OneWindow, RestoreAnswered
<1>3. RequestsAreKnown'
  BY NoneIsNoRow DEF WindowInv, RequestsAreKnown, Deleting, RestoreAnswered
<1>4. ListsAreRight'
  BY DEF ListsAreRight, RestoreAnswered, Invalidate
<1> QED
  BY <1>1, <1>2, <1>3, <1>4 DEF WindowInv

\* After a failure the screen may be wrong about the row.
LEMMA RestoreFailsKeepsWindow == ASSUME WindowInv, RestoreFails PROVE WindowInv'
<1>1. WindowTypes'
  BY DEF WindowInv, WindowTypes, RestoreFails
<1>2. OneWindow'
  BY DEF WindowInv, OneWindow, RestoreFails
<1>3. RequestsAreKnown'
  BY NoneIsNoRow DEF WindowInv, RequestsAreKnown, Deleting, RestoreFails
<1>4. ListsAreRight'
  BY DEF WindowInv, ListsAreRight, RightAbout, RestoreFails
<1> QED
  BY <1>1, <1>2, <1>3, <1>4 DEF WindowInv

\* A list read by the server is right about the rows without a request.
LEMMA ReadListKeepsWindow == ASSUME WindowInv, ReadList PROVE WindowInv'
<1>1. WindowTypes'
  BY DEF WindowInv, WindowTypes, ReadList
<1>2. OneWindow'
  BY DEF WindowInv, OneWindow, ReadList
<1>3. RequestsAreKnown'
  BY DEF WindowInv, RequestsAreKnown, Deleting, ReadList
<1>4. ListsAreRight'
  BY DEF WindowInv, ListsAreRight, RightAbout, ReadList
<1> QED
  BY <1>1, <1>2, <1>3, <1>4 DEF WindowInv

\* A list that arrives is one that was read.
LEMMA ReceivedKeepsWindow == ASSUME WindowInv, Received PROVE WindowInv'
<1>1. WindowTypes'
  BY DEF WindowInv, WindowTypes, Received
<1>2. OneWindow'
  BY DEF WindowInv, OneWindow, Received
<1>3. RequestsAreKnown'
  BY DEF WindowInv, RequestsAreKnown, Deleting, Received
<1>4. ListsAreRight'
  BY DEF WindowInv, ListsAreRight, RightAbout, Received
<1> QED
  BY <1>1, <1>2, <1>3, <1>4 DEF WindowInv

\* Leaving the list drops the offer and its timer.
LEMMA LeaveListKeepsWindow == ASSUME WindowInv, LeaveList PROVE WindowInv'
<1>1. WindowTypes'
  BY DEF WindowInv, WindowTypes, LeaveList, Invalidate
<1>2. OneWindow'
  BY NoneIsNoRow DEF OneWindow, LeaveList
<1>3. RequestsAreKnown'
  BY NoneIsNoRow DEF WindowInv, RequestsAreKnown, Deleting, LeaveList
<1>4. ListsAreRight'
  BY DEF ListsAreRight, LeaveList, Invalidate
<1> QED
  BY <1>1, <1>2, <1>3, <1>4 DEF WindowInv

\* Every action of the undo window keeps the invariant.
LEMMA UndoStepKeepsWindow == ASSUME WindowInv, [UndoNext]_undoVars PROVE WindowInv'
<1>1. CASE UndoNext
  BY <1>1, DeleteKeepsWindow, DeleteDoneKeepsWindow, DeleteAnsweredKeepsWindow,
     DeleteFailsKeepsWindow, TimeIsUpKeepsWindow, RestoreKeepsWindow,
     RestoreDoneKeepsWindow, RestoreAnsweredKeepsWindow, RestoreFailsKeepsWindow,
     ReadListKeepsWindow, ReceivedKeepsWindow, LeaveListKeepsWindow DEF UndoNext
<1>2. CASE UNCHANGED undoVars
  BY <1>2 DEF undoVars, WindowInv, WindowTypes, OneWindow, RequestsAreKnown, ListsAreRight,
     RightAbout, Deleting
<1> QED
  BY <1>1, <1>2

\* The invariant of the undo window holds in every reachable state.
THEOREM UndoInvariant == UndoSpec => []WindowInv
<1>1. UndoInit => WindowInv
  BY NoneIsNoRow DEF UndoInit, WindowInv, WindowTypes, OneWindow, RequestsAreKnown,
     ListsAreRight, RightAbout, Deleting
<1> QED
  BY <1>1, UndoStepKeepsWindow, PTL DEF UndoSpec

\* The rows, the requests and the offer keep their types.
THEOREM UndoTypeCorrect == UndoSpec => []UndoTypeOK
<1>1. WindowInv => UndoTypeOK
  BY DEF WindowInv, WindowTypes, OneWindow, UndoTypeOK
<1> QED
  BY <1>1, UndoInvariant, PTL

\* A row is offered for restoring only while it is deleted and its own timer runs, and a list
\* read after all answers shows exactly the rows that are there, but for those whose request
\* failed: for any number of rows, deleted and restored in any order.
THEOREM RowsAreShownTruly == UndoSpec => []RowsTellTheTruth
<1>1. WindowInv => RowsTellTheTruth
  BY NoneIsNoRow DEF WindowInv, OneWindow, ListsAreRight, RightAbout, RowsTellTheTruth,
     Plain, Deleting
<1> QED
  BY <1>1, UndoInvariant, PTL

-----------------------------------------------------------------------------
(* The query cache.                                                         *)

\* First the table of hooks: which prefix reaches which entry, and so which mutation
\* refreshes what its page shows.

\* A hook of one part only has its own entry in the table.
LEMMA TableHas ==
    ASSUME NEW parts, NEW part \in parts, NEW hook \in DOMAIN part,
           \A other \in parts : hook \in DOMAIN other => other = part
    PROVE  hook \in DOMAIN Table(parts) /\ Table(parts)[hook] = part[hook]
<1>1. hook \in UNION {DOMAIN p : p \in parts}
  OBVIOUS
<1>2. (CHOOSE p \in parts : hook \in DOMAIN p) = part
  OBVIOUS
<1> QED
  BY <1>1, <1>2 DEF Table

\* The queries by the section that declares them.
QueryNames ==
    /\ DOMAIN LoanQueries = {"loanList", "loan", "hpFamilies"}
    /\ DOMAIN TransactionQueries = {"transactions", "confirmations"}
    /\ DOMAIN SummaryQuery = {"summary"}
    /\ DOMAIN CycleQuery = {"dueCycles"}
    /\ DOMAIN WorklistQuery = {"worklist"}
    /\ DOMAIN ProposalQueries = {"proposals", "openProposal"}
    /\ DOMAIN CandidateQuery = {"candidates"}
    /\ DOMAIN VehicleQueries = {"vehicleList", "vehicle"}
    /\ DOMAIN VehicleLoansQuery = {"vehicleLoans"}
    /\ DOMAIN CustomerQueries = {"customerList", "customer"}
    /\ DOMAIN PersonnelQuery = {"personnel"}
    /\ DOMAIN UserQueries = {"users"}
    /\ DOMAIN EmployeeQuery = {"employees"}
    /\ DOMAIN DocumentQuery = {"documents"}
    /\ DOMAIN ProofQueries = {"proofs"}
    /\ DOMAIN StabilityQuery = {"stability"}
    /\ DOMAIN BrandingQuery = {"branding"}
    /\ DOMAIN CashQuery = {"cashEntries"}
    /\ DOMAIN CashReports = {"dayReport", "pnl", "balanceSheet"}

\* The names of the queries, part by part.
LEMMA QueryTableNames == QueryNames
BY DEF QueryNames, LoanQueries, TransactionQueries, SummaryQuery, CycleQuery, WorklistQuery,
       ProposalQueries, CandidateQuery, VehicleQueries, VehicleLoansQuery, CustomerQueries,
       PersonnelQuery, UserQueries, EmployeeQuery, DocumentQuery, ProofQueries, StabilityQuery,
       BrandingQuery, CashQuery, CashReports, ReportKeys

\* No query is in two parts.
LEMMA QueryTablesApart ==
    ASSUME NEW part \in QueryTables, NEW other \in QueryTables,
           NEW hook \in DOMAIN part \cap DOMAIN other
    PROVE  other = part
<1> USE QueryTableNames DEF QueryNames, QueryTables
<1>1. CASE part = LoanQueries
  BY <1>1
<1>2. CASE part = TransactionQueries
  BY <1>2
<1>3. CASE part = SummaryQuery
  BY <1>3
<1>4. CASE part = CycleQuery
  BY <1>4
<1>5. CASE part = WorklistQuery
  BY <1>5
<1>6. CASE part = ProposalQueries
  BY <1>6
<1>7. CASE part = CandidateQuery
  BY <1>7
<1>8. CASE part = VehicleQueries
  BY <1>8
<1>9. CASE part = VehicleLoansQuery
  BY <1>9
<1>10. CASE part = CustomerQueries
  BY <1>10
<1>11. CASE part = PersonnelQuery
  BY <1>11
<1>12. CASE part = UserQueries
  BY <1>12
<1>13. CASE part = EmployeeQuery
  BY <1>13
<1>14. CASE part = DocumentQuery
  BY <1>14
<1>15. CASE part = ProofQueries
  BY <1>15
<1>16. CASE part = StabilityQuery
  BY <1>16
<1>17. CASE part = BrandingQuery
  BY <1>17
<1>18. CASE part = CashQuery
  BY <1>18
<1>19. CASE part = CashReports
  BY <1>19
<1> QED
  BY <1>1, <1>2, <1>3, <1>4, <1>5, <1>6, <1>7, <1>8, <1>9, <1>10, <1>11, <1>12, <1>13, <1>14, <1>15,
     <1>16, <1>17, <1>18, <1>19 DEF QueryTables

\* The mutations by the section that declares them.
MutationNames ==
    /\ DOMAIN LoanEdits = {"createLoan", "updateLoan", "deleteLoan", "approveLoan"}
    /\ DOMAIN LoanClosing = {"closeLoan"}
    /\ DOMAIN Decisions = {"createTransaction", "confirmTransaction", "failTransaction"}
    /\ DOMAIN Corrections = {"updateTransaction", "deleteTransaction", "restoreTransaction"}
    /\ DOMAIN Classifications = {"classifyCycle", "reclassifyCycle"}
    /\ DOMAIN ProposalSteps = {"propose", "reopen", "review"}
    /\ DOMAIN CreateVehicle = {"createVehicle"}
    /\ DOMAIN VehicleEdits = {"updateVehicle", "deleteVehicle", "restoreVehicle"}
    /\ DOMAIN CustomerEdits = {"createCustomer", "deleteCustomer", "updateCustomer"}
    /\ DOMAIN PersonnelEdits = {"addPersonnel", "updatePersonnel", "updateRole", "removePersonnel"}
    /\ DOMAIN UserEdits = {"createUser", "deleteUser", "changeRole"}
    /\ DOMAIN DocumentEdits = {"uploadDocument", "deleteDocument", "restoreDocument"}
    /\ DOMAIN ProofEdits = {"createProof", "updateProof"}
    /\ DOMAIN StabilityEdit = {"createStability"}
    /\ DOMAIN BrandingEdit = {"updateBranding"}
    /\ DOMAIN CashEdits = {"createCash", "deleteCash"}

\* The names of the mutations, part by part.
LEMMA MutationTableNames == MutationNames
BY DEF MutationNames, LoanEdits, LoanClosing, Decisions, Corrections, Classifications, ProposalSteps,
       CreateVehicle, VehicleEdits, CustomerEdits, PersonnelEdits, UserEdits, DocumentEdits,
       ProofEdits, StabilityEdit, BrandingEdit, CashEdits

\* No mutation is in two parts.
LEMMA MutationTablesApart ==
    ASSUME NEW part \in MutationTables, NEW other \in MutationTables,
           NEW hook \in DOMAIN part \cap DOMAIN other
    PROVE  other = part
<1> USE MutationTableNames DEF MutationNames, MutationTables
<1>1. CASE part = LoanEdits
  BY <1>1
<1>2. CASE part = LoanClosing
  BY <1>2
<1>3. CASE part = Decisions
  BY <1>3
<1>4. CASE part = Corrections
  BY <1>4
<1>5. CASE part = Classifications
  BY <1>5
<1>6. CASE part = ProposalSteps
  BY <1>6
<1>7. CASE part = CreateVehicle
  BY <1>7
<1>8. CASE part = VehicleEdits
  BY <1>8
<1>9. CASE part = CustomerEdits
  BY <1>9
<1>10. CASE part = PersonnelEdits
  BY <1>10
<1>11. CASE part = UserEdits
  BY <1>11
<1>12. CASE part = DocumentEdits
  BY <1>12
<1>13. CASE part = ProofEdits
  BY <1>13
<1>14. CASE part = StabilityEdit
  BY <1>14
<1>15. CASE part = BrandingEdit
  BY <1>15
<1>16. CASE part = CashEdits
  BY <1>16
<1> QED
  BY <1>1, <1>2, <1>3, <1>4, <1>5, <1>6, <1>7, <1>8, <1>9, <1>10, <1>11, <1>12, <1>13, <1>14, <1>15,
     <1>16 DEF MutationTables

\* So a query of a part is that part's entry of the table,
LEMMA QueryEntry ==
    ASSUME NEW part \in QueryTables, NEW hook \in DOMAIN part
    PROVE  Queries[hook] = part[hook]
BY TableHas, QueryTablesApart DEF Queries

\* and a mutation likewise.
LEMMA MutationEntry ==
    ASSUME NEW part \in MutationTables, NEW hook \in DOMAIN part
    PROVE  Mutations[hook] = part[hook]
BY TableHas, MutationTablesApart DEF Mutations

\* A prefix of one name matches the keys of two that start with it,
LEMMA OneMatches == ASSUME NEW a, NEW b PROVE Matches(<<a>>, <<a, b>>)
BY DEF Matches

\* and a key matches itself.
LEMMA TwoMatch == ASSUME NEW a, NEW b PROVE Matches(<<a, b>>, <<a, b>>)
BY DEF Matches

\* A mutation reaches an entry that one of its prefixes matches.
LEMMA PrefixReaches ==
    ASSUME NEW hook, NEW entry, NEW prefix \in Mutations[hook].keys,
           Matches(prefix, Queries[entry].key)
    PROVE  Reached(hook, entry)
BY DEF Reached, Invalidates

\* The key of an entry and the tables it is read from.
IsRead(entry, key, tables) == Queries[entry].key = key /\ Queries[entry].reads = tables

\* The entries of a loan, its payments and cycles that a screen shows.
LoanQueryFacts ==
    /\ IsRead("loan", <<"loans", "detail">>, LoanReads)
    /\ IsRead("loanList", <<"loans", "infiniteList">>, LoanReads)
    /\ IsRead("hpFamilies", <<"loans", "hpFamilies">>, {"terms"})
    /\ IsRead("transactions", <<"transactions", "byLoan">>, {"txn", "punctuality"})
    /\ IsRead("confirmations", <<"transactions", "pendingConfirmations">>,
              {"txn", "cycle", "terms", "customer"})
    /\ IsRead("summary", <<"transactions", "summary">>, {"txn", "terms", "penalty"})
    /\ IsRead("dueCycles", <<"dueCycles", "byLoan">>, {"cycle"})
    /\ IsRead("worklist", <<"dueCycles", "worklistInfinite">>,
              {"cycle", "txn", "loan", "terms", "customer"})

\* Read from the sections of the loans, payments and cycles.
LEMMA LoanQueriesAre == LoanQueryFacts
<1>1. \A hook \in DOMAIN LoanQueries : Queries[hook] = LoanQueries[hook]
  BY QueryEntry DEF QueryTables
<1>2. \A hook \in DOMAIN TransactionQueries : Queries[hook] = TransactionQueries[hook]
  BY QueryEntry DEF QueryTables
<1>3. \A hook \in DOMAIN SummaryQuery : Queries[hook] = SummaryQuery[hook]
  BY QueryEntry DEF QueryTables
<1>4. \A hook \in DOMAIN CycleQuery : Queries[hook] = CycleQuery[hook]
  BY QueryEntry DEF QueryTables
<1>5. \A hook \in DOMAIN WorklistQuery : Queries[hook] = WorklistQuery[hook]
  BY QueryEntry DEF QueryTables
<1> QED
  BY <1>1, <1>2, <1>3, <1>4, <1>5, QueryTableNames
     DEF LoanQueryFacts, IsRead, QueryNames, Query, LoanQueries, TransactionQueries,
         SummaryQuery, CycleQuery, WorklistQuery

\* The lists of proposals and the open proposal of a loan.
ReviewQueryFacts ==
    /\ IsRead("proposals", <<"badDebtProposals", "worklistInfinite">>,
              {"proposal", "terms", "customer"})
    /\ IsRead("openProposal", <<"badDebtProposals", "open">>, {"proposal"})
    /\ IsRead("candidates", <<"badDebtProposals", "candidatesInfinite">>,
              {"cycle", "loan", "terms", "customer"})

\* Read from the section of the proposals.
LEMMA ReviewQueriesAre == ReviewQueryFacts
<1>1. \A hook \in DOMAIN ProposalQueries : Queries[hook] = ProposalQueries[hook]
  BY QueryEntry DEF QueryTables
<1>2. \A hook \in DOMAIN CandidateQuery : Queries[hook] = CandidateQuery[hook]
  BY QueryEntry DEF QueryTables
<1> QED
  BY <1>1, <1>2, QueryTableNames
     DEF ReviewQueryFacts, IsRead, QueryNames, Query, LoanReads, ProposalQueries, CandidateQuery

\* The entries of a vehicle, a customer, the personnel and the users.
PartyQueryFacts ==
    /\ IsRead("vehicle", <<"vehicles", "detail">>, {"vehicle"})
    /\ IsRead("vehicleLoans", <<"vehicles", "detail", "loans">>, {"loan", "terms", "customer"})
    /\ IsRead("customer", <<"customers", "detail">>, {"customer", "user"})
    /\ IsRead("personnel", <<"personnel", "byLoan">>, {"person"})
    /\ IsRead("users", <<"users", "infiniteList">>, {"user"})

\* Read from the sections of vehicles, customers, personnel and users.
LEMMA PartyQueriesAre == PartyQueryFacts
<1>1. \A hook \in DOMAIN VehicleQueries : Queries[hook] = VehicleQueries[hook]
  BY QueryEntry DEF QueryTables
<1>2. \A hook \in DOMAIN VehicleLoansQuery : Queries[hook] = VehicleLoansQuery[hook]
  BY QueryEntry DEF QueryTables
<1>3. \A hook \in DOMAIN CustomerQueries : Queries[hook] = CustomerQueries[hook]
  BY QueryEntry DEF QueryTables
<1>4. \A hook \in DOMAIN PersonnelQuery : Queries[hook] = PersonnelQuery[hook]
  BY QueryEntry DEF QueryTables
<1>5. \A hook \in DOMAIN UserQueries : Queries[hook] = UserQueries[hook]
  BY QueryEntry DEF QueryTables
<1> QED
  BY <1>1, <1>2, <1>3, <1>4, <1>5, QueryTableNames
     DEF PartyQueryFacts, IsRead, QueryNames, Query, LoanReads, VehicleQueries, VehicleLoansQuery,
         CustomerQueries, PersonnelQuery, UserQueries

\* The entries of documents, proofs, branding and the cash book.
OtherQueryFacts ==
    /\ IsRead("documents", <<"documents", "list">>, {"document"})
    /\ IsRead("proofs", <<"identityProofs", "customer">>, {"proof"})
    /\ IsRead("stability", <<"stabilityDocs", "byLoan">>, {"stability"})
    /\ IsRead("branding", <<"settings", "branding">>, {"settings"})
    /\ IsRead("cashEntries", <<"cashEntries", "list">>, {"cash"})

\* Read from the sections of documents, settings and cash entries.
LEMMA OtherQueriesAre == OtherQueryFacts
<1>1. \A hook \in DOMAIN DocumentQuery : Queries[hook] = DocumentQuery[hook]
  BY QueryEntry DEF QueryTables
<1>2. \A hook \in DOMAIN ProofQueries : Queries[hook] = ProofQueries[hook]
  BY QueryEntry DEF QueryTables
<1>3. \A hook \in DOMAIN StabilityQuery : Queries[hook] = StabilityQuery[hook]
  BY QueryEntry DEF QueryTables
<1>4. \A hook \in DOMAIN BrandingQuery : Queries[hook] = BrandingQuery[hook]
  BY QueryEntry DEF QueryTables
<1>5. \A hook \in DOMAIN CashQuery : Queries[hook] = CashQuery[hook]
  BY QueryEntry DEF QueryTables
<1> QED
  BY <1>1, <1>2, <1>3, <1>4, <1>5, QueryTableNames
     DEF OtherQueryFacts, IsRead, QueryNames, Query, LoanReads, DocumentQuery, ProofQueries,
         StabilityQuery, BrandingQuery, CashQuery

\* The prefixes that reach an entry.
Reaches(hook) ==
    /\ <<"loans">> \in Mutations[hook].keys => Reached(hook, "loan")
    /\ <<"loans", "detail">> \in Mutations[hook].keys => Reached(hook, "loan")
    /\ <<"transactions", "byLoan">> \in Mutations[hook].keys => Reached(hook, "transactions")
    /\ <<"transactions", "summary">> \in Mutations[hook].keys => Reached(hook, "summary")
    /\ <<"transactions", "pendingConfirmations">> \in Mutations[hook].keys
           => Reached(hook, "confirmations")
    /\ <<"dueCycles">> \in Mutations[hook].keys => Reached(hook, "dueCycles")
    /\ <<"dueCycles">> \in Mutations[hook].keys => Reached(hook, "worklist")
    /\ <<"dueCycles", "byLoan">> \in Mutations[hook].keys => Reached(hook, "dueCycles")
    /\ <<"badDebtProposals">> \in Mutations[hook].keys => Reached(hook, "proposals")
    /\ <<"badDebtProposals">> \in Mutations[hook].keys => Reached(hook, "openProposal")
    /\ <<"badDebtProposals">> \in Mutations[hook].keys => Reached(hook, "candidates")
    /\ <<"customers", "detail">> \in Mutations[hook].keys => Reached(hook, "customer")
    /\ <<"personnel", "byLoan">> \in Mutations[hook].keys => Reached(hook, "personnel")
    /\ <<"users">> \in Mutations[hook].keys => Reached(hook, "users")
    /\ <<"documents", "list">> \in Mutations[hook].keys => Reached(hook, "documents")
    /\ <<"identityProofs", "customer">> \in Mutations[hook].keys => Reached(hook, "proofs")
    /\ <<"stabilityDocs", "byLoan">> \in Mutations[hook].keys => Reached(hook, "stability")
    /\ <<"settings", "branding">> \in Mutations[hook].keys => Reached(hook, "branding")
    /\ <<"cashEntries">> \in Mutations[hook].keys => Reached(hook, "cashEntries")

\* Each key of the cache against the prefixes that the mutations give.
LEMMA PrefixesReach == ASSUME NEW hook PROVE Reaches(hook)
<1> USE DEF IsRead
<1>1. Matches(<<"loans">>, Queries["loan"].key)
  BY OneMatches, LoanQueriesAre DEF LoanQueryFacts
<1>2. Matches(<<"loans", "detail">>, Queries["loan"].key)
  BY TwoMatch, LoanQueriesAre DEF LoanQueryFacts
<1>3. Matches(<<"transactions", "byLoan">>, Queries["transactions"].key)
  BY TwoMatch, LoanQueriesAre DEF LoanQueryFacts
<1>4. Matches(<<"transactions", "summary">>, Queries["summary"].key)
  BY TwoMatch, LoanQueriesAre DEF LoanQueryFacts
<1>5. Matches(<<"transactions", "pendingConfirmations">>, Queries["confirmations"].key)
  BY TwoMatch, LoanQueriesAre DEF LoanQueryFacts
<1>6. Matches(<<"dueCycles">>, Queries["dueCycles"].key)
  BY OneMatches, LoanQueriesAre DEF LoanQueryFacts
<1>7. Matches(<<"dueCycles">>, Queries["worklist"].key)
  BY OneMatches, LoanQueriesAre DEF LoanQueryFacts
<1>8. Matches(<<"dueCycles", "byLoan">>, Queries["dueCycles"].key)
  BY TwoMatch, LoanQueriesAre DEF LoanQueryFacts
<1>9. Matches(<<"badDebtProposals">>, Queries["proposals"].key)
  BY OneMatches, ReviewQueriesAre DEF ReviewQueryFacts
<1>10. Matches(<<"badDebtProposals">>, Queries["openProposal"].key)
  BY OneMatches, ReviewQueriesAre DEF ReviewQueryFacts
<1>11. Matches(<<"badDebtProposals">>, Queries["candidates"].key)
  BY OneMatches, ReviewQueriesAre DEF ReviewQueryFacts
<1>12. Matches(<<"customers", "detail">>, Queries["customer"].key)
  BY TwoMatch, PartyQueriesAre DEF PartyQueryFacts
<1>13. Matches(<<"personnel", "byLoan">>, Queries["personnel"].key)
  BY TwoMatch, PartyQueriesAre DEF PartyQueryFacts
<1>14. Matches(<<"users">>, Queries["users"].key)
  BY OneMatches, PartyQueriesAre DEF PartyQueryFacts
<1>15. Matches(<<"documents", "list">>, Queries["documents"].key)
  BY TwoMatch, OtherQueriesAre DEF OtherQueryFacts
<1>16. Matches(<<"identityProofs", "customer">>, Queries["proofs"].key)
  BY TwoMatch, OtherQueriesAre DEF OtherQueryFacts
<1>17. Matches(<<"stabilityDocs", "byLoan">>, Queries["stability"].key)
  BY TwoMatch, OtherQueriesAre DEF OtherQueryFacts
<1>18. Matches(<<"settings", "branding">>, Queries["branding"].key)
  BY TwoMatch, OtherQueriesAre DEF OtherQueryFacts
<1>19. Matches(<<"cashEntries">>, Queries["cashEntries"].key)
  BY OneMatches, OtherQueriesAre DEF OtherQueryFacts
<1> QED
  BY <1>1, <1>2, <1>3, <1>4, <1>5, <1>6, <1>7, <1>8, <1>9, <1>10, <1>11, <1>12, <1>13, <1>14, <1>15,
     <1>16, <1>17, <1>18, <1>19, PrefixReaches DEF Reaches

\* What a mutation writes, invalidates at least, and replaces or removes at least.
Has(hook, tables, prefixes, entries) ==
    /\ Mutations[hook].writes = tables
    /\ prefixes \subseteq Mutations[hook].keys
    /\ entries \subseteq Mutations[hook].seeds \cup Mutations[hook].drops

\* The mutations of a loan.
LoanFacts ==
    /\ Has("createLoan", {"loan", "terms"}, OneLoan, {"loan"})
    /\ Has("updateLoan", {"loan", "terms", "cycle"}, OneLoan, {})
    /\ Has("deleteLoan", {"loan"}, {<<"loans", "list">>}, {"loan"})
    /\ Has("approveLoan", {"loan", "cycle", "txn"}, OneLoan, {"loan"})
    /\ Has("closeLoan", {"loan"}, OneLoan \cup {<<"transactions", "summary">>}, {})

\* Read from the section of the loans.
LEMMA LoanMutationsAre == LoanFacts
<1>1. \A hook \in DOMAIN LoanEdits : Mutations[hook] = LoanEdits[hook]
  BY MutationEntry DEF MutationTables
<1>2. \A hook \in DOMAIN LoanClosing : Mutations[hook] = LoanClosing[hook]
  BY MutationEntry DEF MutationTables
<1> QED
  BY <1>1, <1>2, MutationTableNames
     DEF LoanFacts, Has, MutationNames, Mutation, Seeding, Dropping, LoanEdits, LoanClosing

\* The mutations of a payment.
LedgerFacts ==
    /\ Has("createTransaction", {"txn"}, LoanLedger, {})
    /\ Has("confirmTransaction", {"txn", "cycle", "punctuality", "loan", "proposal"}, LoanLedger, {})
    /\ Has("failTransaction", {"txn"}, LoanLedger, {})
    /\ Has("updateTransaction", {"txn", "cycle", "punctuality"}, LoanLedger, {})
    /\ Has("deleteTransaction", {"txn", "cycle"}, LoanLedger, {})
    /\ Has("restoreTransaction", {"txn", "cycle", "punctuality"}, LoanLedger, {})

\* Read from the section of the payments.
LEMMA LedgerMutationsAre == LedgerFacts
<1>1. \A hook \in DOMAIN Decisions : Mutations[hook] = Decisions[hook]
  BY MutationEntry DEF MutationTables
<1>2. \A hook \in DOMAIN Corrections : Mutations[hook] = Corrections[hook]
  BY MutationEntry DEF MutationTables
<1> QED
  BY <1>1, <1>2, MutationTableNames
     DEF LedgerFacts, Has, MutationNames, Mutation, Seeding, Dropping, Decisions, Corrections

\* The classification of a cycle and the steps of a proposal.
ReviewFacts ==
    /\ Has("classifyCycle", {"cycle", "penalty", "punctuality", "loan", "proposal"},
           {<<"dueCycles", "byLoan">>, <<"transactions", "byLoan">>}, {})
    /\ Has("reclassifyCycle", {"cycle", "penalty", "punctuality", "loan", "proposal"},
           {<<"dueCycles", "byLoan">>, <<"transactions", "byLoan">>}, {})
    /\ Has("propose", {"proposal", "loan"}, {<<"loans", "detail">>, <<"badDebtProposals">>}, {})
    /\ Has("reopen", {"proposal"}, {<<"loans", "detail">>, <<"badDebtProposals">>}, {})
    /\ Has("review", {"proposal", "loan"}, {<<"loans", "detail">>, <<"badDebtProposals">>}, {})

\* Read from the sections of the cycles and the proposals.
LEMMA ReviewMutationsAre == ReviewFacts
<1>1. \A hook \in DOMAIN Classifications : Mutations[hook] = Classifications[hook]
  BY MutationEntry DEF MutationTables
<1>2. \A hook \in DOMAIN ProposalSteps : Mutations[hook] = ProposalSteps[hook]
  BY MutationEntry DEF MutationTables
<1> QED
  BY <1>1, <1>2, MutationTableNames
     DEF ReviewFacts, Has, MutationNames, Mutation, Seeding, Dropping, Classifications, ProposalSteps

\* The mutations of vehicles, customers and personnel.
PartyFacts ==
    /\ Has("createVehicle", {"newVehicle"}, {}, {"vehicle"})
    /\ Has("updateVehicle", {"vehicle"}, {<<"loans">>}, {"vehicle"})
    /\ Has("deleteVehicle", {"vehicle"}, {}, {})
    /\ Has("restoreVehicle", {"vehicle"}, {}, {"vehicle"})
    /\ Has("deleteCustomer", {"customer"}, {}, {"customer"})
    /\ Has("updateCustomer", {"customer"}, {<<"customers", "detail">>}, {"customer"})
    /\ Has("addPersonnel", {"person"}, {<<"personnel", "byLoan">>}, {})
    /\ Has("updatePersonnel", {"person"}, {<<"personnel", "byLoan">>}, {})
    /\ Has("updateRole", {"person"}, {<<"personnel", "byLoan">>}, {})
    /\ Has("removePersonnel", {"person"}, {<<"personnel", "byLoan">>}, {})

\* Read from the sections of vehicles, customers and personnel.
LEMMA PartyMutationsAre == PartyFacts
<1>1. \A hook \in DOMAIN CreateVehicle : Mutations[hook] = CreateVehicle[hook]
  BY MutationEntry DEF MutationTables
<1>2. \A hook \in DOMAIN VehicleEdits : Mutations[hook] = VehicleEdits[hook]
  BY MutationEntry DEF MutationTables
<1>3. \A hook \in DOMAIN CustomerEdits : Mutations[hook] = CustomerEdits[hook]
  BY MutationEntry DEF MutationTables
<1>4. \A hook \in DOMAIN PersonnelEdits : Mutations[hook] = PersonnelEdits[hook]
  BY MutationEntry DEF MutationTables
<1> QED
  BY <1>1, <1>2, <1>3, <1>4, MutationTableNames
     DEF PartyFacts, Has, MutationNames, Mutation, Seeding, Dropping, CreateVehicle, VehicleEdits,
         CustomerEdits, PersonnelEdits

\* The mutations of users, documents, proofs, branding and the cash book.
OtherFacts ==
    /\ Has("createUser", {"user"}, {<<"users">>}, {})
    /\ Has("deleteUser", {"user"}, {<<"users">>}, {})
    /\ Has("changeRole", {"user"}, {<<"users">>}, {})
    /\ Has("uploadDocument", {"document"}, {<<"documents", "list">>}, {})
    /\ Has("deleteDocument", {"document"}, {<<"documents", "list">>}, {})
    /\ Has("restoreDocument", {"document"}, {<<"documents", "list">>}, {})
    /\ Has("createProof", {"proof"}, {<<"identityProofs", "customer">>}, {})
    /\ Has("updateProof", {"proof"}, {<<"identityProofs", "customer">>}, {})
    /\ Has("createStability", {"stability"}, {<<"stabilityDocs", "byLoan">>}, {})
    /\ Has("updateBranding", {"settings"}, {<<"settings", "branding">>}, {})
    /\ Has("createCash", {"cash"}, {<<"cashEntries">>}, {})
    /\ Has("deleteCash", {"cash"}, {<<"cashEntries">>}, {})

\* Read from the sections of users, documents, settings and cash entries.
LEMMA OtherMutationsAre == OtherFacts
<1>1. \A hook \in DOMAIN UserEdits : Mutations[hook] = UserEdits[hook]
  BY MutationEntry DEF MutationTables
<1>2. \A hook \in DOMAIN DocumentEdits : Mutations[hook] = DocumentEdits[hook]
  BY MutationEntry DEF MutationTables
<1>3. \A hook \in DOMAIN ProofEdits : Mutations[hook] = ProofEdits[hook]
  BY MutationEntry DEF MutationTables
<1>4. \A hook \in DOMAIN StabilityEdit : Mutations[hook] = StabilityEdit[hook]
  BY MutationEntry DEF MutationTables
<1>5. \A hook \in DOMAIN BrandingEdit : Mutations[hook] = BrandingEdit[hook]
  BY MutationEntry DEF MutationTables
<1>6. \A hook \in DOMAIN CashEdits : Mutations[hook] = CashEdits[hook]
  BY MutationEntry DEF MutationTables
<1> QED
  BY <1>1, <1>2, <1>3, <1>4, <1>5, <1>6, MutationTableNames
     DEF OtherFacts, Has, MutationNames, Mutation, Seeding, Dropping, UserEdits, DocumentEdits,
         ProofEdits, StabilityEdit, BrandingEdit, CashEdits

\* A seeded or removed entry is reached.
LEMMA EntryReached ==
    ASSUME NEW hook, NEW entry, entry \in Mutations[hook].seeds \cup Mutations[hook].drops
    PROVE  Reached(hook, entry)
BY DEF Reached

\* Every mutation of a part of the screen reaches the entries of another part that it
\* concerns, but for the gaps.
Refreshed(does, shows) ==
    \A hook \in does, entry \in shows :
        Concerns(hook, entry) /\ <<hook, entry>> \notin KnownGaps => Reached(hook, entry)

\* What the page of a loan shows, its collections, its sections and the wizard included.
Money == {"loan", "summary", "transactions", "dueCycles", "openProposal"}
Parties == {"customer", "proofs", "stability", "personnel", "vehicle", "documents"}
Finance == Money \cup Parties \cup {"hpFamilies"}

\* The tables of a loan and its money.
MoneyTables == {"loan", "terms", "cycle", "txn", "punctuality", "penalty", "proposal"}

\* The parties of a loan, their documents and proofs are read from other tables.
LEMMA PartiesAreApart ==
    ASSUME NEW entry \in Parties
    PROVE  Queries[entry].reads \cap MoneyTables = {}
BY PartyQueriesAre, OtherQueriesAre
   DEF Parties, MoneyTables, PartyQueryFacts, OtherQueryFacts, IsRead

\* The ledger tab invalidates the whole ledger; only a confirmation moves a proposal.
LEMMA LedgerTabRefreshes == Refreshed(LedgerTab.does, Finance)
<1> SUFFICES ASSUME NEW hook \in LedgerTab.does, NEW entry \in Finance, Concerns(hook, entry),
                    <<hook, entry>> \notin KnownGaps
             PROVE  Reached(hook, entry)
  BY DEF Refreshed
<1>1. CASE entry \in {"loan", "summary", "transactions", "dueCycles"}
  BY <1>1, LedgerMutationsAre, PrefixesReach DEF LedgerFacts, Has, LoanLedger, Reaches, LedgerTab, Page
<1>2. CASE entry = "openProposal"
  BY <1>2, LedgerMutationsAre, ReviewQueriesAre
     DEF LedgerFacts, Has, ReviewQueryFacts, IsRead, Concerns, KnownGaps, LedgerTab, Page
<1>3. CASE entry \in Parties
  <2>1. Mutations[hook].writes \subseteq MoneyTables
    BY LedgerMutationsAre DEF LedgerFacts, Has, LedgerTab, Page, MoneyTables
  <2> QED
    BY <1>3, <2>1, PartiesAreApart DEF Concerns
<1>4. CASE entry = "hpFamilies"
  BY <1>4, LedgerMutationsAre, LoanQueriesAre
     DEF LedgerFacts, Has, LoanQueryFacts, IsRead, Concerns, LedgerTab, Page
<1> QED
  BY <1>1, <1>2, <1>3, <1>4 DEF Finance, Money

\* A classification invalidates the cycles and the payments of the loan; the loan, what it
\* owes and its proposal are among the gaps.
LEMMA ScheduleTabRefreshes == Refreshed(ScheduleTab.does, Finance)
<1> SUFFICES ASSUME NEW hook \in ScheduleTab.does, NEW entry \in Finance, Concerns(hook, entry),
                    <<hook, entry>> \notin KnownGaps
             PROVE  Reached(hook, entry)
  BY DEF Refreshed
<1>1. CASE entry \in {"transactions", "dueCycles"}
  BY <1>1, ReviewMutationsAre, PrefixesReach DEF ReviewFacts, Has, Reaches, ScheduleTab, Page
<1>2. CASE entry \in {"loan", "summary", "openProposal"}
  BY <1>2 DEF KnownGaps, ScheduleTab, Page
<1>3. CASE entry \in Parties
  <2>1. Mutations[hook].writes \subseteq MoneyTables
    BY ReviewMutationsAre DEF ReviewFacts, Has, ScheduleTab, Page, MoneyTables
  <2> QED
    BY <1>3, <2>1, PartiesAreApart DEF Concerns
<1>4. CASE entry = "hpFamilies"
  BY <1>4, ReviewMutationsAre, LoanQueriesAre
     DEF ReviewFacts, Has, LoanQueryFacts, IsRead, Concerns, ScheduleTab, Page
<1> QED
  BY <1>1, <1>2, <1>3, <1>4 DEF Finance, Money

\* A step of a proposal, and a closure, invalidate the loan and what they decide.
LEMMA ReviewSectionRefreshes == Refreshed(ReviewSection.does, Finance)
<1> SUFFICES ASSUME NEW hook \in ReviewSection.does, NEW entry \in Finance, Concerns(hook, entry),
                    <<hook, entry>> \notin KnownGaps
             PROVE  Reached(hook, entry)
  BY DEF Refreshed
<1>1. CASE entry = "loan"
  BY <1>1, ReviewMutationsAre, LoanMutationsAre, PrefixesReach
     DEF ReviewFacts, LoanFacts, Has, OneLoan, Reaches, ReviewSection, Page
<1>2. CASE entry \in {"summary", "transactions", "dueCycles", "hpFamilies"}
  BY <1>2, ReviewMutationsAre, LoanMutationsAre, LoanQueriesAre
     DEF ReviewFacts, LoanFacts, Has, LoanQueryFacts, IsRead, Concerns, ReviewSection, Page
<1>3. CASE entry = "openProposal"
  BY <1>3, ReviewMutationsAre, LoanMutationsAre, PrefixesReach, ReviewQueriesAre
     DEF ReviewFacts, LoanFacts, Has, Reaches, ReviewQueryFacts, IsRead, Concerns, ReviewSection, Page
<1>4. CASE entry \in Parties
  <2>1. Mutations[hook].writes \subseteq MoneyTables
    BY ReviewMutationsAre, LoanMutationsAre
       DEF ReviewFacts, LoanFacts, Has, ReviewSection, Page, MoneyTables
  <2> QED
    BY <1>4, <2>1, PartiesAreApart DEF Concerns
<1> QED
  BY <1>1, <1>2, <1>3, <1>4 DEF Finance, Money

\* An approval seeds the loan; its cycles and payments are among the gaps.
LEMMA LoanPageRefreshes == Refreshed(LoanPage.does, Finance)
<1> SUFFICES ASSUME NEW hook \in LoanPage.does, NEW entry \in Finance, Concerns(hook, entry),
                    <<hook, entry>> \notin KnownGaps
             PROVE  Reached(hook, entry)
  BY DEF Refreshed
<1>1. CASE entry = "loan"
  BY <1>1, LoanMutationsAre, EntryReached DEF LoanFacts, Has, LoanPage, Page
<1>2. CASE entry \in {"dueCycles", "summary", "transactions", "hpFamilies"}
  BY <1>2, LoanMutationsAre, LoanQueriesAre
     DEF LoanFacts, Has, LoanQueryFacts, IsRead, Concerns, KnownGaps, LoanPage, Page
<1>3. CASE entry = "openProposal"
  BY <1>3, LoanMutationsAre, ReviewQueriesAre
     DEF LoanFacts, Has, ReviewQueryFacts, IsRead, Concerns, LoanPage, Page
<1>4. CASE entry \in Parties
  <2>1. Mutations[hook].writes \subseteq MoneyTables
    BY LoanMutationsAre DEF LoanFacts, Has, LoanPage, Page, MoneyTables
  <2> QED
    BY <1>4, <2>1, PartiesAreApart DEF Concerns
<1> QED
  BY <1>1, <1>2, <1>3, <1>4 DEF Finance, Money

\* The tables of the parties, and of what is stored for them.
PartyTables == {"customer", "vehicle", "newVehicle", "person", "proof", "document", "stability"}

\* What is saved for a party concerns the loan that embeds it, but nothing else of its money.
LEMMA MoneyIsApart ==
    ASSUME NEW entry \in (Money \ {"loan"}) \cup {"hpFamilies"}
    PROVE  Queries[entry].reads \cap PartyTables = {}
BY LoanQueriesAre, ReviewQueriesAre
   DEF Money, PartyTables, LoanQueryFacts, ReviewQueryFacts, IsRead

\* Correcting the loan refreshes the loan; the schedule, what is owed and the hint are gaps.
LEMMA UpdateLoanRefreshes == Refreshed({"updateLoan"}, Finance)
<1> SUFFICES ASSUME NEW entry \in Finance, Concerns("updateLoan", entry),
                    <<"updateLoan", entry>> \notin KnownGaps
             PROVE  Reached("updateLoan", entry)
  BY DEF Refreshed
<1>1. CASE entry = "loan"
  BY <1>1, LoanMutationsAre, PrefixesReach DEF LoanFacts, Has, OneLoan, Reaches
<1>2. CASE entry \in {"dueCycles", "summary", "hpFamilies"}
  BY <1>2 DEF KnownGaps
<1>3. CASE entry \in {"transactions", "openProposal"}
  BY <1>3, LoanMutationsAre, LoanQueriesAre, ReviewQueriesAre
     DEF LoanFacts, Has, LoanQueryFacts, ReviewQueryFacts, IsRead, Concerns
<1>4. CASE entry \in Parties
  <2>1. Mutations["updateLoan"].writes \subseteq MoneyTables
    BY LoanMutationsAre DEF LoanFacts, Has, MoneyTables
  <2> QED
    BY <1>4, <2>1, PartiesAreApart DEF Concerns
<1> QED
  BY <1>1, <1>2, <1>3, <1>4 DEF Finance, Money

\* What a section of the loan saves is seeded or invalidated, for each section apart.
LEMMA LoanSectionsRefresh == Refreshed(LoanSections.does, Finance)
<1> SUFFICES ASSUME NEW hook \in LoanSections.does, NEW entry \in Finance, Concerns(hook, entry),
                    <<hook, entry>> \notin KnownGaps
             PROVE  Reached(hook, entry)
  BY DEF Refreshed
<1>1. CASE hook = "updateLoan"
  BY <1>1, UpdateLoanRefreshes DEF Refreshed
<1>2. CASE hook \in {"updateCustomer", "updateVehicle", "createVehicle"}
  <2>1. CASE entry \in {"customer", "vehicle"}
    BY <1>2, <2>1, PartyMutationsAre, PartyQueriesAre, EntryReached
       DEF PartyFacts, Has, PartyQueryFacts, IsRead, Concerns
  <2>2. CASE entry = "loan"
    BY <1>2, <2>2, PartyMutationsAre, LoanQueriesAre, PrefixesReach
       DEF PartyFacts, Has, LoanQueryFacts, LoanReads, IsRead, Concerns, Reaches, KnownGaps
  <2>3. CASE entry \in Parties \ {"customer", "vehicle"}
    BY <1>2, <2>3, PartyMutationsAre, PartyQueriesAre, OtherQueriesAre
       DEF PartyFacts, Has, PartyQueryFacts, OtherQueryFacts, IsRead, Concerns, Parties
  <2>4. CASE entry \in (Money \ {"loan"}) \cup {"hpFamilies"}
    <3>1. Mutations[hook].writes \subseteq PartyTables
      BY <1>2, PartyMutationsAre DEF PartyFacts, Has, PartyTables
    <3> QED
      BY <2>4, <3>1, MoneyIsApart DEF Concerns
  <2> QED
    BY <2>1, <2>2, <2>3, <2>4 DEF Finance
<1>3. CASE hook \in {"addPersonnel", "updatePersonnel", "updateRole", "removePersonnel"}
  <2>1. CASE entry = "personnel"
    BY <1>3, <2>1, PartyMutationsAre, PrefixesReach DEF PartyFacts, Has, Reaches
  <2>2. CASE entry \in Parties \ {"personnel"}
    BY <1>3, <2>2, PartyMutationsAre, PartyQueriesAre, OtherQueriesAre
       DEF PartyFacts, Has, PartyQueryFacts, OtherQueryFacts, IsRead, Concerns, Parties
  <2>3. CASE entry \in Money \cup {"hpFamilies"}
    BY <1>3, <2>3, PartyMutationsAre, LoanQueriesAre, ReviewQueriesAre
       DEF PartyFacts, Has, LoanQueryFacts, LoanReads, ReviewQueryFacts, IsRead, Concerns, Money
  <2> QED
    BY <2>1, <2>2, <2>3 DEF Finance
<1>4. CASE hook \in {"createProof", "updateProof", "uploadDocument", "deleteDocument", "restoreDocument"}
  <2>1. CASE entry \in {"proofs", "documents"}
    BY <1>4, <2>1, OtherMutationsAre, OtherQueriesAre, PrefixesReach
       DEF OtherFacts, Has, OtherQueryFacts, IsRead, Concerns, Reaches
  <2>2. CASE entry \in Parties \ {"proofs", "documents"}
    BY <1>4, <2>2, OtherMutationsAre, PartyQueriesAre, OtherQueriesAre
       DEF OtherFacts, Has, PartyQueryFacts, OtherQueryFacts, IsRead, Concerns, Parties
  <2>3. CASE entry = "loan"
    BY <1>4, <2>3, OtherMutationsAre, LoanQueriesAre
       DEF OtherFacts, Has, LoanQueryFacts, LoanReads, IsRead, Concerns
  <2>4. CASE entry \in (Money \ {"loan"}) \cup {"hpFamilies"}
    <3>1. Mutations[hook].writes \subseteq PartyTables
      BY <1>4, OtherMutationsAre DEF OtherFacts, Has, PartyTables
    <3> QED
      BY <2>4, <3>1, MoneyIsApart DEF Concerns
  <2> QED
    BY <2>1, <2>2, <2>3, <2>4 DEF Finance
<1> QED
  BY <1>1, <1>2, <1>3, <1>4 DEF LoanSections, Page

\* The wizard saves what the sections save, the new draft and the stability documents.
LEMMA WizardRefreshes == Refreshed(Wizard.does, Wizard.shows)
<1> SUFFICES ASSUME NEW hook \in Wizard.does, NEW entry \in Wizard.shows, Concerns(hook, entry),
                    <<hook, entry>> \notin KnownGaps
             PROVE  Reached(hook, entry)
  BY DEF Refreshed
<1>1. entry \in Parties \cup {"loan", "hpFamilies"}
  BY DEF Wizard, Page, Parties
<1>2. CASE hook \in LoanSections.does
  BY <1>1, <1>2, LoanSectionsRefresh DEF Refreshed, Finance, Money
<1>3. CASE hook = "createLoan"
  <2>1. CASE entry = "loan"
    BY <1>3, <2>1, LoanMutationsAre, EntryReached DEF LoanFacts, Has
  <2>2. CASE entry = "hpFamilies"
    BY <1>3, <2>2 DEF KnownGaps
  <2>3. CASE entry \in Parties
    <3>1. Mutations[hook].writes \subseteq MoneyTables
      BY <1>3, LoanMutationsAre DEF LoanFacts, Has, MoneyTables
    <3> QED
      BY <2>3, <3>1, PartiesAreApart DEF Concerns
  <2> QED
    BY <1>1, <2>1, <2>2, <2>3
<1>4. CASE hook = "createStability"
  <2>1. CASE entry = "stability"
    BY <1>4, <2>1, OtherMutationsAre, PrefixesReach DEF OtherFacts, Has, Reaches
  <2>2. CASE entry \in Parties \ {"stability"}
    BY <1>4, <2>2, OtherMutationsAre, PartyQueriesAre, OtherQueriesAre
       DEF OtherFacts, Has, PartyQueryFacts, OtherQueryFacts, IsRead, Concerns, Parties
  <2>3. CASE entry \in {"loan", "hpFamilies"}
    BY <1>4, <2>3, OtherMutationsAre, LoanQueriesAre
       DEF OtherFacts, Has, LoanQueryFacts, LoanReads, IsRead, Concerns
  <2> QED
    BY <1>1, <2>1, <2>2, <2>3
<1>5. hook \in LoanSections.does \cup {"createLoan", "createStability"}
  BY DEF Wizard, LoanSections, Page
<1> QED
  BY <1>2, <1>3, <1>4, <1>5

\* An approval from the list of finances concerns the list, which no hook names.
LEMMA FinancesPageRefreshes == Refreshed(FinancesPage.does, FinancesPage.shows)
<1> SUFFICES ASSUME Concerns("approveLoan", "customer")
             PROVE  Reached("approveLoan", "customer")
  BY DEF Refreshed, FinancesPage, Page, KnownGaps
<1>1. Mutations["approveLoan"].writes \subseteq MoneyTables
  BY LoanMutationsAre DEF LoanFacts, Has, MoneyTables
<1> QED
  BY <1>1, PartiesAreApart DEF Concerns, Parties

\* A decision on a payment invalidates the ledger and the worklist, one on a proposal
\* all lists of proposals.
LEMMA WorklistRefreshes == Refreshed(Worklist.does, Worklist.shows)
<1> SUFFICES ASSUME NEW hook \in Worklist.does, NEW entry \in Worklist.shows, Concerns(hook, entry),
                    <<hook, entry>> \notin KnownGaps
             PROVE  Reached(hook, entry)
  BY DEF Refreshed
<1>1. CASE hook \in LedgerTab.does /\ entry \in {"worklist", "confirmations"}
  BY <1>1, LedgerMutationsAre, PrefixesReach DEF LedgerFacts, Has, LoanLedger, Reaches, LedgerTab, Page
<1>2. CASE hook \in LedgerTab.does /\ entry \in {"proposals", "candidates"}
  <2>1. CASE hook = "confirmTransaction"
    BY <1>2, <2>1 DEF KnownGaps
  <2>2. CASE hook \in {"createTransaction", "failTransaction"}
    BY <1>2, <2>2, LedgerMutationsAre, ReviewQueriesAre
       DEF LedgerFacts, Has, ReviewQueryFacts, IsRead, Concerns
  <2> QED
    BY <1>2, <2>1, <2>2 DEF Worklist, LedgerTab, Page
<1>3. CASE hook \in {"propose", "review", "reopen"} /\ entry \in {"proposals", "candidates"}
  BY <1>3, ReviewMutationsAre, PrefixesReach DEF ReviewFacts, Has, Reaches
<1>4. CASE hook \in {"propose", "review", "reopen"} /\ entry \in {"worklist", "confirmations"}
  BY <1>4, ReviewMutationsAre, LoanQueriesAre
     DEF ReviewFacts, Has, LoanQueryFacts, IsRead, Concerns, KnownGaps
<1>5. CASE entry = "loanList"
  BY <1>5, ReviewMutationsAre, LoanQueriesAre
     DEF ReviewFacts, Has, LoanQueryFacts, LoanReads, IsRead, Concerns, KnownGaps, Worklist, Page
<1> QED
  BY <1>1, <1>2, <1>3, <1>4, <1>5 DEF Worklist, LedgerTab, Page

\* The pages of a vehicle, a customer, the team, the organization and the cash book.
LEMMA SmallPagesRefresh ==
    \A page \in {VehiclePage, CustomerPage, TeamPage, SettingsPage, CashTab} :
        Refreshed(page.does, page.shows)
<1>1. Refreshed(VehiclePage.does, VehiclePage.shows)
  <2> SUFFICES ASSUME NEW hook \in VehiclePage.does, NEW entry \in VehiclePage.shows,
                      Concerns(hook, entry), <<hook, entry>> \notin KnownGaps
               PROVE  Reached(hook, entry)
    BY DEF Refreshed
  <2>1. CASE entry = "vehicle"
    BY <2>1, PartyMutationsAre, EntryReached DEF PartyFacts, Has, KnownGaps, VehiclePage, Page
  <2>2. CASE entry # "vehicle"
    BY <2>2, PartyMutationsAre, PartyQueriesAre, OtherQueriesAre
       DEF PartyFacts, Has, PartyQueryFacts, OtherQueryFacts, IsRead, Concerns, VehiclePage, Page
  <2> QED
    BY <2>1, <2>2
<1>2. Refreshed(CustomerPage.does, CustomerPage.shows)
  BY PartyMutationsAre, EntryReached DEF Refreshed, PartyFacts, Has, CustomerPage, Page
<1>3. Refreshed(TeamPage.does, TeamPage.shows)
  BY OtherMutationsAre, PrefixesReach DEF Refreshed, OtherFacts, Has, Reaches, TeamPage, Page
<1>4. Refreshed(SettingsPage.does, SettingsPage.shows)
  BY OtherMutationsAre, PrefixesReach DEF Refreshed, OtherFacts, Has, Reaches, SettingsPage, Page
<1>5. Refreshed(CashTab.does, CashTab.shows)
  BY OtherMutationsAre, PrefixesReach DEF Refreshed, OtherFacts, Has, Reaches, CashTab, Page
<1> QED
  BY <1>1, <1>2, <1>3, <1>4, <1>5

\* Every mutation reaches the entries of its page that it concerns, but for the gaps.
EntriesAreReached == \A pair \in SamePage \ KnownGaps : Reached(pair[1], pair[2])

\* All screens together.
LEMMA PagesAreRefreshed == EntriesAreReached
<1> SUFFICES ASSUME NEW pair \in SamePage \ KnownGaps
             PROVE  Reached(pair[1], pair[2])
  BY DEF EntriesAreReached
<1>1. PICK together \in Screens : \E doing \in together, showing \in together :
          pair[1] \in doing.does /\ pair[2] \in showing.shows
  BY DEF SamePage
<1>2. PICK doing \in together, showing \in together : pair[1] \in doing.does /\ pair[2] \in showing.shows
  BY <1>1
<1>3. Concerns(pair[1], pair[2]) /\ <<pair[1], pair[2]>> \notin KnownGaps
  BY DEF SamePage
<1> SUFFICES Refreshed(doing.does, showing.shows)
  BY <1>2, <1>3 DEF Refreshed
<1>4. CASE together \in {{CollectionsPage, LedgerTab, ScheduleTab, ReviewSection},
                       {LoanPage, LoanSections, LedgerTab, ScheduleTab, ReviewSection}}
  <2>1. showing.shows \subseteq Finance
    BY <1>2, <1>4 DEF CollectionsPage, LedgerTab, ScheduleTab, ReviewSection, LoanPage, LoanSections,
       Page, Finance, Money, Parties
  <2>2. Refreshed(doing.does, Finance)
    <3>1. CollectionsPage.does = {}
      BY DEF CollectionsPage, Page
    <3> QED
      BY <1>2, <1>4, <3>1, LedgerTabRefreshes, ScheduleTabRefreshes, ReviewSectionRefreshes,
         LoanPageRefreshes, LoanSectionsRefresh DEF Refreshed
  <2> QED
    BY <2>1, <2>2 DEF Refreshed
<1>5. CASE together \in {{Wizard}, {FinancesPage}, {Worklist}, {VehiclePage}, {CustomerPage}, {TeamPage},
                       {SettingsPage}, {CashTab}}
  BY <1>2, <1>5, WizardRefreshes, FinancesPageRefreshes, WorklistRefreshes, SmallPagesRefresh
<1> QED
  BY <1>4, <1>5 DEF Screens

\* A settled mutation leaves no answer from before it under way, and no unmarked copy,
\* unless it raced with one.
CacheIsCurrent ==
    step = "settled" /\ ~raced =>
        /\ fetch # "before"
        /\ <<m, q>> \notin KnownGaps /\ data = "before" => invalid

\* onSuccess of a hook leaves the entry in its type.
LEMMA SettleTypes == ASSUME CacheTypeOK, Settle PROVE CacheTypeOK'
<1>1. /\ q' = q /\ m' = m /\ mounted' = mounted /\ step' = "settled"
      /\ data' \in {"none", "after", data}
      /\ invalid' \in BOOLEAN /\ aged' \in BOOLEAN /\ error' \in BOOLEAN /\ raced' \in BOOLEAN
  BY DEF Settle, OnSuccess
<1>2. fetch' \in {fetch, "asked"} /\ retried' \in {retried, FALSE}
  BY DEF Settle, OnSuccess, StartFetch
<1> QED
  BY <1>1, <1>2 DEF CacheTypeOK

\* onSuccess of a hook replaces, drops or marks the old copy.
LEMMA SettleIsCurrent ==
    ASSUME CacheTypeOK, Settle
    PROVE  CacheIsCurrent'
<1>1. <<m, q>> \in SamePage /\ m' = m /\ q' = q
  BY DEF CacheTypeOK, Settle
<1>2. ASSUME ~raced' PROVE fetch' # "before"
  <2>1. CASE Refetches
    BY <2>1 DEF Settle, OnSuccess, StartFetch
  <2>2. CASE ~Refetches
    BY <1>2, <2>2 DEF Settle, OnSuccess
  <2> QED
    BY <2>1, <2>2
<1>3. ASSUME <<m, q>> \notin KnownGaps, data' = "before" PROVE invalid'
  <2>1. Reached(m, q)
    BY <1>1, <1>3, PagesAreRefreshed DEF EntriesAreReached
  <2>2. q \notin Mutations[m].drops /\ ~SeededNow
    BY <1>3 DEF Settle, OnSuccess
  <2>3. Invalidates(m, q)
    BY <2>1, <2>2 DEF Reached, SeededNow
  <2> QED
    BY <2>3 DEF Settle, OnSuccess
<1> QED
  BY <1>1, <1>2, <1>3 DEF CacheIsCurrent

\* Every action keeps the types.
LEMMA CacheStepTypes ==
    ASSUME CacheTypeOK, [CacheNext]_cacheVars
    PROVE  CacheTypeOK'
<1>1. CASE Mount
  BY <1>1 DEF Mount, StartFetch, CacheTypeOK
<1>2. CASE Unmount
  BY <1>2 DEF Unmount, cache, CacheTypeOK
<1>3. CASE Collect
  BY <1>3 DEF Collect, CacheTypeOK
<1>4. CASE Age
  BY <1>4 DEF Age, CacheTypeOK
<1>5. CASE ServerAnswers
  BY <1>5 DEF ServerAnswers, CacheTypeOK
<1>6. CASE QuerySucceeds
  BY <1>6 DEF QuerySucceeds, CacheTypeOK
<1>7. CASE QueryFails
  BY <1>7 DEF QueryFails, CacheTypeOK
<1>8. CASE Mutate \/ ServerCommits \/ MutationFails
  BY <1>8 DEF Mutate, ServerCommits, MutationFails, cache, CacheTypeOK
<1>9. CASE Settle
  BY <1>9, SettleTypes
<1>10. CASE UNCHANGED cacheVars
  BY <1>10 DEF cacheVars, cache, CacheTypeOK
<1> QED
  BY <1>1, <1>2, <1>3, <1>4, <1>5, <1>6, <1>7, <1>8, <1>9, <1>10 DEF CacheNext

\* Only the success of the mutation can leave a copy from before it unmarked.
LEMMA CacheStepIsCurrent ==
    ASSUME CacheTypeOK, CacheIsCurrent, [CacheNext]_cacheVars
    PROVE  CacheIsCurrent'
<1>1. CASE Mount
  BY <1>1 DEF Mount, StartFetch, CacheIsCurrent
<1>2. CASE Unmount
  BY <1>2 DEF Unmount, cache, CacheIsCurrent
<1>3. CASE Collect
  BY <1>3 DEF Collect, CacheIsCurrent
<1>4. CASE Age
  BY <1>4 DEF Age, CacheIsCurrent
<1>5. CASE ServerAnswers
  BY <1>5 DEF ServerAnswers, CacheIsCurrent
<1>6. CASE QuerySucceeds
  BY <1>6 DEF QuerySucceeds, CacheIsCurrent
<1>7. CASE QueryFails
  BY <1>7 DEF QueryFails, CacheIsCurrent
<1>8. CASE Mutate \/ ServerCommits \/ MutationFails
  BY <1>8 DEF Mutate, ServerCommits, MutationFails, cache, CacheIsCurrent
<1>9. CASE Settle
  BY <1>9, SettleIsCurrent
<1>10. CASE UNCHANGED cacheVars
  BY <1>10 DEF cacheVars, cache, CacheIsCurrent
<1> QED
  BY <1>1, <1>2, <1>3, <1>4, <1>5, <1>6, <1>7, <1>8, <1>9, <1>10 DEF CacheNext

\* The entry, the fetch and the mutation keep their types.
THEOREM CacheTypeCorrect == CacheSpec => []CacheTypeOK
<1>1. CacheInit => CacheTypeOK
  <2> SUFFICES ASSUME CacheInit PROVE CacheTypeOK
    OBVIOUS
  <2>1. <<m, q>> \in SamePage
    BY DEF CacheInit, SamePage
  <2> QED
    BY <2>1 DEF CacheInit, CacheTypeOK
<1> QED
  BY <1>1, CacheStepTypes, PTL DEF CacheSpec

\* But for the hooks in KnownGaps and an answer that raced with it, no copy from before the
\* user's own change passes for current on the page that made it, whatever fetches, retries,
\* mounts and collections surround the change (the onSuccess of the hooks in api/queries).
THEOREM OwnChangesMarkCopies == CacheSpec => []OldCopyIsMarked
<1>1. CacheInit => CacheIsCurrent
  BY DEF CacheInit, CacheIsCurrent
<1>2. CacheTypeOK /\ CacheIsCurrent /\ [CacheNext]_cacheVars => CacheIsCurrent'
  BY CacheStepIsCurrent
<1>3. CacheIsCurrent => OldCopyIsMarked
  BY DEF CacheIsCurrent, OldCopyIsMarked
<1> QED
  BY <1>1, <1>2, <1>3, CacheTypeCorrect, PTL DEF CacheSpec
=============================================================================
