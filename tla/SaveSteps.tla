----------------------------- MODULE SaveSteps -----------------------------
(***************************************************************************)
(* The forms that save in two requests: the first makes a record (a        *)
(* vehicle, a person, an uploaded document), its success sends the second, *)
(* which attaches the record (to the loan, to the customer).  Either may   *)
(* fail, with or without having been carried out, the page may be left in  *)
(* between, and the user may try again; every try starts with the first    *)
(* request.  Other users are left out.                                     *)
(***************************************************************************)
EXTENDS Naturals

CONSTANT MaxTries

ASSUME TriesAssumption == MaxTries \in Nat

Tries == 1..MaxTries

VARIABLES
    chain,      \* the form
    stage,      \* how far each try has come
    made,       \* the tries whose first record is on the server
    attached,   \* the tries whose second request was carried out
    first,      \* the try whose first request the form goes on with, 0 none
    second,     \* the try whose second request it waits for, 0 none
    shown,      \* what the form shows
    told,       \* the tries that ended with an error on the screen
    leftBehind, \* the tries under way when the page, or their uploader, was left
    dropped,    \* the tries another one of the same form took the place of
    overtaken,  \* the tries under way when a record took the form off the screen
    proof       \* the request after the second, of a person's document

saveVars == <<chain, stage, made, attached, first, second, shown, told, leftBehind, dropped,
              overtaken, proof>>

-----------------------------------------------------------------------------
(* unique: a second record of the same plate, or mobile number, is refused.  *)
(* finds: the first request looks the record up, the user sends the second.  *)
(* again: a try may begin while another one is under way, by a file that is  *)
(* dropped or replaced, or by a new search.  ends: success closes the form,  *)
(* mounts a fresh uploader or changes nothing.  yields: the form makes way   *)
(* for the record when the page has read it from the server.                 *)

Chain(unique, finds, again, ends, yields) ==
    [unique |-> unique, finds |-> finds, again |-> again, ends |-> ends, yields |-> yields]

VehicleCreateForm == Chain(TRUE, FALSE, FALSE, "closed", TRUE)
VehicleCreateCard == Chain(TRUE, FALSE, FALSE, "same", TRUE)
AddPersonnelForm == Chain(TRUE, FALSE, FALSE, "closed", FALSE)
WizardAddPersonnelForm == Chain(TRUE, FALSE, FALSE, "closed", FALSE)
FindExistingPerson == Chain(FALSE, TRUE, TRUE, "closed", FALSE)
CustomerProofRow == Chain(FALSE, FALSE, TRUE, "same", TRUE)
IdentityProofRow == Chain(FALSE, FALSE, TRUE, "closed", TRUE)
StabilityRow == Chain(FALSE, FALSE, TRUE, "closed", TRUE)
\* The row takes any number of documents.
PersonnelIdDocs == Chain(FALSE, FALSE, TRUE, "fresh", FALSE)

Chains ==
    [VehicleCreateForm |-> VehicleCreateForm,
     VehicleCreateCard |-> VehicleCreateCard,
     AddPersonnelForm |-> AddPersonnelForm,
     WizardAddPersonnelForm |-> WizardAddPersonnelForm,
     FindExistingPerson |-> FindExistingPerson,
     CustomerProofRow |-> CustomerProofRow,
     IdentityProofRow |-> IdentityProofRow,
     StabilityRow |-> StabilityRow,
     PersonnelIdDocs |-> PersonnelIdDocs]

Form == Chains[chain]

Begun == {t \in Tries : stage[t] # "none"}
Running == {t \in Begun : stage[t] # "over"}

\* The tries whose answers the form still acts on.
Awaited == {first, second} \ {0}

SaveInit ==
    /\ chain \in DOMAIN Chains
    /\ stage = [t \in Tries |-> "none"]
    /\ made = {} /\ attached = {}
    /\ first = 0 /\ second = 0 /\ shown = "form"
    /\ told = {} /\ leftBehind = {} /\ dropped = {} /\ overtaken = {}
    /\ proof = "none"

\* The button is off while a request of the form is on its way.  Another file is
\* uploaded beside the record of the last one; another search resets the link.
Try(t) ==
    /\ shown = "form"
    /\ t \notin Begun /\ \A u \in Tries : u < t => u \in Begun
    /\ Awaited # {} => Form.again
    /\ stage' = [stage EXCEPT ![t] = "first"]
    /\ first' = t
    /\ second' = IF Form.finds THEN 0 ELSE second
    /\ dropped' = dropped \cup (Awaited \ {second'})
    /\ UNCHANGED <<chain, made, attached, shown, told, leftBehind, overtaken, proof>>

RecordRefused(t) == Form.unique /\ made \ {t} # {}

\* A person that is looked up is on the server already.
FirstDone(t) ==
    /\ stage[t] = "first"
    /\ ~RecordRefused(t)
    /\ stage' = [stage EXCEPT ![t] = "made"]
    /\ made' = IF Form.finds THEN made ELSE made \cup {t}
    /\ UNCHANGED <<chain, attached, first, second, shown, told, leftBehind, dropped, overtaken, proof>>

\* The second request is sent, and takes the place of an earlier one on the screen.
SendSecond(t) ==
    /\ stage' = [stage EXCEPT ![t] = "second"]
    /\ first' = 0 /\ second' = t
    /\ dropped' = dropped \cup ({second} \ {0})

\* The success of the first request is followed by the second only while the
\* form is there and goes on with this try.
FirstAnswered(t) ==
    /\ stage[t] = "made"
    /\ IF t = first /\ ~Form.finds
       THEN SendSecond(t)
       ELSE /\ stage' = [stage EXCEPT ![t] = IF t = first THEN "found" ELSE "over"]
            /\ UNCHANGED <<first, second, dropped>>
    /\ UNCHANGED <<chain, made, attached, shown, told, leftBehind, overtaken, proof>>

UseThisPerson(t) ==
    /\ t = first /\ stage[t] = "found"
    /\ SendSecond(t)
    /\ UNCHANGED <<chain, made, attached, shown, told, leftBehind, overtaken, proof>>

SecondDone(t) ==
    /\ stage[t] = "second"
    /\ stage' = [stage EXCEPT ![t] = "attached"]
    /\ attached' = attached \cup {t}
    /\ UNCHANGED <<chain, made, first, second, shown, told, leftBehind, dropped, overtaken, proof>>

\* The uploader goes with the form, or for a fresh one, and with it the file that is
\* being uploaded as a replacement: its answer calls nothing any more.
UploaderGoes ==
    /\ first' = 0
    /\ overtaken' = overtaken \cup ({first} \ {0})

\* The form closes, or the row shows its document.  A document of a new person
\* is recorded by one more request, whose answer has no place on the screen.
SecondAnswered(t) ==
    /\ stage[t] = "attached"
    /\ stage' = [stage EXCEPT ![t] = "over"]
    /\ IF t = second
       THEN /\ second' = 0
            /\ shown' = IF Form.ends = "closed" THEN "done" ELSE shown
            /\ IF Form.ends = "same" THEN UNCHANGED <<first, overtaken>> ELSE UploaderGoes
            /\ proof' \in IF chain \in {"AddPersonnelForm", "WizardAddPersonnelForm"}
                          THEN {"none", "sent"} ELSE {proof}
       ELSE UNCHANGED <<first, second, shown, overtaken, proof>>
    /\ UNCHANGED <<chain, made, attached, told, leftBehind, dropped>>

ProofAnswered ==
    /\ proof = "sent"
    /\ proof' \in {"kept", "lost"}
    /\ UNCHANGED <<chain, stage, made, attached, first, second, shown, told, leftBehind, dropped,
                   overtaken>>

\* A person that was found can be linked again, the others start anew.
TryEnds(t) ==
    /\ t \in Running /\ stage[t] # "found"
    /\ IF Form.finds /\ t = second
       THEN stage' = [stage EXCEPT ![t] = "found"] /\ first' = t
       ELSE /\ stage' = [stage EXCEPT ![t] = "over"]
            /\ first' = IF t = first THEN 0 ELSE first
    /\ second' = IF t = second THEN 0 ELSE second
    /\ UNCHANGED <<chain, made, attached, shown, leftBehind, dropped, overtaken, proof>>

\* Mutant: only the errors of the first request have a place on the screen.
TryFailsUntold(t) == TryEnds(t) /\ told' = IF t = first THEN told \cup {t} ELSE told

\* Refused, or the network failed, before or after the server carried it out.
TryFails(t) == TryEnds(t) /\ told' = IF t \in Awaited THEN told \cup {t} ELSE told

\* The uploader of a stability document goes while the user clears its description
\* or its number of cheques; the row itself stays.
UploaderHidden ==
    /\ chain = "StabilityRow" /\ shown = "form"
    /\ first # 0
    /\ first' = 0
    /\ leftBehind' = leftBehind \cup {first}
    /\ UNCHANGED <<chain, stage, made, attached, second, shown, told, dropped, overtaken, proof>>

\* Cancel is off while a record is attached; another page, another step of the
\* wizard, a fold of the section and a page that shows an error instead are not.
LeavePage ==
    /\ shown # "away"
    /\ shown' = "away"
    /\ first' = 0 /\ second' = 0
    /\ leftBehind' = leftBehind \cup Awaited
    /\ UNCHANGED <<chain, stage, made, attached, told, dropped, overtaken, proof>>

\* The page has read the loan again, whenever that is: a record that was attached
\* shows in place of a form that makes way for it, whatever that form waits for.
ReadRecord ==
    /\ attached # {} /\ Form.yields
    /\ shown' = "done"
    /\ first' = 0 /\ second' = 0
    /\ overtaken' = overtaken \cup Awaited
    /\ UNCHANGED <<chain, stage, made, attached, told, leftBehind, dropped, proof>>

\* Otherwise the form is there, or can be opened again.
ReadPage ==
    /\ attached = {} \/ ~Form.yields
    /\ shown' = "form"
    /\ UNCHANGED <<chain, stage, made, attached, first, second, told, leftBehind, dropped, overtaken,
                   proof>>

SaveNext ==
    \/ \E t \in Tries :
           \/ Try(t) \/ FirstDone(t) \/ FirstAnswered(t) \/ UseThisPerson(t)
           \/ SecondDone(t) \/ SecondAnswered(t) \/ TryFails(t)
    \/ ProofAnswered \/ UploaderHidden \/ LeavePage \/ ReadRecord \/ ReadPage

SaveSpec == SaveInit /\ [][SaveNext]_saveVars

-----------------------------------------------------------------------------
SaveTypeOK ==
    /\ chain \in DOMAIN Chains
    /\ stage \in [Tries -> {"none", "first", "made", "found", "second", "attached", "over"}]
    /\ {made, attached, told, leftBehind, dropped, overtaken} \subseteq SUBSET Begun
    /\ {first, second} \subseteq Running \cup {0}
    /\ shown \in {"form", "done", "away"}
    /\ proof \in {"none", "sent", "kept", "lost"}

\* A try that has ended has done both of its requests, unless its error was shown,
\* the user took the form away meanwhile or put another in its place, or the record of an
\* earlier try took the form off the screen under it; and a form that is done has a
\* record attached.  In no other way does a save stop half way with the form behaving
\* as if it were complete.
HalfSavesAreTold ==
    /\ \A t \in Begun \ Running : t \in attached \cup told \cup leftBehind \cup dropped \cup overtaken
    /\ \A t \in overtaken \ attached : \E u \in attached : u < t
    /\ shown = "done" => attached # {}
=============================================================================
