----------------------------- MODULE SearchBox -----------------------------
(***************************************************************************)
(* The search box of the list pages (Finances, Customers, Vehicles, Team,  *)
(* Collections): what is typed goes to the URL 300 ms after the last key,  *)
(* and the box follows the URL when something else changed it.  A          *)
(* navigation and its rendering are one step.                              *)
(***************************************************************************)
EXTENDS Naturals, Sequences

CONSTANT MaxEntries   \* bound on the entries of the browser's history

ASSUME EntriesAssumption == MaxEntries \in Nat \ {0}

VARIABLES
    history,   \* search terms of the entries of this page
    here,      \* the entry shown, 0 while another page is shown
    left,      \* the entry from which the page was left
    draft,     \* text in the box
    timer,     \* the debounce is running
    written    \* lastWrittenSearch

searchVars == <<history, here, left, draft, timer, written>>

\* A text with a blank at its end is searched for without it.
Drafts == {"", "a", "a ", "ab"}
Terms == {"", "a", "ab"}
Trim(text) == IF text = "a " THEN "a" ELSE text

SearchTypeOK ==
    /\ history \in UNION {[1..n -> Terms] : n \in 1..MaxEntries}
    /\ {here, left} \subseteq 0..Len(history)
    /\ draft \in Drafts /\ written \in Terms
    /\ timer \in BOOLEAN

\* The component is mounted: its first effect starts no timer.
Mounted(term) == draft' = term /\ written' = term /\ timer' = FALSE

\* Mutant: the box keeps its text whatever the URL says.
FollowNothing(term, last) == UNCHANGED <<draft, timer>> /\ written' = last

\* The effect on searchTerm: a term that is not the one written last is put
\* into the box, and a box that changes starts the timer anew.
Follow(term, last) ==
    IF term # last
    THEN /\ written' = term
         /\ draft' = term
         /\ timer' = (timer \/ draft # term)
    ELSE written' = last /\ UNCHANGED <<draft, timer>>

SearchInit ==
    /\ \E term \in Terms : history = <<term>> /\ draft = term /\ written = term
    /\ here = 1 /\ left = 0
    /\ timer = FALSE

TypeTerm(text) ==
    /\ here # 0 /\ text # draft
    /\ draft' = text
    /\ timer' = TRUE
    /\ UNCHANGED <<history, here, left, written>>

\* Mutant: what was written is not remembered.
TickUnremembered ==
    /\ here # 0 /\ timer
    /\ history' = [history EXCEPT ![here] = Trim(draft)]
    /\ IF Trim(draft) # written
       THEN written' = Trim(draft) /\ draft' = Trim(draft)
       ELSE UNCHANGED <<written, draft>>
    /\ timer' = FALSE
    /\ UNCHANGED <<here, left>>

\* 300 ms without a key: the entry shown is replaced.
Tick ==
    /\ here # 0 /\ timer
    /\ history' = [history EXCEPT ![here] = Trim(draft)]
    /\ written' = Trim(draft)
    /\ timer' = FALSE
    /\ UNCHANGED <<here, left, draft>>

\* A chip adds an entry with the same search, the link of the menu one without.
Push(term) ==
    /\ here # 0 /\ here < MaxEntries
    /\ history' = Append(SubSeq(history, 1, here), term)
    /\ here' = here + 1
    /\ Follow(term, written)
    /\ UNCHANGED left

\* Chips whose handler says replace, and the buttons of the browser.
Go(to) ==
    /\ here # 0 /\ to \in 1..Len(history)
    /\ here' = to
    /\ Follow(history[to], written)
    /\ UNCHANGED <<history, left>>

\* Another page is opened: the timer is cleared.
LeaveLists ==
    /\ here # 0
    /\ left' = here /\ here' = 0
    /\ timer' = FALSE
    /\ UNCHANGED <<history, draft, written>>

Return ==
    /\ here = 0
    /\ here' = left /\ left' = 0
    /\ Mounted(history[left])
    /\ UNCHANGED history

SearchNext ==
    \/ \E text \in Drafts : TypeTerm(text)
    \/ Tick
    \/ here # 0 /\ \E term \in {history[here], ""} : Push(term)
    \/ \E to \in {here - 1, here + 1} : Go(to)
    \/ LeaveLists \/ Return

SearchSpec == SearchInit /\ [][SearchNext]_searchVars

-----------------------------------------------------------------------------
(* The box and the list agree once no write is due, whatever the user did     *)
(* with the history meanwhile.                                                *)
BoxMatchesSearch == here # 0 /\ ~timer => Trim(draft) = history[here]

(* The page's own write never changes what is being typed ("we'd overwrite    *)
(* mid-typing on every debounced commit").                                    *)
TypingIsKept == [][here # 0 /\ timer /\ ~timer' /\ here' = here => draft' = draft]_searchVars
=============================================================================
