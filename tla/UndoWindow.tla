----------------------------- MODULE UndoWindow -----------------------------
(***************************************************************************)
(* The lists whose rows can be deleted and, for a few seconds, restored:   *)
(* the payments of a loan and its documents.  The row that was deleted is  *)
(* kept by the screen, in its place, until a timer runs out; the list      *)
(* itself is a copy of the server's that is read again after every change. *)
(* Requests may fail, with or without having been carried out.             *)
(***************************************************************************)
CONSTANT Rows

VARIABLES
    gone,      \* the deleted rows, on the server
    listed,    \* the rows of the last list that was received
    reading,   \* the list a read under way will bring, if there is one
    outdated,  \* the copy is to be read again
    deletion,  \* the deletion of each row: "none", "sent" or "done"
    watched,   \* the deletion whose success opens the window
    restoring, \* the restoration under way
    restored,  \* it was carried out
    undo,      \* the row offered for restoring
    timers,    \* the rows whose timer runs
    untold     \* rows whose last change this screen was not, or may not be, told of

undoVars == <<gone, listed, reading, outdated, deletion, watched, restoring, restored,
              undo, timers, untold>>

None == "none"

ASSUME NoneIsNoRow == None \notin Rows

\* The rows with their own buttons: the one that is offered is left out of them.
Plain == listed \ {undo}
Deleting == {r \in Rows : deletion[r] # "none"}

UndoInit ==
    /\ gone = {} /\ listed = Rows /\ reading = {} /\ outdated = FALSE
    /\ deletion = [r \in Rows |-> "none"]
    /\ watched = None /\ restoring = None /\ restored = FALSE
    /\ undo = None /\ timers = {} /\ untold = {}

\* While a deletion is on its way another document may be deleted, and its window
\* takes the place of the first one's.  Payments hold the other rows back, which only
\* leaves behaviours out.
Delete(r) ==
    /\ r \in Plain /\ deletion[r] = "none"
    /\ deletion' = [deletion EXCEPT ![r] = "sent"]
    /\ watched' = r
    /\ untold' = untold \cup ({r} \cap {restoring})
    /\ UNCHANGED <<gone, listed, reading, outdated, restoring, restored, undo, timers>>

DeleteDone(r) ==
    /\ deletion[r] = "sent" /\ r \notin gone
    /\ deletion' = [deletion EXCEPT ![r] = "done"]
    /\ gone' = gone \cup {r}
    /\ UNCHANGED <<listed, reading, outdated, watched, restoring, restored, undo, timers,
                   untold>>

\* A success marks the list and drops a read that is under way.
Invalidate == outdated' = TRUE /\ reading' = {}

\* The timer of an earlier deletion is cleared.
DeleteAnswered(r) ==
    /\ deletion[r] = "done"
    /\ deletion' = [deletion EXCEPT ![r] = "none"]
    /\ Invalidate
    /\ IF r = watched THEN undo' = r /\ timers' = {r} ELSE UNCHANGED <<undo, timers>>
    /\ UNCHANGED <<gone, listed, watched, restoring, restored, untold>>

DeleteFails(r) ==
    /\ deletion[r] # "none"
    /\ deletion' = [deletion EXCEPT ![r] = "none"]
    /\ untold' = untold \cup {r}
    /\ UNCHANGED <<gone, listed, reading, outdated, watched, restoring, restored, undo,
                   timers>>

TimeIsUp(r) ==
    /\ r \in timers
    /\ timers' = timers \ {r}
    /\ undo' = None
    /\ UNCHANGED <<gone, listed, reading, outdated, deletion, watched, restoring, restored,
                   untold>>

\* Restore is not held back by a deletion that is under way.
Restore ==
    /\ undo # None /\ restoring = None
    /\ restoring' = undo /\ restored' = FALSE
    /\ UNCHANGED <<gone, listed, reading, outdated, deletion, watched, undo, timers,
                   untold>>

RestoreDone ==
    /\ restoring \in gone
    /\ gone' = gone \ {restoring}
    /\ restored' = TRUE
    /\ UNCHANGED <<listed, reading, outdated, deletion, watched, restoring, undo, timers,
                   untold>>

\* Mutant: the window stays open until its timer closes it.
RestoreAnsweredOpen ==
    /\ restoring # None /\ restored
    /\ restoring' = None
    /\ Invalidate
    /\ UNCHANGED <<gone, listed, deletion, watched, restored, undo, timers, untold>>

\* The window that is open is closed, whichever row it offers.
RestoreAnswered ==
    /\ restoring # None /\ restored
    /\ restoring' = None
    /\ undo' = None /\ timers' = {}
    /\ Invalidate
    /\ UNCHANGED <<gone, listed, deletion, watched, restored, untold>>

RestoreFails ==
    /\ restoring # None
    /\ restoring' = None
    /\ untold' = untold \cup {restoring}
    /\ UNCHANGED <<gone, listed, reading, outdated, deletion, watched, restored, undo,
                   timers>>

\* A read that fails is started again, at once or by a later change.
ReadList ==
    /\ reading' = {Rows \ gone}
    /\ UNCHANGED <<gone, listed, outdated, deletion, watched, restoring, restored, undo,
                   timers, untold>>

\* A list that is up to date tells of every change, except of a row that is offered
\* or has a request under way.
Received ==
    /\ reading # {}
    /\ listed' \in reading /\ reading' = {} /\ outdated' = FALSE
    /\ untold' = IF listed' = Rows \ gone
                 THEN untold \cap ({undo, restoring} \cup Deleting) ELSE untold
    /\ UNCHANGED <<gone, deletion, watched, restoring, restored, undo, timers>>

\* The screen is left and opened again: its window and its timer are gone.  The
\* requests under way end meanwhile, or only mark the list for a new read.
LeaveList ==
    /\ undo' = None /\ timers' = {} /\ watched' = None
    /\ restoring' = None
    /\ gone' \in {gone, gone \ {restoring}}
    /\ Invalidate
    /\ UNCHANGED <<listed, deletion, restored, untold>>

UndoNext ==
    \/ \E r \in Rows :
           \/ Delete(r) \/ DeleteDone(r) \/ DeleteAnswered(r) \/ DeleteFails(r)
           \/ TimeIsUp(r)
    \/ Restore \/ RestoreDone \/ RestoreAnswered \/ RestoreFails
    \/ ReadList \/ Received \/ LeaveList

UndoSpec == UndoInit /\ [][UndoNext]_undoVars

-----------------------------------------------------------------------------
UndoTypeOK ==
    /\ {gone, listed, timers, untold} \subseteq SUBSET Rows
    /\ reading \subseteq SUBSET Rows
    /\ outdated \in BOOLEAN /\ restored \in BOOLEAN
    /\ deletion \in [Rows -> {"none", "sent", "done"}]
    /\ {watched, restoring, undo} \subseteq Rows \cup {None}

\* A row is offered for restoring only while it is deleted and its own timer runs,
\* and once all requests are answered and the list was read again, it shows as
\* usual exactly the rows that are not deleted: whatever was clicked meanwhile, no
\* live payment is missing and no deleted one can be confirmed.  Left out are the
\* rows the screen could not be told about, after an error, or
\* deleted again while their restoration is under way.
RowsTellTheTruth ==
    /\ undo # None => timers = {undo}
    /\ undo \in Rows \ untold => undo \in gone \/ (restoring = undo /\ restored)
    /\ ~outdated /\ Deleting = {} /\ restoring = None =>
           \A r \in Rows \ untold : r \in Plain <=> r \notin gone
=============================================================================
