--------------------------- MODULE DocumentVault ---------------------------
(***************************************************************************)
(* Documents in two stores without a common transaction: the row in the    *)
(* database, the file in S3, under the active or the archive prefix.  A    *)
(* deletion and a restoration move the file between the flush of the row   *)
(* and its commit, and move it back when something fails; an upload puts   *)
(* the file first.  S3 or the database may fail at any step, the process   *)
(* may die, and requests on one document may overlap.                      *)
(***************************************************************************)
EXTENDS Naturals

CONSTANTS
    Docs,      \* the documents, all of the same file, customer and type
    Requests,  \* the workers that serve a request at a time
    MaxFaults  \* failures and crashes

ASSUME FaultsAssumption == MaxFaults \in Nat

VARIABLES
    row,         \* the committed row of each document
    active,      \* the documents with a file under the active prefix
    archive,     \* those with a file under the archive prefix
    req,         \* what each worker does
    faults,      \* number of failures so far
    overlapped,  \* documents with two requests at once
    interrupted, \* documents whose request stopped without its undo, or died
    unsure       \* documents whose commit was carried out and not answered

vaultVars == <<row, active, archive, req, faults, overlapped, interrupted, unsure>>

-----------------------------------------------------------------------------
Idle == [op |-> "none", at |-> "idle"]

WorkingOn(d) == {r \in Requests : req[r] # Idle /\ req[r].doc = d}
At(r, stages) == req[r].at \in stages
Goto(r, stage) == req' = [req EXCEPT ![r].at = stage]
Finish(r) == req' = [req EXCEPT ![r] = Idle]

\* From the flush to the commit or the rollback a request holds its row.
InTransaction == {"flushed", "copied", "moved"}

\* The file goes from here ...
Source(op) == IF op = "delete" THEN active ELSE archive
\* ... to there.
Target(op) == IF op = "delete" THEN archive ELSE active

PutAt(op, d) ==
    IF op = "delete" THEN archive' = archive \cup {d} /\ UNCHANGED active
                     ELSE active' = active \cup {d} /\ UNCHANGED archive

TakeFrom(op, d) ==
    IF op = "delete" THEN active' = active \ {d} /\ UNCHANGED archive
                     ELSE archive' = archive \ {d} /\ UNCHANGED active

Reverse(op) == IF op = "delete" THEN "restore" ELSE "delete"

VaultInit ==
    /\ row = [d \in Docs |-> "none"]
    /\ active = {} /\ archive = {}
    /\ req = [r \in Requests |-> Idle]
    /\ faults = 0
    /\ overlapped = {} /\ interrupted = {} /\ unsure = {}

\* The route reads the row; a refusal writes nothing.  A document is followed until
\* two requests overlap on it or the answer of a commit is lost.
Begin(r, op, d) ==
    /\ req[r] = Idle
    /\ d \notin overlapped \cup unsure
    /\ CASE op = "upload" -> /\ row[d] = "none" /\ d \notin active /\ WorkingOn(d) = {}
                             /\ \A e \in Docs : row[e] # "live"
         [] op = "delete" -> row[d] = "live"
         [] op = "restore" -> row[d] = "deleted"
    /\ req' = [req EXCEPT ![r] = [op |-> op, doc |-> d, at |-> "read"]]
    /\ overlapped' = IF WorkingOn(d) = {} THEN overlapped ELSE overlapped \cup {d}
    /\ UNCHANGED <<row, active, archive, faults, interrupted, unsure>>

Put(r) ==
    /\ At(r, {"read"}) /\ req[r].op = "upload"
    /\ active' = active \cup {req[r].doc}
    /\ Goto(r, "stored")
    /\ UNCHANGED <<row, archive, faults, overlapped, interrupted, unsure>>

\* Another live document of the same file: one that is not committed is waited
\* for, one that is makes the flush fail.
MakesLive(r) == req[r].op \in {"upload", "restore"}
Blocked(r) ==
    \E s \in Requests \ {r} :
        /\ At(s, InTransaction)
        /\ req[s].doc = req[r].doc \/ MakesLive(r)
Duplicate(r) == MakesLive(r) /\ \E e \in Docs \ {req[r].doc} : row[e] = "live"

\* An upload has nothing to move: after its flush it is ready to commit.
Flush(r) ==
    /\ At(r, {"read", "stored"}) /\ (req[r].op = "upload" => At(r, {"stored"}))
    /\ ~Blocked(r)
    /\ Goto(r, IF Duplicate(r) THEN "undo" ELSE IF req[r].op = "upload" THEN "moved" ELSE "flushed")
    /\ UNCHANGED <<row, active, archive, faults, overlapped, interrupted, unsure>>

\* Without a file at the old key the copy fails.
Copy(r) ==
    /\ At(r, {"flushed"})
    /\ IF req[r].doc \in Source(req[r].op)
       THEN PutAt(req[r].op, req[r].doc) /\ Goto(r, "copied")
       ELSE UNCHANGED <<active, archive>> /\ Goto(r, "undo")
    /\ UNCHANGED <<row, faults, overlapped, interrupted, unsure>>

Remove(r) ==
    /\ At(r, {"copied"})
    /\ TakeFrom(req[r].op, req[r].doc)
    /\ Goto(r, "moved")
    /\ UNCHANGED <<row, faults, overlapped, interrupted, unsure>>

Committed(r) == [row EXCEPT ![req[r].doc] = IF MakesLive(r) THEN "live" ELSE "deleted"]

Commit(r) ==
    /\ At(r, {"moved"})
    /\ row' = Committed(r)
    /\ Finish(r)
    /\ UNCHANGED <<active, archive, faults, overlapped, interrupted, unsure>>

\* The database or S3 reports an error: the row is rolled back, the file follows.
Fails(r) ==
    /\ At(r, InTransaction \cup {"stored"})
    /\ Goto(r, "undo")
    /\ UNCHANGED <<row, active, archive, overlapped, interrupted, unsure>>

\* The commit was carried out, and its answer is an error.
CommitUnanswered(r) ==
    /\ At(r, {"moved"})
    /\ row' = Committed(r)
    /\ unsure' = unsure \cup {req[r].doc}
    /\ Goto(r, "undo")
    /\ UNCHANGED <<active, archive, overlapped, interrupted>>

\* Mutant: the file of a failed request stays where it is.
UndoNothing(r) ==
    /\ At(r, {"undo"})
    /\ Finish(r)
    /\ UNCHANGED <<row, active, archive, faults, overlapped, interrupted, unsure>>

\* An upload removes its file; the others move the file back when it is at the new
\* key, whoever put it there.
Undo(r) ==
    /\ At(r, {"undo"})
    /\ IF req[r].op = "upload"
       THEN TakeFrom("delete", req[r].doc) /\ Finish(r)
       ELSE IF req[r].doc \in Target(req[r].op)
       THEN PutAt(Reverse(req[r].op), req[r].doc) /\ Goto(r, "copied back")
       ELSE UNCHANGED <<active, archive>> /\ Finish(r)
    /\ UNCHANGED <<row, faults, overlapped, interrupted, unsure>>

UndoRemove(r) ==
    /\ At(r, {"copied back"})
    /\ TakeFrom(Reverse(req[r].op), req[r].doc)
    /\ Finish(r)
    /\ UNCHANGED <<row, faults, overlapped, interrupted, unsure>>

\* S3 fails once more, which is only logged; or the error is one the handler does
\* not catch, a time limit for one.
Stops(r) ==
    /\ At(r, InTransaction \cup {"stored", "undo", "copied back"})
    /\ interrupted' = interrupted \cup {req[r].doc}
    /\ Finish(r)
    /\ UNCHANGED <<row, active, archive, overlapped, unsure>>

Crash ==
    /\ req' = [r \in Requests |-> Idle]
    /\ interrupted' = interrupted \cup {d \in Docs : WorkingOn(d) # {}}
    /\ interrupted' # interrupted
    /\ UNCHANGED <<row, active, archive, overlapped, unsure>>

Fault ==
    /\ faults < MaxFaults
    /\ faults' = faults + 1
    /\ Crash \/ \E r \in Requests : Fails(r) \/ CommitUnanswered(r) \/ Stops(r)

VaultNext ==
    \/ \E r \in Requests :
           \/ \E op \in {"upload", "delete", "restore"}, d \in Docs : Begin(r, op, d)
           \/ Put(r) \/ Flush(r) \/ Copy(r) \/ Remove(r) \/ Commit(r)
           \/ Undo(r) \/ UndoRemove(r)
    \/ Fault

VaultSpec == VaultInit /\ [][VaultNext]_vaultVars

-----------------------------------------------------------------------------
VaultTypeOK ==
    /\ row \in [Docs -> {"none", "live", "deleted"}]
    /\ {active, archive, overlapped, interrupted, unsure} \subseteq SUBSET Docs
    /\ \A r \in Requests :
           req[r] = Idle \/ req[r] \in [op : {"upload", "delete", "restore"}, doc : Docs,
                                        at : InTransaction \cup {"read", "stored", "undo",
                                                                 "copied back"}]
    /\ faults \in 0..MaxFaults

\* Between requests the file of a document is where its row says, and nowhere else:
\* a failed upload leaves no file behind, a failed deletion or restoration moves it
\* back.  Where a request could not undo its work, or died, the file is at least
\* somewhere.  Requests that overlapped on one document, and commits whose answer
\* was lost, are left out: the code loses track of the file there.
FilesFollowRows ==
    \A d \in Docs \ (overlapped \cup unsure) :
        /\ row[d] # "none" => d \in active \cup archive
        /\ WorkingOn(d) = {} /\ d \notin interrupted =>
               /\ d \in active <=> row[d] = "live"
               /\ d \in archive <=> row[d] = "deleted"
=============================================================================
