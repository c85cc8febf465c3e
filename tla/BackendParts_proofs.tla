------------------------ MODULE BackendParts_proofs ------------------------
(***************************************************************************)
(* The parts of the backend beside the loan: the files of documents        *)
(* (DocumentVault) and the runs of the nightly job (NightlyRuns).          *)
(***************************************************************************)
EXTENDS DocumentVault, NightlyRuns, TLAPS

-----------------------------------------------------------------------------
(***************************************************************************)
(* For any number of documents, requests and faults: the files follow the  *)
(* rows, through failures, undone moves and crashes, on every document     *)
(* whose requests did not overlap and whose commits were all answered.     *)
(***************************************************************************)

Ops == {"upload", "delete", "restore"}
VaultStages == {"read", "stored", "flushed", "copied", "moved", "undo", "copied back"}
Busy(r) == req[r] # Idle

VaultShape ==
    /\ req \in [Requests -> {Idle} \cup [op : Ops, doc : Docs, at : VaultStages]]
    /\ row \in [Docs -> {"none", "live", "deleted"}]
    /\ active \subseteq Docs /\ archive \subseteq Docs
    /\ overlapped \subseteq Docs /\ interrupted \subseteq Docs /\ unsure \subseteq Docs

\* The documents the property speaks of.
Followed == Docs \ (overlapped \cup unsure)

(* Requests on one followed document do not overlap.                       *)
RequestsApart == \A r, s \in Requests :
    Busy(r) /\ Busy(s) /\ req[r].doc = req[s].doc /\ req[r].doc \in Followed => r = s

(* What the row says while a request works on the document, and where the   *)
(* file surely is.                                                          *)
RowAhead(q) ==
    /\ q.op = "upload" => row[q.doc] = "none" /\ q.at \notin {"flushed", "copied", "copied back"}
    /\ q.op = "delete" => row[q.doc] = "live" /\ q.at # "stored"
    /\ q.op = "restore" => row[q.doc] = "deleted" /\ q.at # "stored"

FileSomewhere(q) ==
    IF q.op = "upload"
    THEN q.at # "read" => q.doc \in active
    ELSE /\ q.at \in {"read", "flushed", "undo"} => q.doc \in active \cup archive
         /\ q.at \in {"copied", "moved"} => q.doc \in Target(q.op)
         /\ q.at = "copied back" => q.doc \in Source(q.op)

(* Where it is exactly, if no earlier request was interrupted.              *)
FileInPlace(q) ==
    IF q.op = "upload"
    THEN q.doc \notin archive /\ (q.doc \in active <=> q.at # "read")
    ELSE /\ q.at \in {"read", "flushed"} => q.doc \in Source(q.op) /\ q.doc \notin Target(q.op)
         /\ q.at = "copied" => q.doc \in Source(q.op)
         /\ q.at = "moved" => q.doc \notin Source(q.op)
         /\ q.at = "undo" => q.doc \in Source(q.op) \cup Target(q.op)
         /\ q.at = "copied back" => q.doc \in Source(q.op)

AtWork(r) == Busy(r) /\ req[r].doc \in Followed =>
    /\ RowAhead(req[r]) /\ FileSomewhere(req[r])
    /\ req[r].doc \notin interrupted => FileInPlace(req[r])

AtRest(d) == d \in Followed =>
    /\ row[d] # "none" => d \in active \cup archive
    /\ WorkingOn(d) = {} /\ d \notin interrupted =>
           /\ d \in active <=> row[d] = "live"
           /\ d \in archive <=> row[d] = "deleted"

VaultInv ==
    /\ VaultShape /\ RequestsApart
    /\ \A r \in Requests : AtWork(r)
    /\ \A d \in Docs : AtRest(d)

\* An empty vault satisfies the invariant.
LEMMA VaultInitInv == VaultInit => VaultInv
<1> SUFFICES ASSUME VaultInit PROVE VaultInv
  OBVIOUS
<1>1. VaultShape /\ \A r \in Requests : ~Busy(r)
  BY DEF VaultInit, VaultShape, Busy
<1>2. \A d \in Docs : AtRest(d)
  BY DEF VaultInit, AtRest
<1> QED
  BY <1>1, <1>2 DEF VaultInv, RequestsApart, AtWork

-----------------------------------------------------------------------------
(* A step of one request touches its own document only: it is enough that  *)
(* the invariant holds of that request and that document afterwards.       *)
LEMMA OwnDocument ==
    ASSUME VaultInv, NEW r \in Requests, Busy(r), NEW d \in Docs, req[r].doc = d,
           \A s \in Requests \ {r} : req'[s] = req[s],
           req'[r] = Idle \/ req'[r].doc = d,
           \A e \in Docs \ {d} : row'[e] = row[e] /\ (e \in active' <=> e \in active)
                                 /\ (e \in archive' <=> e \in archive),
           overlapped' = overlapped, unsure \subseteq unsure', interrupted \subseteq interrupted',
           VaultShape', AtWork(r)', AtRest(d)'
    PROVE  VaultInv'
<1>1. Followed' \subseteq Followed
  BY DEF Followed
<1>2. RequestsApart'
  BY <1>1 DEF VaultInv, RequestsApart, Busy
<1>3. ASSUME NEW s \in Requests PROVE AtWork(s)'
  <2>1. CASE s # r /\ Busy(s) /\ req[s].doc \in Followed'
    <3>1. req'[s] = req[s] /\ req[s].doc # d
      BY <2>1, <1>1 DEF VaultInv, RequestsApart
    <3>2. req[s].doc \in Docs
      BY <2>1 DEF VaultInv, VaultShape, Busy
    <3>3. AtWork(s)
      BY DEF VaultInv
    <3>4. RowAhead(req[s]) /\ FileSomewhere(req[s])
          /\ (req[s].doc \notin interrupted' => FileInPlace(req[s]))
      BY <2>1, <3>3, <1>1 DEF AtWork
    <3>5. RowAhead(req[s])'
      BY <3>1, <3>2, <3>4 DEF RowAhead
    <3>6. FileSomewhere(req[s])'
      BY <3>1, <3>2, <3>4 DEF FileSomewhere, Source, Target
    <3>7. FileInPlace(req[s]) => FileInPlace(req[s])'
      BY <3>1, <3>2, <3>4 DEF FileInPlace, Source, Target
    <3> QED
      BY <3>1, <3>4, <3>5, <3>6, <3>7 DEF AtWork
  <2>2. CASE s # r /\ ~(Busy(s) /\ req[s].doc \in Followed')
    BY <2>2 DEF AtWork, Busy
  <2> QED
    BY <2>1, <2>2
<1>4. ASSUME NEW e \in Docs PROVE AtRest(e)'
  <2>1. CASE e # d
    <3>1. WorkingOn(e)' = WorkingOn(e)
      BY <2>1 DEF WorkingOn, Busy
    <3> QED
      BY <2>1, <3>1, <1>1 DEF VaultInv, AtRest
  <2> QED
    BY <2>1
<1> QED
  BY <1>2, <1>3, <1>4 DEF VaultInv

-----------------------------------------------------------------------------
(* The steps                                                               *)

\* Frame of an action of one document: the others keep what they have.
LEMMA Working ==
    ASSUME VaultShape, NEW r \in Requests, req[r].at # "idle"
    PROVE  /\ Busy(r) /\ req[r] \in [op : Ops, doc : Docs, at : VaultStages]
           /\ req[r].doc \in Docs
BY DEF VaultShape, Busy, Idle

(* A request that goes on to another stage.                                *)
LEMMA Goes ==
    ASSUME VaultShape, NEW r \in Requests, req[r].at # "idle",
           NEW stage \in VaultStages, Goto(r, stage)
    PROVE  /\ req' \in [Requests -> {Idle} \cup [op : Ops, doc : Docs, at : VaultStages]]
           /\ \A s \in Requests \ {r} : req'[s] = req[s]
           /\ req'[r].op = req[r].op /\ req'[r].doc = req[r].doc /\ req'[r].at = stage
           /\ Busy(r)' /\ WorkingOn(req[r].doc)' # {}
<1> DEFINE next == [req[r] EXCEPT !.at = stage]
<1>1. req[r] \in [op : Ops, doc : Docs, at : VaultStages]
  BY Working
<1>2. next \in [op : Ops, doc : Docs, at : VaultStages]
      /\ next.op = req[r].op /\ next.doc = req[r].doc /\ next.at = stage
  BY <1>1
<1>3. req' = [req EXCEPT ![r] = next]
  BY DEF Goto
<1>4. next # Idle
  BY <1>2 DEF Idle, VaultStages
<1>5. req'[r] = next /\ \A s \in Requests \ {r} : req'[s] = req[s]
  BY <1>3 DEF VaultShape
<1>6. req' \in [Requests -> {Idle} \cup [op : Ops, doc : Docs, at : VaultStages]]
  BY <1>2, <1>3 DEF VaultShape
<1>7. Busy(r)'
  BY <1>4, <1>5 DEF Busy
<1>8. WorkingOn(req[r].doc)' # {}
  BY <1>2, <1>4, <1>5 DEF WorkingOn
<1> QED
  BY <1>2, <1>5, <1>6, <1>7, <1>8

(* A request that ends leaves nobody at work on a followed document.       *)
LEMMA Ends ==
    ASSUME VaultInv, NEW r \in Requests, req[r].at # "idle", Finish(r)
    PROVE  /\ req' \in [Requests -> {Idle} \cup [op : Ops, doc : Docs, at : VaultStages]]
           /\ \A s \in Requests \ {r} : req'[s] = req[s]
           /\ req'[r] = Idle
BY DEF VaultInv, VaultShape, Finish, Busy

\* Every step of an upload, a replacement, a removal or a fault keeps the invariant.
LEMMA VaultStep == ASSUME VaultInv, [VaultNext]_vaultVars PROVE VaultInv'
<1>0. VaultShape /\ RequestsApart /\ (\A r \in Requests : AtWork(r)) /\ (\A d \in Docs : AtRest(d))
  BY DEF VaultInv
<1>1. ASSUME NEW r \in Requests, Put(r) PROVE VaultInv'
  <2>0. req[r].at # "idle" /\ Busy(r) /\ req[r].doc \in Docs /\ req[r].op \in Ops
    BY <1>0, <1>1, Working DEF Put, At
  <2>d. PICK d \in Docs : d = req[r].doc
    BY <2>0
  <2>1. AtWork(r) /\ AtRest(d)
    BY <1>0
  <2>2. /\ req' \in [Requests -> {Idle} \cup [op : Ops, doc : Docs, at : VaultStages]]
        /\ \A s \in Requests \ {r} : req'[s] = req[s]
        /\ req'[r].op = req[r].op /\ req'[r].doc = d /\ req'[r].at \in {"stored"}
        /\ Busy(r)' /\ WorkingOn(d)' # {}
    BY <1>0, <1>1, <2>0, <2>d, Goes DEF Put, VaultStages
  <2>3. VaultShape' /\ \A e \in Docs \ {d} : row'[e] = row[e] /\ (e \in active' <=> e \in active)
                                       /\ (e \in archive' <=> e \in archive)
    BY <1>0, <1>1, <2>0, <2>d, <2>2 DEF Put, VaultShape
  <2>4. overlapped' = overlapped /\ unsure \subseteq unsure' /\ interrupted \subseteq interrupted'
    BY <1>1 DEF Put
  <2>5. AtWork(r)' /\ AtRest(d)'
    <3>1. d \in Followed' => d \in Followed /\ (d \notin interrupted' => d \notin interrupted)
      BY <2>4 DEF Followed
    <3>2. CASE d \notin Followed'
      BY <2>2, <3>2 DEF AtWork, AtRest, Busy
    <3>3. CASE d \in Followed' /\ req[r].op = "upload"
      BY <1>1, <2>0, <2>d, <2>1, <2>2, <3>1, <3>3
         DEF Put, RowAhead, FileSomewhere, FileInPlace, AtWork, AtRest, Source, Target,
             PutAt, TakeFrom, Reverse, At, InTransaction, Busy
    <3>4. CASE d \in Followed' /\ req[r].op = "delete"
      BY <1>1, <2>0, <2>d, <2>1, <2>2, <3>1, <3>4
         DEF Put, RowAhead, FileSomewhere, FileInPlace, AtWork, AtRest, Source, Target,
             PutAt, TakeFrom, Reverse, At, InTransaction, Busy
    <3>5. CASE d \in Followed' /\ req[r].op = "restore"
      BY <1>1, <2>0, <2>d, <2>1, <2>2, <3>1, <3>5
         DEF Put, RowAhead, FileSomewhere, FileInPlace, AtWork, AtRest, Source, Target,
             PutAt, TakeFrom, Reverse, At, InTransaction, Busy
    <3> QED
      BY <2>0, <2>d, <3>2, <3>3, <3>4, <3>5 DEF Ops
  <2> QED
    <3>1. req'[r] = Idle \/ req'[r].doc = d
      BY <2>2
    <3> QED
      BY <2>0, <2>d, <2>2, <2>3, <2>4, <2>5, <3>1, OwnDocument
<1>2. ASSUME NEW r \in Requests, Flush(r) PROVE VaultInv'
  <2>0. req[r].at # "idle" /\ Busy(r) /\ req[r].doc \in Docs /\ req[r].op \in Ops
    BY <1>0, <1>2, Working DEF Flush, At
  <2>d. PICK d \in Docs : d = req[r].doc
    BY <2>0
  <2>1. AtWork(r) /\ AtRest(d)
    BY <1>0
  <2>2. /\ req' \in [Requests -> {Idle} \cup [op : Ops, doc : Docs, at : VaultStages]]
        /\ \A s \in Requests \ {r} : req'[s] = req[s]
        /\ req'[r].op = req[r].op /\ req'[r].doc = d
        /\ req'[r].at \in IF req[r].op = "upload" THEN {"undo", "moved"} ELSE {"undo", "flushed"}
        /\ Busy(r)' /\ WorkingOn(d)' # {}
    BY <1>0, <1>2, <2>0, <2>d, Goes DEF Flush, VaultStages
  <2>3. VaultShape' /\ \A e \in Docs \ {d} : row'[e] = row[e] /\ (e \in active' <=> e \in active)
                                       /\ (e \in archive' <=> e \in archive)
    BY <1>0, <1>2, <2>0, <2>d, <2>2 DEF Flush, VaultShape
  <2>4. overlapped' = overlapped /\ unsure \subseteq unsure' /\ interrupted \subseteq interrupted'
    BY <1>2 DEF Flush
  <2>5. AtWork(r)' /\ AtRest(d)'
    <3>1. d \in Followed' => d \in Followed /\ (d \notin interrupted' => d \notin interrupted)
      BY <2>4 DEF Followed
    <3>2. CASE d \notin Followed'
      BY <2>2, <3>2 DEF AtWork, AtRest, Busy
    <3>3. CASE d \in Followed' /\ req[r].op = "upload"
      BY <1>2, <2>0, <2>d, <2>1, <2>2, <3>1, <3>3
         DEF Flush, RowAhead, FileSomewhere, FileInPlace, AtWork, AtRest, Source, Target,
             PutAt, TakeFrom, Reverse, At, InTransaction, Busy
    <3>4. CASE d \in Followed' /\ req[r].op = "delete"
      BY <1>2, <2>0, <2>d, <2>1, <2>2, <3>1, <3>4
         DEF Flush, RowAhead, FileSomewhere, FileInPlace, AtWork, AtRest, Source, Target,
             PutAt, TakeFrom, Reverse, At, InTransaction, Busy
    <3>5. CASE d \in Followed' /\ req[r].op = "restore"
      BY <1>2, <2>0, <2>d, <2>1, <2>2, <3>1, <3>5
         DEF Flush, RowAhead, FileSomewhere, FileInPlace, AtWork, AtRest, Source, Target,
             PutAt, TakeFrom, Reverse, At, InTransaction, Busy
    <3> QED
      BY <2>0, <2>d, <3>2, <3>3, <3>4, <3>5 DEF Ops
  <2> QED
    <3>1. req'[r] = Idle \/ req'[r].doc = d
      BY <2>2
    <3> QED
      BY <2>0, <2>d, <2>2, <2>3, <2>4, <2>5, <3>1, OwnDocument
<1>3. ASSUME NEW r \in Requests, Copy(r) PROVE VaultInv'
  <2>0. req[r].at # "idle" /\ Busy(r) /\ req[r].doc \in Docs /\ req[r].op \in Ops
    BY <1>0, <1>3, Working DEF Copy, At
  <2>d. PICK d \in Docs : d = req[r].doc
    BY <2>0
  <2>1. AtWork(r) /\ AtRest(d)
    BY <1>0
  <2>2. /\ req' \in [Requests -> {Idle} \cup [op : Ops, doc : Docs, at : VaultStages]]
        /\ \A s \in Requests \ {r} : req'[s] = req[s]
        /\ req'[r].op = req[r].op /\ req'[r].doc = d
        /\ IF d \in Source(req[r].op) THEN PutAt(req[r].op, d) /\ req'[r].at = "copied"
                                      ELSE UNCHANGED <<active, archive>> /\ req'[r].at = "undo"
        /\ Busy(r)' /\ WorkingOn(d)' # {}
    BY <1>0, <1>3, <2>0, <2>d, Goes DEF Copy, VaultStages
  <2>3. VaultShape' /\ \A e \in Docs \ {d} : row'[e] = row[e] /\ (e \in active' <=> e \in active)
                                       /\ (e \in archive' <=> e \in archive)
    BY <1>0, <1>3, <2>0, <2>d, <2>2 DEF Copy, VaultShape, PutAt
  <2>4. overlapped' = overlapped /\ unsure \subseteq unsure' /\ interrupted \subseteq interrupted'
    BY <1>3 DEF Copy
  <2>5. AtWork(r)' /\ AtRest(d)'
    <3>1. d \in Followed' => d \in Followed /\ (d \notin interrupted' => d \notin interrupted)
      BY <2>4 DEF Followed
    <3>2. CASE d \notin Followed'
      BY <2>2, <3>2 DEF AtWork, AtRest, Busy
    <3>3. CASE d \in Followed' /\ req[r].op = "upload"
      BY <1>3, <2>0, <2>d, <2>1, <2>2, <3>1, <3>3
         DEF Copy, RowAhead, FileSomewhere, FileInPlace, AtWork, AtRest, Source, Target,
             PutAt, TakeFrom, Reverse, At, InTransaction, Busy
    <3>4. CASE d \in Followed' /\ req[r].op = "delete"
      <4>1. /\ \/ d \in active /\ archive' = archive \cup {d} /\ UNCHANGED active /\ req'[r].at = "copied"
               \/ d \notin active /\ UNCHANGED <<active, archive>> /\ req'[r].at = "undo"
            /\ UNCHANGED <<row, interrupted>>
        BY <1>3, <2>d, <2>2, <3>4 DEF Copy, At, PutAt, Source
      <4>2. row[d] = "live" /\ d \in active \cup archive
            /\ (d \notin interrupted => d \in active /\ d \notin archive)
        BY <1>3, <2>0, <2>d, <2>1, <3>1, <3>4
           DEF Copy, At, AtWork, RowAhead, FileSomewhere, FileInPlace, Source, Target
      <4> QED
        BY <2>0, <2>d, <2>2, <3>4, <4>1, <4>2
           DEF AtRest, Busy, AtWork, RowAhead, FileSomewhere, FileInPlace, Source, Target
    <3>5. CASE d \in Followed' /\ req[r].op = "restore"
      <4>1. /\ \/ d \in archive /\ active' = active \cup {d} /\ UNCHANGED archive /\ req'[r].at = "copied"
               \/ d \notin archive /\ UNCHANGED <<active, archive>> /\ req'[r].at = "undo"
            /\ UNCHANGED <<row, interrupted>>
        BY <1>3, <2>d, <2>2, <3>5 DEF Copy, At, PutAt, Source
      <4>2. row[d] = "deleted" /\ d \in active \cup archive
            /\ (d \notin interrupted => d \in archive /\ d \notin active)
        BY <1>3, <2>0, <2>d, <2>1, <3>1, <3>5
           DEF Copy, At, AtWork, RowAhead, FileSomewhere, FileInPlace, Source, Target
      <4> QED
        BY <2>0, <2>d, <2>2, <3>5, <4>1, <4>2
           DEF AtRest, Busy, AtWork, RowAhead, FileSomewhere, FileInPlace, Source, Target
    <3> QED
      BY <2>0, <2>d, <3>2, <3>3, <3>4, <3>5 DEF Ops
  <2> QED
    <3>1. req'[r] = Idle \/ req'[r].doc = d
      BY <2>2
    <3> QED
      BY <2>0, <2>d, <2>2, <2>3, <2>4, <2>5, <3>1, OwnDocument
<1>4. ASSUME NEW r \in Requests, Remove(r) PROVE VaultInv'
  <2>0. req[r].at # "idle" /\ Busy(r) /\ req[r].doc \in Docs /\ req[r].op \in Ops
    BY <1>0, <1>4, Working DEF Remove, At
  <2>d. PICK d \in Docs : d = req[r].doc
    BY <2>0
  <2>1. AtWork(r) /\ AtRest(d)
    BY <1>0
  <2>2. /\ req' \in [Requests -> {Idle} \cup [op : Ops, doc : Docs, at : VaultStages]]
        /\ \A s \in Requests \ {r} : req'[s] = req[s]
        /\ req'[r].op = req[r].op /\ req'[r].doc = d /\ req'[r].at \in {"moved"}
        /\ Busy(r)' /\ WorkingOn(d)' # {}
    BY <1>0, <1>4, <2>0, <2>d, Goes DEF Remove, VaultStages
  <2>3. VaultShape' /\ \A e \in Docs \ {d} : row'[e] = row[e] /\ (e \in active' <=> e \in active)
                                       /\ (e \in archive' <=> e \in archive)
    BY <1>0, <1>4, <2>0, <2>d, <2>2 DEF Remove, VaultShape, TakeFrom
  <2>4. overlapped' = overlapped /\ unsure \subseteq unsure' /\ interrupted \subseteq interrupted'
    BY <1>4 DEF Remove
  <2>5. AtWork(r)' /\ AtRest(d)'
    <3>1. d \in Followed' => d \in Followed /\ (d \notin interrupted' => d \notin interrupted)
      BY <2>4 DEF Followed
    <3>2. CASE d \notin Followed'
      BY <2>2, <3>2 DEF AtWork, AtRest, Busy
    <3>3. CASE d \in Followed' /\ req[r].op = "upload"
      BY <1>4, <2>0, <2>d, <2>1, <2>2, <3>1, <3>3
         DEF Remove, RowAhead, FileSomewhere, FileInPlace, AtWork, AtRest, Source, Target,
             PutAt, TakeFrom, Reverse, At, InTransaction, Busy
    <3>4. CASE d \in Followed' /\ req[r].op = "delete"
      <4>1. /\ active' = active \ {d} /\ UNCHANGED archive /\ req'[r].at = "moved"
            /\ UNCHANGED <<row, interrupted>>
        BY <1>4, <2>d, <2>2, <3>4 DEF Remove, At, TakeFrom
      <4>2. row[d] = "live" /\ d \in archive
        BY <1>4, <2>0, <2>d, <2>1, <3>1, <3>4
           DEF Remove, At, AtWork, RowAhead, FileSomewhere, FileInPlace, Source, Target
      <4> QED
        BY <2>0, <2>d, <2>2, <3>4, <4>1, <4>2
           DEF AtRest, Busy, AtWork, RowAhead, FileSomewhere, FileInPlace, Source, Target
    <3>5. CASE d \in Followed' /\ req[r].op = "restore"
      <4>1. /\ archive' = archive \ {d} /\ UNCHANGED active /\ req'[r].at = "moved"
            /\ UNCHANGED <<row, interrupted>>
        BY <1>4, <2>d, <2>2, <3>5 DEF Remove, At, TakeFrom
      <4>2. row[d] = "deleted" /\ d \in active
        BY <1>4, <2>0, <2>d, <2>1, <3>1, <3>5
           DEF Remove, At, AtWork, RowAhead, FileSomewhere, FileInPlace, Source, Target
      <4> QED
        BY <2>0, <2>d, <2>2, <3>5, <4>1, <4>2
           DEF AtRest, Busy, AtWork, RowAhead, FileSomewhere, FileInPlace, Source, Target
    <3> QED
      BY <2>0, <2>d, <3>2, <3>3, <3>4, <3>5 DEF Ops
  <2> QED
    <3>1. req'[r] = Idle \/ req'[r].doc = d
      BY <2>2
    <3> QED
      BY <2>0, <2>d, <2>2, <2>3, <2>4, <2>5, <3>1, OwnDocument
<1>5. ASSUME NEW r \in Requests, Fails(r) PROVE VaultInv'
  <2>0. req[r].at # "idle" /\ Busy(r) /\ req[r].doc \in Docs /\ req[r].op \in Ops
    BY <1>0, <1>5, Working DEF Fails, At, InTransaction
  <2>d. PICK d \in Docs : d = req[r].doc
    BY <2>0
  <2>1. AtWork(r) /\ AtRest(d)
    BY <1>0
  <2>2. /\ req' \in [Requests -> {Idle} \cup [op : Ops, doc : Docs, at : VaultStages]]
        /\ \A s \in Requests \ {r} : req'[s] = req[s]
        /\ req'[r].op = req[r].op /\ req'[r].doc = d /\ req'[r].at \in {"undo"}
        /\ Busy(r)' /\ WorkingOn(d)' # {}
    BY <1>0, <1>5, <2>0, <2>d, Goes DEF Fails, VaultStages
  <2>3. VaultShape' /\ \A e \in Docs \ {d} : row'[e] = row[e] /\ (e \in active' <=> e \in active)
                                       /\ (e \in archive' <=> e \in archive)
    BY <1>0, <1>5, <2>0, <2>d, <2>2 DEF Fails, VaultShape
  <2>4. overlapped' = overlapped /\ unsure \subseteq unsure' /\ interrupted \subseteq interrupted'
    BY <1>5 DEF Fails
  <2>5. AtWork(r)' /\ AtRest(d)'
    <3>1. d \in Followed' => d \in Followed /\ (d \notin interrupted' => d \notin interrupted)
      BY <2>4 DEF Followed
    <3>2. CASE d \notin Followed'
      BY <2>2, <3>2 DEF AtWork, AtRest, Busy
    <3>3. CASE d \in Followed' /\ req[r].op = "upload"
      BY <1>5, <2>0, <2>d, <2>1, <2>2, <3>1, <3>3
         DEF Fails, RowAhead, FileSomewhere, FileInPlace, AtWork, AtRest, Source, Target,
             PutAt, TakeFrom, Reverse, At, InTransaction, Busy
    <3>4. CASE d \in Followed' /\ req[r].op = "delete"
      BY <1>5, <2>0, <2>d, <2>1, <2>2, <3>1, <3>4
         DEF Fails, RowAhead, FileSomewhere, FileInPlace, AtWork, AtRest, Source, Target,
             PutAt, TakeFrom, Reverse, At, InTransaction, Busy
    <3>5. CASE d \in Followed' /\ req[r].op = "restore"
      BY <1>5, <2>0, <2>d, <2>1, <2>2, <3>1, <3>5
         DEF Fails, RowAhead, FileSomewhere, FileInPlace, AtWork, AtRest, Source, Target,
             PutAt, TakeFrom, Reverse, At, InTransaction, Busy
    <3> QED
      BY <2>0, <2>d, <3>2, <3>3, <3>4, <3>5 DEF Ops
  <2> QED
    <3>1. req'[r] = Idle \/ req'[r].doc = d
      BY <2>2
    <3> QED
      BY <2>0, <2>d, <2>2, <2>3, <2>4, <2>5, <3>1, OwnDocument
<1>6. ASSUME NEW r \in Requests, CommitUnanswered(r) PROVE VaultInv'
  <2>0. req[r].at # "idle" /\ Busy(r) /\ req[r].doc \in Docs /\ req[r].op \in Ops
    BY <1>0, <1>6, Working DEF CommitUnanswered, At
  <2>d. PICK d \in Docs : d = req[r].doc
    BY <2>0
  <2>1. AtWork(r) /\ AtRest(d)
    BY <1>0
  <2>2. /\ req' \in [Requests -> {Idle} \cup [op : Ops, doc : Docs, at : VaultStages]]
        /\ \A s \in Requests \ {r} : req'[s] = req[s]
        /\ req'[r].op = req[r].op /\ req'[r].doc = d /\ req'[r].at \in {"undo"}
        /\ Busy(r)' /\ WorkingOn(d)' # {}
    BY <1>0, <1>6, <2>0, <2>d, Goes DEF CommitUnanswered, VaultStages
  <2>3. VaultShape' /\ \A e \in Docs \ {d} : row'[e] = row[e] /\ (e \in active' <=> e \in active)
                                       /\ (e \in archive' <=> e \in archive)
    BY <1>0, <1>6, <2>0, <2>d, <2>2
       DEF CommitUnanswered, VaultShape, Committed, MakesLive, Followed
  <2>4. overlapped' = overlapped /\ unsure \subseteq unsure' /\ interrupted \subseteq interrupted'
    BY <1>6 DEF CommitUnanswered
  <2>5. AtWork(r)' /\ AtRest(d)'
    <3>1. d \in Followed' => d \in Followed /\ (d \notin interrupted' => d \notin interrupted)
      BY <2>4 DEF Followed
    <3>2. CASE d \notin Followed'
      BY <2>2, <3>2 DEF AtWork, AtRest, Busy
    <3>3. CASE d \in Followed' /\ req[r].op = "upload"
      BY <1>6, <2>0, <2>d, <2>1, <2>2, <3>1, <3>3
         DEF CommitUnanswered, RowAhead, FileSomewhere, FileInPlace, AtWork, AtRest,
             Source, Target,
             PutAt, TakeFrom, Reverse, At, InTransaction, Busy, Committed, MakesLive, Followed
    <3>4. CASE d \in Followed' /\ req[r].op = "delete"
      BY <1>6, <2>0, <2>d, <2>1, <2>2, <3>1, <3>4
         DEF CommitUnanswered, RowAhead, FileSomewhere, FileInPlace, AtWork, AtRest,
             Source, Target,
             PutAt, TakeFrom, Reverse, At, InTransaction, Busy, Committed, MakesLive, Followed
    <3>5. CASE d \in Followed' /\ req[r].op = "restore"
      BY <1>6, <2>0, <2>d, <2>1, <2>2, <3>1, <3>5
         DEF CommitUnanswered, RowAhead, FileSomewhere, FileInPlace, AtWork, AtRest,
             Source, Target,
             PutAt, TakeFrom, Reverse, At, InTransaction, Busy, Committed, MakesLive, Followed
    <3> QED
      BY <2>0, <2>d, <3>2, <3>3, <3>4, <3>5 DEF Ops
  <2> QED
    <3>1. req'[r] = Idle \/ req'[r].doc = d
      BY <2>2
    <3> QED
      BY <2>0, <2>d, <2>2, <2>3, <2>4, <2>5, <3>1, OwnDocument
<1>7. ASSUME NEW r \in Requests, Commit(r) PROVE VaultInv'
  <2>0. req[r].at # "idle" /\ Busy(r) /\ req[r].doc \in Docs /\ req[r].op \in Ops
    BY <1>0, <1>7, Working DEF Commit, At
  <2>d. PICK d \in Docs : d = req[r].doc
    BY <2>0
  <2>1. AtWork(r) /\ AtRest(d)
    BY <1>0
  <2>2. /\ req' \in [Requests -> {Idle} \cup [op : Ops, doc : Docs, at : VaultStages]]
        /\ \A s \in Requests \ {r} : req'[s] = req[s]
        /\ req'[r] = Idle
    BY <1>7, <2>0, Ends DEF Commit
  <2>c. /\ row'[d] = IF req[r].op = "delete" THEN "deleted" ELSE "live"
        /\ UNCHANGED <<active, archive, interrupted>> /\ req[r].at = "moved"
    BY <1>0, <1>7, <2>0, <2>d DEF Commit, Committed, MakesLive, VaultShape, Ops, At
  <2>3. VaultShape' /\ \A e \in Docs \ {d} : row'[e] = row[e] /\ (e \in active' <=> e \in active)
                                       /\ (e \in archive' <=> e \in archive)
    BY <1>0, <1>7, <2>0, <2>d, <2>2 DEF Commit, VaultShape, Committed, MakesLive
  <2>4. overlapped' = overlapped /\ unsure \subseteq unsure' /\ interrupted \subseteq interrupted'
    BY <1>7 DEF Commit
  <2>5. AtWork(r)' /\ AtRest(d)'
    <3>1. d \in Followed' => d \in Followed /\ (d \notin interrupted' => d \notin interrupted)
      BY <2>4 DEF Followed
    <3>2. CASE d \notin Followed'
      BY <2>2, <3>2 DEF AtWork, AtRest, Busy
    <3>3. CASE d \in Followed' /\ req[r].op = "upload"
      BY <1>7, <2>0, <2>d, <2>1, <2>2, <2>c, <3>1, <3>3
         DEF RowAhead, FileSomewhere, FileInPlace, AtWork, AtRest, Source, Target,
             PutAt, TakeFrom, Reverse, At, InTransaction, Busy
    <3>4. CASE d \in Followed' /\ req[r].op = "delete"
      BY <1>7, <2>0, <2>d, <2>1, <2>2, <2>c, <3>1, <3>4
         DEF RowAhead, FileSomewhere, FileInPlace, AtWork, AtRest, Source, Target,
             PutAt, TakeFrom, Reverse, At, InTransaction, Busy
    <3>5. CASE d \in Followed' /\ req[r].op = "restore"
      BY <1>7, <2>0, <2>d, <2>1, <2>2, <2>c, <3>1, <3>5
         DEF RowAhead, FileSomewhere, FileInPlace, AtWork, AtRest, Source, Target,
             PutAt, TakeFrom, Reverse, At, InTransaction, Busy
    <3> QED
      BY <2>0, <2>d, <3>2, <3>3, <3>4, <3>5 DEF Ops
  <2> QED
    <3>1. req'[r] = Idle \/ req'[r].doc = d
      BY <2>2
    <3> QED
      BY <2>0, <2>d, <2>2, <2>3, <2>4, <2>5, <3>1, OwnDocument
<1>8. ASSUME NEW r \in Requests, UndoRemove(r) PROVE VaultInv'
  <2>0. req[r].at # "idle" /\ Busy(r) /\ req[r].doc \in Docs /\ req[r].op \in Ops
    BY <1>0, <1>8, Working DEF UndoRemove, At
  <2>d. PICK d \in Docs : d = req[r].doc
    BY <2>0
  <2>1. AtWork(r) /\ AtRest(d)
    BY <1>0
  <2>2. /\ req' \in [Requests -> {Idle} \cup [op : Ops, doc : Docs, at : VaultStages]]
        /\ \A s \in Requests \ {r} : req'[s] = req[s]
        /\ req'[r] = Idle
    BY <1>8, <2>0, Ends DEF UndoRemove
  <2>3. VaultShape' /\ \A e \in Docs \ {d} : row'[e] = row[e] /\ (e \in active' <=> e \in active)
                                       /\ (e \in archive' <=> e \in archive)
    BY <1>0, <1>8, <2>0, <2>d, <2>2 DEF UndoRemove, VaultShape, TakeFrom, Reverse
  <2>4. overlapped' = overlapped /\ unsure \subseteq unsure' /\ interrupted \subseteq interrupted'
    BY <1>8 DEF UndoRemove
  <2>5. AtWork(r)' /\ AtRest(d)'
    <3>1. d \in Followed' => d \in Followed /\ (d \notin interrupted' => d \notin interrupted)
      BY <2>4 DEF Followed
    <3>2. CASE d \notin Followed'
      BY <2>2, <3>2 DEF AtWork, AtRest, Busy
    <3>3. CASE d \in Followed' /\ req[r].op = "upload"
      BY <1>8, <2>0, <2>d, <2>1, <2>2, <3>1, <3>3
         DEF UndoRemove, RowAhead, FileSomewhere, FileInPlace, AtWork, AtRest, Source,
             Target,
             PutAt, TakeFrom, Reverse, At, InTransaction, Busy
    <3>4. CASE d \in Followed' /\ req[r].op = "delete"
      BY <1>8, <2>0, <2>d, <2>1, <2>2, <3>1, <3>4
         DEF UndoRemove, RowAhead, FileSomewhere, FileInPlace, AtWork, AtRest, Source,
             Target,
             PutAt, TakeFrom, Reverse, At, InTransaction, Busy
    <3>5. CASE d \in Followed' /\ req[r].op = "restore"
      BY <1>8, <2>0, <2>d, <2>1, <2>2, <3>1, <3>5
         DEF UndoRemove, RowAhead, FileSomewhere, FileInPlace, AtWork, AtRest, Source,
             Target,
             PutAt, TakeFrom, Reverse, At, InTransaction, Busy
    <3> QED
      BY <2>0, <2>d, <3>2, <3>3, <3>4, <3>5 DEF Ops
  <2> QED
    <3>1. req'[r] = Idle \/ req'[r].doc = d
      BY <2>2
    <3> QED
      BY <2>0, <2>d, <2>2, <2>3, <2>4, <2>5, <3>1, OwnDocument
<1>9. ASSUME NEW r \in Requests, Stops(r) PROVE VaultInv'
  <2>0. req[r].at # "idle" /\ Busy(r) /\ req[r].doc \in Docs /\ req[r].op \in Ops
    BY <1>0, <1>9, Working DEF Stops, At, InTransaction
  <2>d. PICK d \in Docs : d = req[r].doc
    BY <2>0
  <2>1. AtWork(r) /\ AtRest(d)
    BY <1>0
  <2>2. /\ req' \in [Requests -> {Idle} \cup [op : Ops, doc : Docs, at : VaultStages]]
        /\ \A s \in Requests \ {r} : req'[s] = req[s]
        /\ req'[r] = Idle
    BY <1>9, <2>0, Ends DEF Stops
  <2>3. VaultShape' /\ \A e \in Docs \ {d} : row'[e] = row[e] /\ (e \in active' <=> e \in active)
                                       /\ (e \in archive' <=> e \in archive)
    BY <1>0, <1>9, <2>0, <2>d, <2>2 DEF Stops, VaultShape
  <2>4. overlapped' = overlapped /\ unsure \subseteq unsure' /\ interrupted \subseteq interrupted'
    BY <1>9 DEF Stops
  <2>5. AtWork(r)' /\ AtRest(d)'
    <3>1. d \in Followed' => d \in Followed /\ (d \notin interrupted' => d \notin interrupted)
      BY <2>4 DEF Followed
    <3>2. CASE d \notin Followed'
      BY <2>2, <3>2 DEF AtWork, AtRest, Busy
    <3>3. CASE d \in Followed' /\ req[r].op = "upload"
      BY <1>9, <2>0, <2>d, <2>1, <2>2, <3>1, <3>3
         DEF Stops, RowAhead, FileSomewhere, FileInPlace, AtWork, AtRest, Source, Target,
             PutAt, TakeFrom, Reverse, At, InTransaction, Busy
    <3>4. CASE d \in Followed' /\ req[r].op = "delete"
      BY <1>9, <2>0, <2>d, <2>1, <2>2, <3>1, <3>4
         DEF Stops, RowAhead, FileSomewhere, FileInPlace, AtWork, AtRest, Source, Target,
             PutAt, TakeFrom, Reverse, At, InTransaction, Busy
    <3>5. CASE d \in Followed' /\ req[r].op = "restore"
      BY <1>9, <2>0, <2>d, <2>1, <2>2, <3>1, <3>5
         DEF Stops, RowAhead, FileSomewhere, FileInPlace, AtWork, AtRest, Source, Target,
             PutAt, TakeFrom, Reverse, At, InTransaction, Busy
    <3> QED
      BY <2>0, <2>d, <3>2, <3>3, <3>4, <3>5 DEF Ops
  <2> QED
    <3>1. req'[r] = Idle \/ req'[r].doc = d
      BY <2>2
    <3> QED
      BY <2>0, <2>d, <2>2, <2>3, <2>4, <2>5, <3>1, OwnDocument
<1>10. ASSUME NEW r \in Requests, Undo(r) PROVE VaultInv'
  <2>0. req[r].at # "idle" /\ Busy(r) /\ req[r].doc \in Docs /\ req[r].op \in Ops
    BY <1>0, <1>10, Working DEF Undo, At
  <2>d. PICK d \in Docs : d = req[r].doc
    BY <2>0
  <2>1. AtWork(r) /\ AtRest(d)
    BY <1>0
  <2>2. /\ req' \in [Requests -> {Idle} \cup [op : Ops, doc : Docs, at : VaultStages]]
        /\ \A s \in Requests \ {r} : req'[s] = req[s]
        /\ \/ req'[r] = Idle /\ (req[r].op = "upload" \/ d \notin Target(req[r].op))
           \/ /\ req'[r].op = req[r].op /\ req'[r].doc = d /\ req'[r].at = "copied back"
              /\ req[r].op # "upload" /\ d \in Target(req[r].op)
              /\ Busy(r)' /\ WorkingOn(d)' # {}
    <3>1. Finish(r) => /\ req' \in [Requests -> {Idle} \cup [op : Ops, doc : Docs, at : VaultStages]]
                       /\ \A s \in Requests \ {r} : req'[s] = req[s]
                       /\ req'[r] = Idle
      BY <2>0, Ends
    <3>2. Goto(r, "copied back") =>
            /\ req' \in [Requests -> {Idle} \cup [op : Ops, doc : Docs, at : VaultStages]]
            /\ \A s \in Requests \ {r} : req'[s] = req[s]
            /\ req'[r].op = req[r].op /\ req'[r].doc = d /\ req'[r].at = "copied back"
            /\ Busy(r)' /\ WorkingOn(d)' # {}
      BY <1>0, <2>0, <2>d, Goes DEF VaultStages
    <3>3. \/ Finish(r) /\ (req[r].op = "upload" \/ d \notin Target(req[r].op))
          \/ Goto(r, "copied back") /\ req[r].op # "upload" /\ d \in Target(req[r].op)
      BY <1>10, <2>d DEF Undo
    <3> QED
      BY <3>1, <3>2, <3>3
  <2>3. VaultShape' /\ \A e \in Docs \ {d} : row'[e] = row[e] /\ (e \in active' <=> e \in active)
                                       /\ (e \in archive' <=> e \in archive)
    BY <1>0, <1>10, <2>0, <2>d, <2>2 DEF Undo, VaultShape, PutAt, TakeFrom, Reverse
  <2>4. overlapped' = overlapped /\ unsure \subseteq unsure' /\ interrupted \subseteq interrupted'
    BY <1>10 DEF Undo
  <2>5. AtWork(r)' /\ AtRest(d)'
    <3>1. d \in Followed' => d \in Followed /\ (d \notin interrupted' => d \notin interrupted)
      BY <2>4 DEF Followed
    <3>2. CASE d \notin Followed'
      BY <2>2, <3>2 DEF AtWork, AtRest, Busy
    <3>3. CASE d \in Followed' /\ req[r].op = "upload"
      BY <1>10, <2>0, <2>d, <2>1, <2>2, <3>1, <3>3
         DEF Undo, RowAhead, FileSomewhere, FileInPlace, AtWork, AtRest, Source, Target,
             PutAt, TakeFrom, Reverse, At, InTransaction, Busy
    <3>4. CASE d \in Followed' /\ req[r].op = "delete"
      <4>1. /\ \/ d \in archive /\ active' = active \cup {d} /\ UNCHANGED archive
               \/ d \notin archive /\ UNCHANGED <<active, archive>> /\ req'[r] = Idle
            /\ UNCHANGED <<row, interrupted>>
        BY <1>10, <2>d, <2>2, <3>4 DEF Undo, At, PutAt, Reverse, Target, Finish, Goto
      <4>2. row[d] = "live" /\ d \in active \cup archive
        BY <1>10, <2>0, <2>d, <2>1, <3>1, <3>4
           DEF Undo, At, AtWork, RowAhead, FileSomewhere, FileInPlace, Source, Target
      <4> QED
        BY <2>0, <2>d, <2>2, <3>4, <4>1, <4>2
           DEF AtRest, Busy, AtWork, RowAhead, FileSomewhere, FileInPlace, Source, Target
    <3>5. CASE d \in Followed' /\ req[r].op = "restore"
      <4>1. /\ \/ d \in active /\ archive' = archive \cup {d} /\ UNCHANGED active
               \/ d \notin active /\ UNCHANGED <<active, archive>> /\ req'[r] = Idle
            /\ UNCHANGED <<row, interrupted>>
        BY <1>10, <2>d, <2>2, <3>5 DEF Undo, At, PutAt, Reverse, Target, Finish, Goto
      <4>2. row[d] = "deleted" /\ d \in active \cup archive
        BY <1>10, <2>0, <2>d, <2>1, <3>1, <3>5
           DEF Undo, At, AtWork, RowAhead, FileSomewhere, FileInPlace, Source, Target
      <4> QED
        BY <2>0, <2>d, <2>2, <3>5, <4>1, <4>2
           DEF AtRest, Busy, AtWork, RowAhead, FileSomewhere, FileInPlace, Source, Target
    <3> QED
      BY <2>0, <2>d, <3>2, <3>3, <3>4, <3>5 DEF Ops
  <2> QED
    <3>1. req'[r] = Idle \/ req'[r].doc = d
      BY <2>2
    <3> QED
      BY <2>0, <2>d, <2>2, <2>3, <2>4, <2>5, <3>1, OwnDocument
<1>11. ASSUME NEW r \in Requests, NEW op \in Ops, NEW d \in Docs, Begin(r, op, d)
       PROVE  VaultInv'
  <2> DEFINE begun == [op |-> op, doc |-> d, at |-> "read"]
  <2>1. /\ req' = [req EXCEPT ![r] = begun] /\ begun # Idle
        /\ begun \in [op : Ops, doc : Docs, at : VaultStages]
        /\ UNCHANGED <<row, active, archive, interrupted, unsure>>
        /\ overlapped' = IF WorkingOn(d) = {} THEN overlapped ELSE overlapped \cup {d}
    BY <1>11 DEF Begin, Idle, VaultStages
  <2>2. \A s \in Requests : req'[s] = IF s = r THEN begun ELSE req[s]
    BY <1>0, <2>1 DEF VaultShape
  <2>3. VaultShape'
    BY <1>0, <2>1 DEF VaultShape
  <2>4. Followed' \subseteq Followed /\ (d \in Followed' => WorkingOn(d) = {})
    BY <2>1 DEF Followed
  <2>5. RequestsApart'
    BY <1>0, <2>1, <2>2, <2>4 DEF RequestsApart, Busy, WorkingOn
  <2>6. ASSUME NEW s \in Requests PROVE AtWork(s)'
    <3>1. CASE s = r
      <4>1. d \in Followed' => AtRest(d) /\ WorkingOn(d) = {} /\ d \in Followed
        BY <1>0, <2>4
      <4>2. req'[s].op = op /\ req'[s].doc = d /\ req'[s].at = "read"
        BY <2>2, <3>1
      <4>3. \/ op = "upload" /\ row[d] = "none" /\ d \notin active
            \/ op = "delete" /\ row[d] = "live"
            \/ op = "restore" /\ row[d] = "deleted"
        BY <1>11 DEF Begin, Ops
      <4>4. UNCHANGED <<row, active, archive, interrupted>>
        BY <2>1
      <4> QED
        BY <4>1, <4>2, <4>3, <4>4
           DEF AtRest, AtWork, RowAhead, FileSomewhere, FileInPlace, Source, Target
    <3>2. CASE s # r
      <4>1. AtWork(s) /\ req'[s] = req[s]
        BY <1>0, <2>2, <3>2
      <4>2. UNCHANGED <<row, active, archive, interrupted>> /\ Followed' \subseteq Followed
        BY <2>1, <2>4
      <4> QED
        BY <4>1, <4>2 DEF AtWork, Busy, RowAhead, FileSomewhere, FileInPlace, Source, Target
    <3> QED
      BY <3>1, <3>2
  <2>7. ASSUME NEW e \in Docs PROVE AtRest(e)'
    <3>1. AtRest(e) /\ (WorkingOn(e)' = {} => WorkingOn(e) = {})
      BY <1>0, <2>1, <2>2, <1>11 DEF WorkingOn, Begin
    <3> QED
      BY <2>1, <2>4, <3>1 DEF AtRest
  <2> QED
    BY <2>3, <2>5, <2>6, <2>7 DEF VaultInv
<1>12. CASE Crash
  <2>1. \A r \in Requests : ~Busy(r)'
    BY <1>12 DEF Crash, Busy
  <2>2. VaultShape'
    BY <1>0, <1>12 DEF Crash, VaultShape
  <2>3. ASSUME NEW d \in Docs PROVE AtRest(d)'
    BY <1>0, <1>12 DEF Crash, AtRest, Followed
  <2> QED
    BY <2>1, <2>2, <2>3 DEF VaultInv, RequestsApart, AtWork
<1>13. CASE UNCHANGED vaultVars
  <2>1. VaultShape' /\ RequestsApart' /\ \A d \in Docs : AtRest(d)'
    BY <1>0, <1>13 DEF vaultVars, VaultShape, RequestsApart, AtRest, Busy, Followed, WorkingOn
  <2>2. ASSUME NEW r \in Requests PROVE AtWork(r)'
    BY <1>0, <1>13 DEF vaultVars, AtWork, Busy, Followed, RowAhead, FileSomewhere, FileInPlace,
                       Source, Target
  <2> QED
    BY <2>1, <2>2 DEF VaultInv
<1> QED
  BY <1>1, <1>2, <1>3, <1>4, <1>5, <1>6, <1>7, <1>8, <1>9, <1>10, <1>11, <1>12, <1>13
     DEF VaultNext, Fault, Ops

-----------------------------------------------------------------------------
(* Between requests the file of a document is where its row says, after any *)
(* failure and any undo (services/document.py: the compensation in          *)
(* soft_delete_document and restore_document).                              *)
THEOREM FilesAlwaysFollowRows == VaultSpec => []FilesFollowRows
<1>1. VaultInit => VaultInv
  BY VaultInitInv
<1>2. VaultInv /\ [VaultNext]_vaultVars => VaultInv'
  BY VaultStep
<1>3. VaultInv => FilesFollowRows
  BY DEF VaultInv, AtRest, Followed, FilesFollowRows
<1> QED
  BY <1>1, <1>2, <1>3, PTL DEF VaultSpec

\* Failures and crashes are counted up to their bound.
FaultsCounted == faults \in 0..MaxFaults

(* Rows, files and requests keep their types, after any failures, undone    *)
(* moves and crashes: a request names a document and a stage of its handler *)
(* (services/document.py), and every fault is counted.                      *)
THEOREM VaultTypeCorrect == VaultSpec => []VaultTypeOK
<1>1. VaultInit => FaultsCounted
  BY FaultsAssumption DEF VaultInit, FaultsCounted
<1>2. ASSUME FaultsCounted, [VaultNext]_vaultVars PROVE FaultsCounted'
  <2>1. faults' = faults \/ (faults < MaxFaults /\ faults' = faults + 1)
    BY <1>2 DEF VaultNext, vaultVars, Begin, Put, Flush, Copy, Remove, Commit, Undo, UndoRemove, Fault
  <2> QED
    BY <1>2, <2>1, FaultsAssumption DEF FaultsCounted
<1>3. VaultInv /\ FaultsCounted => VaultTypeOK
  BY DEF VaultInv, VaultShape, Ops, VaultStages, FaultsCounted, VaultTypeOK, InTransaction
<1> QED
  BY <1>1, <1>2, <1>3, VaultInitInv, VaultStep, PTL DEF VaultSpec
-----------------------------------------------------------------------------
(***************************************************************************)
(* For any number of loans, runs and connections, by whichever runs the    *)
(* lock is asked for: the row lock of the loan is what keeps the alerts    *)
(* single, not the advisory lock.                                          *)
(***************************************************************************)

Unjudged == {"UPCOMING", "AWAITING_REVIEW"}
CycleStates == Unjudged \cup Verdicts

RunWorks(r) == run[r].at = "working"

RunsShape ==
    /\ run = [r \in Runs |-> run[r]]
    /\ \A r \in Runs : run[r].at \in {"idle", "between", "working"}
    /\ \A r \in Runs : RunWorks(r) => run[r].loan \in Loans
    /\ \A r \in Runs : run[r].at # "idle" => run[r].todo \subseteq Loans
    /\ cycle \in [Loans -> CycleStates]
    /\ alerts \in [Loans -> [Milestones -> {0, 1}]]

(* Two runs do not work on one loan.                                       *)
RunsApart == \A r, s \in Runs : RunWorks(r) /\ RunWorks(s) /\ run[r].loan = run[s].loan => r = s

(* What a run has found due is not recorded yet; a cycle it read as UPCOMING *)
(* still is, and one on which it found the cap has at most been settled.    *)
FoundRight(r) == RunWorks(r) =>
    /\ \A m \in run[r].found \cap Milestones : alerts[run[r].loan][m] = 0
    /\ run[r].read \in CycleStates
    /\ run[r].read = "UPCOMING" => cycle[run[r].loan] = "UPCOMING"
    /\ "cap" \in run[r].found => cycle[run[r].loan] \in Unjudged \cup {"PAID_ON_TIME"}
FoundHolds == \A r \in Runs : FoundRight(r)

(* A cycle that awaited review never is UPCOMING again.                     *)
EditsHold == editing \subseteq Loans /\ \A l \in editing : cycle[l] # "UPCOMING"

NightlyInv == RunsShape /\ RunsApart /\ FoundHolds /\ EditsHold

(* The step AlertedOnce allows.                                            *)
AlertsOnce ==
    \A l \in Loans :
        /\ \A m \in Milestones : alerts'[l][m] <= 1
        /\ run' # run /\ cycle[l] \in Verdicts =>
              \/ cycle'[l] = cycle[l]
              \/ cycle[l] = "PAID_ON_TIME" /\ cycle'[l] = "MISSED_CAPPED"

\* A backend that has just started satisfies the invariant.
LEMMA NightlyInitInv == NightlyInit => NightlyInv
<1> SUFFICES ASSUME NightlyInit PROVE NightlyInv
  OBVIOUS
<1>1. alerts \in [Loans -> [Milestones -> {0, 1}]]
  <2>1. [m \in Milestones |-> 0] \in [Milestones -> {0, 1}]
    OBVIOUS
  <2> QED
    BY <2>1 DEF NightlyInit
<1> QED
  BY <1>1 DEF NightlyInit, NightlyInv, RunsShape, RunsApart, FoundHolds, FoundRight, EditsHold,
     RunWorks, NoRun,
     CycleStates, Unjudged

(* A step that leaves cycles and alerts alone and sends no run to a loan.   *)
LEMMA QuietStep ==
    ASSUME NightlyInv, UNCHANGED <<cycle, alerts>>, editing' \subseteq editing, run' = [r \in Runs |-> run'[r]],
           \A r \in Runs :
              \/ run'[r] = run[r]
              \/ run'[r].at = "idle"
              \/ run'[r].at = "between" /\ run'[r].todo \subseteq Loans
    PROVE  NightlyInv' /\ AlertsOnce
<1>1. RunsShape'
  BY DEF NightlyInv, RunsShape, RunWorks
<1>2. RunsApart' /\ FoundHolds' /\ EditsHold'
  BY DEF NightlyInv, RunsApart, FoundHolds, FoundRight, EditsHold, RunWorks
<1>3. AlertsOnce
  BY DEF NightlyInv, RunsShape, AlertsOnce, Milestones
<1> QED
  BY <1>1, <1>2, <1>3 DEF NightlyInv

\* Every step keeps the invariant and runs the job at most once.
LEMMA NightlyStep == ASSUME NightlyInv, [NightlyNext]_nightlyVars PROVE NightlyInv' /\ AlertsOnce
<1> USE DEF NightlyInv
<1>1. ASSUME NEW r \in Runs, Start(r) PROVE NightlyInv' /\ AlertsOnce
  <2>1. PICK c \in Free :
          run' = [run EXCEPT ![r] = [at |-> "between", today |-> day, todo |-> Loans, conn |-> c]]
    BY <1>1 DEF Start
  <2>2. UNCHANGED <<cycle, alerts, editing>>
    BY <1>1 DEF Start
  <2> QED
    BY <2>1, <2>2, QuietStep DEF RunsShape
<1>2. ASSUME NEW r \in Runs, LoanFails(r) \/ FinishRun(r) PROVE NightlyInv' /\ AlertsOnce
  <2>1. UNCHANGED <<cycle, alerts, editing>>
    BY <1>2 DEF LoanFails, FinishRun
  <2>2. CASE LoanFails(r)
    <3>1. run[r].todo \subseteq Loans
      BY <2>2 DEF LoanFails, RunsShape
    <3>2. run' = [run EXCEPT ![r] = [at |-> "between", today |-> run[r].today,
                                     todo |-> run[r].todo, conn |-> NoConn]]
      BY <2>2 DEF LoanFails, Proceed
    <3> QED
      BY <2>1, <3>1, <3>2, QuietStep DEF RunsShape
  <2>3. CASE FinishRun(r)
    <3>1. run' = [run EXCEPT ![r] = NoRun]
      BY <2>3 DEF FinishRun
    <3> QED
      BY <2>1, <3>1, QuietStep DEF RunsShape, NoRun
  <2> QED
    BY <1>2, <2>2, <2>3
<1>3. CASE Dies
  <2>1. UNCHANGED <<cycle, alerts>> /\ editing' = {} /\ run' = [r \in Runs |-> NoRun]
    BY <1>3 DEF Dies
  <2> QED
    BY <2>1, QuietStep DEF NoRun
<1>4. CASE NextDay \/ (\E c \in Conns : Recycle(c)) \/ UNCHANGED nightlyVars
  <2>1. UNCHANGED <<cycle, alerts, run, editing>>
    BY <1>4 DEF NextDay, Recycle, nightlyVars
  <2> QED
    BY <2>1, QuietStep DEF RunsShape
<1>5. ASSUME NEW r \in Runs, Work(r) PROVE NightlyInv' /\ AlertsOnce
  <2>1. PICK l \in run[r].todo, c \in ConnsFor(r) : RowIsFree(l) /\ Take(r, l, c)
    BY <1>5 DEF Work
  <2>2. l \in Loans /\ run[r].todo \subseteq Loans /\ UNCHANGED <<cycle, alerts, editing>>
    BY <1>5 DEF Work, RunsShape
  <2> DEFINE taken == [at |-> "working", today |-> run[r].today, todo |-> run[r].todo \ {l},
                       conn |-> c, loan |-> l, read |-> cycle[l],
                       found |-> Found(l, run[r].today)]
  <2>3. run' = [run EXCEPT ![r] = taken]
    BY <2>1 DEF Take
  <2>4. /\ \A s \in Runs \ {r} : run'[s] = run[s]
        /\ run'[r] = taken
    BY <2>3 DEF RunsShape
  <2>5. RunsShape'
    BY <2>2, <2>3, <2>4 DEF RunsShape, RunWorks
  <2>6. RunsApart'
    BY <2>1, <2>4 DEF RunsApart, RunWorks, RowIsFree
  <2>7. \A m \in taken.found : alerts[l][m] = 0
    BY DEF Found
  <2>8. "cap" \in taken.found => cycle[l] \in Unjudged
    BY DEF Found, Promoted, Unjudged
  <2>9. FoundHolds' /\ EditsHold'
    BY <2>2, <2>4, <2>7, <2>8 DEF FoundHolds, FoundRight, EditsHold, RunWorks, RunsShape
  <2>10. AlertsOnce
    BY <2>2 DEF RunsShape, AlertsOnce
  <2> QED
    BY <2>5, <2>6, <2>9, <2>10
<1>6. ASSUME NEW r \in Runs, CommitLoan(r) PROVE NightlyInv' /\ AlertsOnce
  <2> DEFINE l == run[r].loan
             today == run[r].today
             recorded == IF auto THEN run[r].found \ {"cap"} ELSE run[r].found
             capped == auto /\ "cap" \in run[r].found
             status == IF capped THEN "MISSED_CAPPED" ELSE Promoted(run[r].read, today)
             after == IF status = run[r].read THEN cycle[l] ELSE status
  <2>1. RunWorks(r) /\ l \in Loans /\ run[r].todo \subseteq Loans /\ UNCHANGED editing
    BY <1>6 DEF CommitLoan, RunsShape, RunWorks
  <2>a. cycle' = IF status = run[r].read THEN cycle ELSE [cycle EXCEPT ![l] = status]
    BY <1>6 DEF CommitLoan
  <2>2. /\ alerts' = [alerts EXCEPT ![l] =
                        [m \in Milestones |-> @[m] + IF m \in recorded THEN 1 ELSE 0]]
        /\ cycle' = [cycle EXCEPT ![l] = after]
    BY <1>6, <2>1, <2>a DEF CommitLoan, RunsShape
  <2>3. run' = [run EXCEPT ![r] = [at |-> "between", today |-> today, todo |-> run[r].todo,
                                   conn |-> NoConn]]
    BY <1>6 DEF CommitLoan, Proceed
  <2>4. /\ after \in CycleStates
        /\ cycle[l] \in Verdicts =>
              after = cycle[l] \/ (cycle[l] = "PAID_ON_TIME" /\ after = "MISSED_CAPPED")
        /\ after = "UPCOMING" => cycle[l] = "UPCOMING"
    BY <2>1 DEF RunsShape, FoundHolds, FoundRight, Promoted, CycleStates, Verdicts, Unjudged
  <2>5. \A m \in Milestones : alerts'[l][m] \in {0, 1}
    BY <2>1, <2>2 DEF RunsShape, FoundHolds, FoundRight
  <2>6. \A k \in Loans \ {l} : alerts'[k] = alerts[k] /\ cycle'[k] = cycle[k]
    BY <2>2 DEF RunsShape
  <2>7. alerts' \in [Loans -> [Milestones -> {0, 1}]]
    <3>1. [m \in Milestones |-> alerts[l][m] + IF m \in recorded THEN 1 ELSE 0]
             \in [Milestones -> {0, 1}]
      BY <2>1, <2>2, <2>5 DEF RunsShape
    <3> QED
      BY <2>2, <3>1 DEF RunsShape
  <2>8. RunsShape'
    BY <2>1, <2>2, <2>3, <2>4, <2>7 DEF RunsShape, RunWorks
  <2>9. RunsApart'
    BY <2>3 DEF RunsApart, RunWorks, RunsShape
  <2>10. FoundHolds'
    BY <2>1, <2>3, <2>6 DEF FoundHolds, FoundRight, RunsApart, RunWorks, RunsShape
  <2>b. EditsHold'
    BY <2>1, <2>2, <2>4 DEF EditsHold, RunsShape
  <2>11. AlertsOnce
    <3>1. ASSUME NEW k \in Loans PROVE \A m \in Milestones : alerts'[k][m] <= 1
      <4>1. alerts'[k] \in [Milestones -> {0, 1}]
        BY <2>7
      <4> HIDE DEF l, today, recorded, capped, status, after
      <4> QED
        BY <4>1
    <3>2. ASSUME NEW k \in Loans, cycle[k] \in Verdicts
          PROVE  cycle'[k] = cycle[k] \/ (cycle[k] = "PAID_ON_TIME" /\ cycle'[k] = "MISSED_CAPPED")
      <4>1. CASE k = l
        BY <2>1, <2>2, <2>4, <3>2, <4>1 DEF RunsShape
      <4>2. CASE k # l
        BY <2>6, <3>2, <4>2
      <4> QED
        BY <4>1, <4>2
    <3> QED
      BY <3>1, <3>2 DEF AlertsOnce
  <2> QED
    BY <2>8, <2>9, <2>10, <2>11, <2>b
<1>7. ASSUME NEW l \in Loans, NEW verdict \in Verdicts,
             UNCHANGED <<alerts, run>>, editing' \subseteq editing,
             cycle' = [cycle EXCEPT ![l] = verdict],
             \/ RowIsFree(l)
             \/ verdict = "PAID_ON_TIME" /\ cycle[l] # "UPCOMING"
      PROVE  NightlyInv' /\ AlertsOnce
  <2>1. \A k \in Loans : cycle'[k] = IF k = l THEN verdict ELSE cycle[k]
    BY <1>7 DEF RunsShape
  <2>2. RunsShape'
    BY <1>7 DEF RunsShape, RunWorks, CycleStates
  <2>3. RunsApart'
    BY <1>7 DEF RunsApart, RunWorks
  <2>4. FoundHolds'
    <3>1. ASSUME NEW r \in Runs, RunWorks(r)' PROVE FoundRight(r)'
      <4>1. RunWorks(r) /\ run[r].loan \in Loans /\ FoundRight(r)
        BY <1>7, <3>1 DEF RunWorks, RunsShape, FoundHolds, FoundRight
      <4>2. CASE run[r].loan = l
        BY <1>7, <2>1, <4>1, <4>2 DEF RowIsFree, RunWorks, FoundRight, Verdicts
      <4>3. CASE run[r].loan # l
        BY <1>7, <2>1, <4>1, <4>3 DEF RunWorks, FoundRight
      <4> QED
        BY <4>2, <4>3
    <3> QED
      BY <3>1 DEF FoundHolds, FoundRight
  <2>5. EditsHold'
    BY <1>7, <2>1 DEF EditsHold, Verdicts
  <2>6. AlertsOnce
    BY <1>7 DEF AlertsOnce, RunsShape
  <2> QED
    BY <2>2, <2>3, <2>4, <2>5, <2>6
<1>8. ASSUME NEW l \in Loans, NEW verdict \in Verdicts, Judged(l, verdict)
      PROVE  NightlyInv' /\ AlertsOnce
  BY <1>7, <1>8 DEF Judged
<1>9. ASSUME NEW l \in Loans, PaidInFull(l) \/ EditSettles(l) PROVE NightlyInv' /\ AlertsOnce
  <2>1. /\ cycle' = [cycle EXCEPT ![l] = "PAID_ON_TIME"] /\ UNCHANGED <<alerts, run>>
        /\ cycle[l] # "UPCOMING" /\ editing' \subseteq editing
    BY <1>9 DEF PaidInFull, EditSettles, EditsHold
  <2> QED
    BY <1>7, <2>1 DEF Verdicts
<1>10. ASSUME NEW l \in Loans, ReadForEdit(l) PROVE NightlyInv' /\ AlertsOnce
  <2>1. UNCHANGED <<cycle, alerts, run>> /\ EditsHold'
    BY <1>10 DEF ReadForEdit, EditsHold
  <2>2. RunsShape' /\ RunsApart' /\ FoundHolds' /\ AlertsOnce
    BY <2>1 DEF RunsShape, RunsApart, FoundHolds, FoundRight, RunWorks, AlertsOnce
  <2> QED
    BY <2>1, <2>2
<1> QED
  BY <1>1, <1>2, <1>3, <1>4, <1>5, <1>6, <1>8, <1>9, <1>10 DEF NightlyNext

-----------------------------------------------------------------------------
(* A milestone is recorded once, however many runs overlap, die and are     *)
(* repeated, also without the advisory lock, and a run leaves every verdict *)
(* alone but PAID_ON_TIME, over which it may write the cap it has found     *)
(* before a payment settled the cycle (jobs/nightly_cycle_check.py:         *)
(* _has_milestone under the row lock, the cycles read without one).         *)
THEOREM AlertsAreSingle == NightlySpec => AlertedOnce
<1>1. NightlyInit => NightlyInv
  BY NightlyInitInv
<1>2. NightlyInv /\ [NightlyNext]_nightlyVars => NightlyInv'
  BY NightlyStep
<1>3. NightlyInv /\ [NightlyNext]_nightlyVars =>
        [\A l \in Loans :
           /\ \A m \in Milestones : alerts'[l][m] <= 1
           /\ run' # run /\ cycle[l] \in Verdicts =>
                  \/ cycle'[l] = cycle[l]
                  \/ cycle[l] = "PAID_ON_TIME" /\ cycle'[l] = "MISSED_CAPPED"]_nightlyVars
  BY NightlyStep DEF AlertsOnce
<1> QED
  BY <1>1, <1>2, <1>3, PTL DEF NightlySpec, AlertedOnce

\* What the types say of the day and of the locks.
Calendar == byHand \in ByHand /\ auto \in BOOLEAN /\ day \in 0..LastDay
LocksCounted == advisory \in [Conns -> 0..MaxHeld]

\* Days and locks stay within their bounds.
LEMMA CalendarKeeps == ASSUME Calendar, [NightlyNext]_nightlyVars PROVE Calendar'
<1>1. UNCHANGED <<byHand, auto>> /\ (day' = day \/ (day < LastDay /\ day' = day + 1))
  BY DEF NightlyNext, nightlyVars, Start, Work, CommitLoan, LoanFails, FinishRun, Recycle,
     Judged, PaidInFull, ReadForEdit, EditSettles, Dies, NextDay
<1>2. day' \in 0..LastDay
  BY <1>1, BoundsAssumption DEF Calendar
<1> QED
  BY <1>1, <1>2 DEF Calendar

\* The lock is taken once more only below the bound; an unlock of a connection that
\* does not hold it leaves it free.
LEMMA LocksKeep == ASSUME LocksCounted, [NightlyNext]_nightlyVars PROVE LocksCounted'
<1>1. ASSUME NEW r \in Runs, Start(r) PROVE LocksCounted'
  <2>1. PICK c \in Free : /\ r \notin byHand => advisory[c] < MaxHeld
                          /\ advisory' = IF r \in byHand THEN advisory
                                                         ELSE [advisory EXCEPT ![c] = @ + 1]
    BY <1>1 DEF Start
  <2>2. c \in Conns
    BY DEF Free
  <2>3. CASE r \in byHand
    BY <2>1, <2>3 DEF LocksCounted
  <2>4. CASE r \notin byHand
    <3>1. advisory[c] + 1 \in 0..MaxHeld
      BY <2>1, <2>2, <2>4, BoundsAssumption DEF LocksCounted
    <3> QED
      BY <2>1, <2>2, <2>4, <3>1 DEF LocksCounted
  <2> QED
    BY <2>3, <2>4
<1>2. ASSUME NEW r \in Runs, FinishRun(r), NEW c,
             advisory' = [advisory EXCEPT ![c] = IF @ = 0 THEN 0 ELSE @ - 1]
      PROVE  LocksCounted'
  <2>1. CASE c \in Conns
    <3>1. (IF advisory[c] = 0 THEN 0 ELSE advisory[c] - 1) \in 0..MaxHeld
      BY <2>1, BoundsAssumption DEF LocksCounted
    <3> QED
      BY <1>2, <2>1, <3>1 DEF LocksCounted
  <2>2. CASE c \notin Conns
    BY <1>2, <2>2 DEF LocksCounted
  <2> QED
    BY <2>1, <2>2
<1>3. ASSUME NEW c \in Conns, Recycle(c) PROVE LocksCounted'
  BY <1>3, BoundsAssumption DEF Recycle, LocksCounted
<1>4. CASE Dies
  BY <1>4, BoundsAssumption DEF Dies, LocksCounted
<1>5. ASSUME UNCHANGED advisory PROVE LocksCounted'
  BY <1>5 DEF LocksCounted
<1> QED
  BY <1>1, <1>2, <1>3, <1>4, <1>5
     DEF NightlyNext, nightlyVars, FinishRun, Work, CommitLoan, LoanFails, Judged,
         PaidInFull, ReadForEdit, EditSettles, NextDay

(* Runs, cycles, alerts and locks keep their types, with any overlap of     *)
(* runs: the lock is held at most as often as it may be taken, whichever    *)
(* connection the unlock goes to (core/scheduler.py).                       *)
THEOREM NightlyTypeCorrect == NightlySpec => []NightlyTypeOK
<1>1. NightlyInit => Calendar
  BY BoundsAssumption DEF NightlyInit, Calendar
<1>2. NightlyInit => LocksCounted
  BY BoundsAssumption DEF NightlyInit, LocksCounted
<1>3. NightlyInv /\ [NightlyNext]_nightlyVars => NightlyInv'
  BY NightlyStep
<1>4. ASSUME NightlyInv, Calendar, LocksCounted PROVE NightlyTypeOK
  BY <1>4 DEF NightlyInv, RunsShape, EditsHold, CycleStates, Unjudged, Calendar, LocksCounted,
     NightlyTypeOK
<1> QED
  BY <1>1, <1>2, <1>3, <1>4, NightlyInitInv, CalendarKeeps, LocksKeep, PTL DEF NightlySpec
=============================================================================
