------------------------------- MODULE Evidence -------------------------------
(***************************************************************************)
(* The content-addressed evidence store (internal/evidence/store.go) and   *)
(* the rows that count its references (internal/store/engagement/          *)
(* {blobs,evidence,engagements}.go).  A blob is a file and a row with a    *)
(* reference count; an evidence row points at it.  Storing evidence,       *)
(* deleting one row (DeleteEvidence) and deleting an engagement are each   *)
(* several file operations and transactions, and nothing is held between   *)
(* them.  A transaction may fail, the process may die, and an engagement   *)
(* delete that stopped half-way is run again.                              *)
(***************************************************************************)
EXTENDS EvidenceState

dbs == <<blob, links, engs, ids>>
hist == <<released, twice, contested, purged>>
vars == <<file, dbs, req, begun, faults, hist>>

NoRef == [id |-> 0]

Idle == [pc |-> "idle", op |-> "none", sha |-> "none", eng |-> "none", row |-> NoRef]
Pcs == {"idle", "rename", "increment", "insert", "cleanup", "create",
        "unlink", "decrement", "remove", "forget", "release", "droprows", "droprest"}
CallStates ==
    [pc : Pcs, op : {"none", "upload", "delete", "purge"}, sha : Blobs \cup {"none"},
     eng : Owners \cup {"none"}, row : RowIds \cup {NoRef}]

TypeOK ==
    /\ file \subseteq Blobs /\ blob \in [Blobs -> Nat \cup {NoRow}]
    /\ links \subseteq RowIds /\ engs \subseteq Owners
    /\ req \in [Requests -> CallStates] /\ begun \in 0..MaxCall
    /\ ids \in 0..MaxRow /\ faults \in 0..MaxFault
    /\ released \subseteq RowIds /\ twice \subseteq Blobs /\ contested \subseteq Blobs
    /\ purged \subseteq Blobs

Init ==
    /\ links = Stored /\ ids = Cardinality(Stored) /\ engs = Owners
    /\ file = {r.sha : r \in Stored}
    /\ blob = [b \in Blobs |-> IF b \in file THEN Cardinality(Refs(b)) ELSE NoRow]
    /\ req = [c \in Requests |-> Idle] /\ begun = 0 /\ faults = 0
    /\ released = {} /\ twice = {} /\ contested = {} /\ purged = {}

\* Calls about content b that are under way, other than c.
Others(c, b) == {d \in Requests \ {c} : req[d].sha = b}
Overlap(c, b, yes) ==
    /\ contested' = IF yes THEN contested \cup {b} ELSE contested
    /\ purged' = IF \E d \in Requests : req[d].op = "purge" THEN purged \cup {b} ELSE purged
    /\ UNCHANGED <<released, twice>>

Begin(c, r) ==
    /\ req[c].pc = "idle" /\ begun < MaxCall
    /\ begun' = begun + 1 /\ req' = [req EXCEPT ![c] = r]
Goto(c, l) == req' = [req EXCEPT ![c].pc = l] /\ UNCHANGED begun
Return(c) == req' = [req EXCEPT ![c] = Idle] /\ UNCHANGED begun
At(c, l) == req[c].pc = l

-----------------------------------------------------------------------------
(* Put, then EvidenceRepo.Create with the digest that Put returned *)

\* [mutant] a blob is taken to be there when its row is.
StatTheRow(c, b, e) ==
    /\ b \in Uploaded /\ e \in engs
    /\ Begin(c, [Idle EXCEPT !.op = "upload", !.sha = b, !.eng = e,
                    !.pc = IF blob[b] # NoRow THEN "increment" ELSE "rename"])
    /\ Overlap(c, b, Others(c, b) # {})
    /\ UNCHANGED <<file, dbs, faults>>

\* The upload has been written to its temporary file; is there a blob file already?
Stat(c, b, e) ==
    /\ b \in Uploaded /\ e \in engs
    /\ Begin(c, [Idle EXCEPT !.op = "upload", !.sha = b, !.eng = e,
                    !.pc = IF b \in file THEN "increment" ELSE "rename"])
    /\ Overlap(c, b, Others(c, b) # {})
    /\ UNCHANGED <<file, dbs, faults>>

\* IncrementRef: not found without a row.
IncrementRef(c) ==
    LET b == req[c].sha IN
    /\ At(c, "increment")
    /\ IF blob[b] # NoRow THEN blob' = [blob EXCEPT ![b] = @ + 1] /\ Goto(c, "create")
       ELSE UNCHANGED blob /\ Return(c)
    /\ UNCHANGED <<file, links, engs, ids, faults, hist>>

\* The engagement's quota refuses the upload, or its file takes its place in the tree.
Rename(c) ==
    /\ At(c, "rename")
    /\ \/ Return(c) /\ UNCHANGED file
       \/ file' = file \cup {req[c].sha} /\ Goto(c, "insert")
    /\ UNCHANGED <<dbs, faults, hist>>

\* [mutant] the row is written before anything refers to it, with no reference.
InsertBlobUncounted(c) ==
    LET b == req[c].sha IN
    /\ At(c, "insert")
    /\ IF blob[b] = NoRow THEN blob' = [blob EXCEPT ![b] = 0] /\ Goto(c, "create")
       ELSE UNCHANGED blob /\ Goto(c, "cleanup")
    /\ UNCHANGED <<file, links, engs, ids, faults, hist>>

\* InsertBlob: the digest is the primary key.
InsertBlob(c) ==
    LET b == req[c].sha IN
    /\ At(c, "insert")
    /\ IF blob[b] = NoRow THEN blob' = [blob EXCEPT ![b] = 1] /\ Goto(c, "create")
       ELSE UNCHANGED blob /\ Goto(c, "cleanup")
    /\ UNCHANGED <<file, links, engs, ids, faults, hist>>

\* "Best-effort cleanup; the row failed but the file is on disk."
Cleanup(c) ==
    /\ At(c, "cleanup")
    /\ file' = file \ {req[c].sha}
    /\ Return(c)
    /\ UNCHANGED <<dbs, faults, hist>>

\* EvidenceRepo.Create, under the foreign keys to the blob and to the execution.
Create(c) ==
    LET k == req[c] IN
    /\ At(c, "create") /\ ids < MaxRow
    /\ IF blob[k.sha] # NoRow /\ k.eng \in engs
       THEN links' = links \cup {[id |-> ids + 1, eng |-> k.eng, sha |-> k.sha]} /\ ids' = ids + 1
       ELSE UNCHANGED <<links, ids>>
    /\ Return(c)
    /\ UNCHANGED <<file, blob, engs, faults, hist>>

-----------------------------------------------------------------------------
(* DeleteEvidence *)

\* The row is read, and its content with it.
DeleteEvidence(c, r) ==
    /\ r \in links
    /\ Begin(c, [Idle EXCEPT !.op = "delete", !.pc = "unlink", !.sha = r.sha, !.row = r])
    /\ Overlap(c, r.sha, \E d \in Others(c, r.sha) : req[d].op = "upload")
    /\ UNCHANGED <<file, dbs, faults>>

\* DeleteLink: requireOneRow stops the second of two deletes.
DeleteLink(c) ==
    /\ At(c, "unlink")
    /\ links' = links \ {req[c].row}
    /\ IF req[c].row \in links THEN Goto(c, "decrement") ELSE Return(c)
    /\ UNCHANGED <<file, blob, engs, ids, faults, hist>>

GiveBack(rs) ==
    /\ released' = released \cup rs
    /\ twice' = twice \cup {r.sha : r \in rs \cap released}
    /\ UNCHANGED <<contested, purged>>

\* [mutant] the file goes when one reference is left.
DecrementRefToOne(c) ==
    LET k == req[c] IN
    /\ At(c, "decrement")
    /\ IF blob[k.sha] > 0
       THEN /\ blob' = [blob EXCEPT ![k.sha] = @ - 1] /\ GiveBack({k.row})
            /\ IF blob[k.sha] <= 2 THEN Goto(c, "remove") ELSE Return(c)
       ELSE Return(c) /\ UNCHANGED <<blob, hist>>
    /\ UNCHANGED <<file, links, engs, ids, faults>>

\* DecrementRef: the table's check keeps the count from going below zero.
DecrementRef(c) ==
    LET k == req[c] IN
    /\ At(c, "decrement")
    /\ IF blob[k.sha] > 0
       THEN /\ blob' = [blob EXCEPT ![k.sha] = @ - 1] /\ GiveBack({k.row})
            /\ IF blob[k.sha] = 1 THEN Goto(c, "remove") ELSE Return(c)
       ELSE Return(c) /\ UNCHANGED <<blob, hist>>
    /\ UNCHANGED <<file, links, engs, ids, faults>>

\* RemoveBlobFile: a file that is gone already is no error.
RemoveBlobFile(c) ==
    /\ At(c, "remove")
    /\ file' = file \ {req[c].sha}
    /\ Goto(c, "forget")
    /\ UNCHANGED <<dbs, faults, hist>>

\* DeleteBlob, best effort: refused while an evidence row points at the blob.
DeleteBlob(c) ==
    LET b == req[c].sha IN
    /\ At(c, "forget")
    /\ blob' = IF Refs(b) = {} THEN [blob EXCEPT ![b] = NoRow] ELSE blob
    /\ Return(c)
    /\ UNCHANGED <<file, links, engs, ids, faults, hist>>

-----------------------------------------------------------------------------
(* Engagements.Delete: the statements of deleteEngagementGraph, one by one *)

DeleteEngagement(c, e) ==
    /\ e \in engs
    /\ Begin(c, [Idle EXCEPT !.op = "purge", !.pc = "release", !.eng = e])
    /\ purged' = purged \cup ({req[d].sha : d \in Requests} \ {"none"})
    /\ UNCHANGED <<file, dbs, faults, released, twice, contested>>

Owned(e) == {r \in links : r.eng = e}
Held(e, b) == Cardinality(Owned(e) \cap Refs(b))

\* UPDATE evidence_blob: once per row; the table's check refuses a count below zero.  The
\* rows hang off executions here: the same statement for comments finds nothing.
Release(c) ==
    LET e == req[c].eng IN
    /\ At(c, "release")
    /\ IF \A r \in Owned(e) : blob[r.sha] >= Held(e, r.sha)
       THEN /\ blob' = [b \in Blobs |-> IF Held(e, b) > 0 THEN blob[b] - Held(e, b) ELSE blob[b]]
            /\ GiveBack(Owned(e)) /\ Goto(c, "droprows")
       ELSE Return(c) /\ UNCHANGED <<blob, hist>>
    /\ UNCHANGED <<file, links, engs, ids, faults>>

\* DELETE FROM evidence
DropRows(c) ==
    /\ At(c, "droprows")
    /\ links' = links \ Owned(req[c].eng)
    /\ Goto(c, "droprest")
    /\ UNCHANGED <<file, blob, engs, ids, faults, hist>>

\* The workbook and the engagement row: refused while evidence hangs off an execution.
DropRest(c) ==
    LET e == req[c].eng IN
    /\ At(c, "droprest")
    /\ engs' = IF Owned(e) = {} THEN engs \ {e} ELSE engs
    /\ Return(c)
    /\ UNCHANGED <<file, blob, links, ids, faults, hist>>

-----------------------------------------------------------------------------
(* Failures *)

Transactions == {"increment", "insert", "create", "unlink", "decrement", "forget",
                 "release", "droprows", "droprest"}

\* A transaction fails; only the one of InsertBlob has something to clean up.
Fail(c) ==
    /\ req[c].pc \in Transactions /\ faults < MaxFault
    /\ faults' = faults + 1
    /\ IF At(c, "insert") THEN Goto(c, "cleanup") ELSE Return(c)
    /\ UNCHANGED <<file, dbs, hist>>

\* The process dies; files and committed transactions stay.
Crash ==
    /\ faults < MaxFault /\ \E c \in Requests : ~At(c, "idle")
    /\ faults' = faults + 1
    /\ req' = [c \in Requests |-> Idle]
    /\ UNCHANGED <<file, dbs, begun, hist>>

-----------------------------------------------------------------------------
Next ==
    \/ \E c \in Requests :
          \/ \E b \in Blobs, e \in Owners : Stat(c, b, e)
          \/ IncrementRef(c) \/ Rename(c) \/ InsertBlob(c) \/ Cleanup(c) \/ Create(c)
          \/ \E r \in links : DeleteEvidence(c, r)
          \/ DeleteLink(c) \/ DecrementRef(c) \/ RemoveBlobFile(c) \/ DeleteBlob(c)
          \/ \E e \in Owners : DeleteEngagement(c, e)
          \/ Release(c) \/ DropRows(c) \/ DropRest(c)
          \/ Fail(c)
    \/ Crash

Spec == Init /\ [][Next]_vars

-----------------------------------------------------------------------------
(***************************************************************************)
(* Properties                                                              *)
(***************************************************************************)

\* "a caller that fails midway leaves a partly emptied engagement, not a corrupt one"
\* (engagements.go): evidence whose reference nobody gave back can be opened.
\* Refuted: a delete that is run again gives the references back twice (README, Known
\* divergences).
FailedDeleteCorruptsNothing == \A r \in links \ released : r.sha \in file
=============================================================================
