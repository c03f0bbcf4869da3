---------------------------- MODULE EvidenceState ----------------------------
(***************************************************************************)
(* The evidence store's files, tables and requests, and what the store     *)
(* promises of the evidence it was given.  The steps are in Evidence.      *)
(***************************************************************************)
EXTENDS Integers, FiniteSets

CONSTANTS
    Blobs,         \* contents, by digest
    Owners,        \* engagements
    Stored,        \* evidence rows stored before the behaviour begins
    Uploaded,      \* contents that are uploaded during it
    Requests,      \* concurrent requests; each serves one call after another
    MaxRow,        \* bound: evidence rows ever written
    MaxCall,       \* bound: calls served
    MaxFault       \* bound: failed transactions and crashes

RowIds == [id : 1..MaxRow, eng : Owners, sha : Blobs]
ASSUME EvidenceAssumption ==
    /\ MaxRow \in Nat /\ MaxCall \in Nat /\ MaxFault \in Nat
    /\ Stored \subseteq RowIds /\ Uploaded \subseteq Blobs /\ "none" \notin Blobs
    /\ IsFiniteSet(Stored) /\ {r.id : r \in Stored} = 1..Cardinality(Stored)

VARIABLES
    file,          \* contents with a file in the blob tree
    blob,          \* evidence_blob: ref_count, NoRow without a row
    links,         \* evidence: the rows that point at a blob
    engs,          \* engagement rows
    req,           \* each request: the call it serves and what that call works on
    begun,         \* calls begun so far
    ids,           \* identifiers given to evidence rows
    faults,        \* failures so far
    released,      \* history: rows whose reference was given back
    twice,         \* history: contents with a reference given back twice
    contested,     \* history: contents an upload of which overlapped another call on them
    purged         \* history: contents a call on which overlapped an engagement delete

NoRow == -1
Refs(b) == {r \in links : r.sha = b}

-----------------------------------------------------------------------------
(* What the store promises *)

\* Evidence whose reference nobody gave back can be opened, through every failure and crash,
\* unless an upload of its content overlapped another call about it, or one reference to its
\* content was given back twice (Put, DeleteEvidence, Engagements.Delete).
EvidenceOutlivesFaults ==
    \A r \in links \ released : r.sha \in file \cup contested \cup twice

\* Without failures, without those two hazards and without an engagement delete under way
\* (DeleteBlob is refused while it is about to drop the last rows), a content nobody works on has its file
\* and its row together: content with one and not the other is refused by every later Put,
\* by IncrementRef's requireOneRow or by InsertBlob's primary key.
Storable(b) == b \in file <=> blob[b] # NoRow
QuietContentStorable ==
    \A b \in Blobs \ (contested \cup twice \cup purged) :
        faults = 0 /\ (\A c \in Requests : req[c].sha # b) => Storable(b)

\* The count never runs below the rows that still hold a reference: DecrementRef reports the
\* last reference too early for nobody.
CountCoversRows ==
    \A b \in Blobs \ (contested \cup twice) :
        Refs(b) \subseteq released \/ blob[b] >= Cardinality(Refs(b) \ released)
=============================================================================
