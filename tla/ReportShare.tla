----------------------------- MODULE ReportShare -----------------------------
(***************************************************************************)
(* A report's published versions, the links that share them and the grants *)
(* people claim through a link (internal/report/{service,publish,share}.go *)
(* over internal/store/report/{reports,versions,share}.go, and the PDF     *)
(* handler of internal/httpapi/reporthandlers.go).  Publishing, claiming,  *)
(* revoking a link, printing and deleting the report each read first and   *)
(* write later, in transactions of their own; the grant cap alone is       *)
(* checked in the transaction that inserts the grant.  Deleting a report   *)
(* is five committed statements, children first, refused by the foreign    *)
(* keys when a child is written in between.                                *)
(***************************************************************************)
EXTENDS Integers, FiniteSets

CONSTANTS
    Users,         \* people who claim and view
    Calls,         \* concurrent requests; each serves one call after another
    Cap,           \* max_grants of a capped share
    MaxVersion,    \* bound: versions ever published
    MaxShare,      \* bound: shares ever created
    MaxGrant,      \* bound: grants ever claimed
    MaxCall        \* bound: calls served

ASSUME ReportShareAssumption ==
    /\ Cap \in Nat \ {0} /\ MaxVersion \in Nat /\ MaxShare \in Nat /\ MaxGrant \in Nat
    /\ MaxCall \in Nat

VARIABLES
    report,        \* the report row is there
    blocks,        \* it has draft blocks
    vers,          \* report_version: ordinal, pdf_sha256 (0: not set)
    shares,        \* report_share: version, max_grants (0: none), revoked_at, expired
    grants,        \* report_share_grant: share, user, revoked_at
    call,          \* each request: the call it serves and what that call has read
    ctr,           \* identifiers given and calls begun
    hist           \* history: what overlapped what (see the properties)

tables == <<report, blocks, vers, shares, grants>>
vars == <<tables, call, ctr, hist>>

\* A table maps the identifiers of its rows to the rows.
Put(f, k, v) == [x \in DOMAIN f \cup {k} |-> IF x = k THEN v ELSE f[x]]

Versions == [ordinal : 1..MaxVersion, pdf : Nat]
Shares == [ver : 1..MaxVersion, max : {0, Cap}, revoked : BOOLEAN, expired : BOOLEAN]
Grants == [share : 1..MaxShare, user : Users, revoked : BOOLEAN]

Idle == [pc |-> "idle", id |-> 0, ordinal |-> 0, max |-> 0, user |-> "none", todo |-> {}]
CallStates ==
    [pc : {"idle", "ordinal", "insert", "pdf", "share", "existing", "claim", "revoke", "list",
           "each", "grants", "shares", "versions", "blocks", "row"},
     id : Nat, ordinal : 0..MaxVersion, max : {0, Cap},
     user : Users \cup {"none"}, todo : SUBSET (1..MaxGrant)]

IsTable(f, n, S) == DOMAIN f \subseteq 1..n /\ f \in [DOMAIN f -> S]
TypeOK ==
    /\ report \in BOOLEAN /\ blocks \in BOOLEAN
    /\ IsTable(vers, MaxVersion, Versions) /\ IsTable(shares, MaxShare, Shares)
    /\ IsTable(grants, MaxGrant, Grants)
    /\ call \in [Calls -> CallStates]
    /\ ctr \in [ver : 0..MaxVersion, share : 0..MaxShare, grant : 0..MaxGrant, call : 0..MaxCall,
                pdf : Nat]
    /\ hist \in [dropped : BOOLEAN, late : SUBSET (Nat \X Users), twins : SUBSET (Nat \X Users),
                 halted : SUBSET Nat, printed : SUBSET Nat]

Init ==
    /\ report = TRUE /\ blocks = FALSE
    /\ vers = <<>> /\ shares = <<>> /\ grants = <<>>
    /\ call = [c \in Calls |-> Idle]
    /\ ctr = [ver |-> 0, share |-> 0, grant |-> 0, call |-> 0, pdf |-> 0]
    /\ hist = [dropped |-> FALSE, late |-> {}, twins |-> {}, halted |-> {}, printed |-> {}]

Ordinals == {vers[v].ordinal : v \in DOMAIN vers}
Active(s) == {g \in DOMAIN grants : grants[g].share = s /\ ~grants[g].revoked}
Held(s, u) == {g \in Active(s) : grants[g].user = u}
At(c, l) == call[c].pc = l
InFlight(pcs, i, u) == {c \in Calls : call[c].pc \in pcs /\ call[c].id = i /\ call[c].user = u}

Begin(c, r) ==
    /\ At(c, "idle") /\ ctr.call < MaxCall
    /\ ctr' = [ctr EXCEPT !.call = @ + 1]
    /\ call' = [call EXCEPT ![c] = r]
Goto(c, l) == call' = [call EXCEPT ![c].pc = l]
Return(c) == call' = [call EXCEPT ![c] = Idle]

-----------------------------------------------------------------------------
(* Drafting and publishing *)

\* ReplaceBlocks: one transaction.
ReplaceBlocks ==
    /\ report /\ blocks' = ~blocks
    /\ UNCHANGED <<report, vers, shares, grants, call, ctr, hist>>

\* Publish reads the report and its blocks and renders them; a block that fails ends it.
Publish(c) ==
    /\ report
    /\ Begin(c, [Idle EXCEPT !.pc = "ordinal"])
    /\ UNCHANGED <<tables, hist>>

\* NextOrdinal: one more than the largest, which is 0 without versions.
NextOrdinal(c) ==
    /\ At(c, "ordinal")
    /\ \E n \in Ordinals \cup {0} :
          /\ \A m \in Ordinals : m <= n
          /\ n < MaxVersion
          /\ call' = [call EXCEPT ![c].pc = "insert", ![c].ordinal = n + 1]
    /\ UNCHANGED <<tables, ctr, hist>>

\* [mutant] no unique index on (report_id, ordinal).
InsertAnyOrdinal(c) ==
    /\ At(c, "insert") /\ ctr.ver < MaxVersion
    /\ IF report
       THEN /\ vers' = Put(vers, ctr.ver + 1, [ordinal |-> call[c].ordinal, pdf |-> 0])
            /\ ctr' = [ctr EXCEPT !.ver = @ + 1]
       ELSE UNCHANGED <<vers, ctr>>
    /\ Return(c)
    /\ UNCHANGED <<report, blocks, shares, grants, hist>>

\* Versions.Insert: refused when the ordinal is taken or the report is gone.
Insert(c) ==
    /\ At(c, "insert") /\ ctr.ver < MaxVersion
    /\ IF report /\ call[c].ordinal \notin Ordinals
       THEN /\ vers' = Put(vers, ctr.ver + 1, [ordinal |-> call[c].ordinal, pdf |-> 0])
            /\ ctr' = [ctr EXCEPT !.ver = @ + 1]
       ELSE UNCHANGED <<vers, ctr>>
    /\ Return(c)
    /\ UNCHANGED <<report, blocks, shares, grants, hist>>

\* [mutant] the hash is stored at every rendering.
RenderAgain(c, v) ==
    /\ v \in DOMAIN vers
    /\ Begin(c, [Idle EXCEPT !.pc = "pdf", !.id = v])
    /\ hist' = IF InFlight({"pdf"}, v, "none") = {} THEN hist
               ELSE [hist EXCEPT !.printed = @ \cup {v}]
    /\ UNCHANGED tables

\* GetReportVersionPdf: the version is read before the PDF is rendered; a version with a
\* hash keeps it ...
RenderPDF(c, v) ==
    /\ v \in DOMAIN vers /\ vers[v].pdf = 0
    /\ Begin(c, [Idle EXCEPT !.pc = "pdf", !.id = v])
    /\ hist' = IF InFlight({"pdf"}, v, "none") = {} THEN hist
               ELSE [hist EXCEPT !.printed = @ \cup {v}]
    /\ UNCHANGED tables

\* ... and one without gets it afterwards: the bytes of two renderings may differ.
SetPDFSHA256(c) ==
    LET v == call[c].id IN
    /\ At(c, "pdf")
    /\ IF v \in DOMAIN vers
       THEN vers' = [vers EXCEPT ![v].pdf = ctr.pdf + 1] /\ ctr' = [ctr EXCEPT !.pdf = @ + 1]
       ELSE UNCHANGED <<vers, ctr>>
    /\ Return(c)
    /\ UNCHANGED <<report, blocks, shares, grants, hist>>

-----------------------------------------------------------------------------
(* Sharing *)

\* CreateShare: the version is read, the share inserted under its foreign key.
CreateShare(c, v, m) ==
    /\ v \in DOMAIN vers
    /\ Begin(c, [Idle EXCEPT !.pc = "share", !.id = v, !.max = m])
    /\ UNCHANGED <<tables, hist>>

InsertShare(c) ==
    LET k == call[c] IN
    /\ At(c, "share") /\ ctr.share < MaxShare
    /\ IF k.id \in DOMAIN vers
       THEN /\ shares' = Put(shares, ctr.share + 1,
                              [ver |-> k.id, max |-> k.max, revoked |-> FALSE, expired |-> FALSE])
            /\ ctr' = [ctr EXCEPT !.share = @ + 1]
       ELSE UNCHANGED <<shares, ctr>>
    /\ Return(c)
    /\ UNCHANGED <<report, blocks, vers, grants, hist>>

\* expires_at passes.
Expire(s) ==
    /\ s \in DOMAIN shares /\ ~shares[s].expired
    /\ shares' = [shares EXCEPT ![s].expired = TRUE]
    /\ UNCHANGED <<report, blocks, vers, grants, call, ctr, hist>>

Open(s) == s \in DOMAIN shares /\ ~shares[s].revoked /\ ~shares[s].expired
Claiming(s, u) == InFlight({"existing", "claim"}, s, u)

\* ClaimShare: an open share, its password given.
ClaimShare(c, s, u) ==
    /\ Open(s)
    /\ Begin(c, [Idle EXCEPT !.pc = "existing", !.id = s, !.user = u, !.max = shares[s].max])
    /\ hist' = IF Claiming(s, u) = {} THEN hist
               ELSE [hist EXCEPT !.twins = @ \cup {<<s, u>>}]
    /\ UNCHANGED tables

\* [mutant] nobody asks whether the share was claimed already.
AnyClaim(c) ==
    /\ At(c, "existing")
    /\ Goto(c, "claim")
    /\ UNCHANGED <<tables, ctr, hist>>

\* ByShareAndUser: "share already claimed".
Existing(c) ==
    /\ At(c, "existing")
    /\ IF Held(call[c].id, call[c].user) = {} THEN Goto(c, "claim") ELSE Return(c)
    /\ UNCHANGED <<tables, ctr, hist>>

\* [mutant] the cap is compared with one count too few.
UnderCapLoose(k) == k.max = 0 \/ Cardinality(Active(k.id)) <= k.max
UnderCap(k) == k.max = 0 \/ Cardinality(Active(k.id)) < k.max

\* ClaimInsert: the count and the insert are one transaction.
ClaimInsert(c) ==
    LET k == call[c] IN
    /\ At(c, "claim") /\ ctr.grant < MaxGrant
    /\ IF k.id \in DOMAIN shares /\ UnderCap(k)
       THEN /\ grants' = Put(grants, ctr.grant + 1,
                              [share |-> k.id, user |-> k.user, revoked |-> FALSE])
            /\ ctr' = [ctr EXCEPT !.grant = @ + 1]
       ELSE UNCHANGED <<grants, ctr>>
    /\ Return(c)
    /\ UNCHANGED <<report, blocks, vers, shares, hist>>

\* RevokeGrant, and one turn of RevokeShare's loop: requireOneRow.
Revocable(g) == g \in DOMAIN grants /\ ~grants[g].revoked
RevokeGrant(g) ==
    /\ Revocable(g)
    /\ grants' = [grants EXCEPT ![g].revoked = TRUE]
    /\ UNCHANGED <<report, blocks, vers, shares, call, ctr, hist>>

\* RevokeShare: the share is read ...
RevokeShare(c, s) ==
    /\ s \in DOMAIN shares /\ ~shares[s].revoked
    /\ Begin(c, [Idle EXCEPT !.pc = "revoke", !.id = s])
    /\ UNCHANGED <<tables, hist>>

\* ... revoked, unless somebody else did; claims that have read it are now late ...
Revoke(c) ==
    LET s == call[c].id IN
    /\ At(c, "revoke")
    /\ IF s \in DOMAIN shares /\ ~shares[s].revoked
       THEN /\ shares' = [shares EXCEPT ![s].revoked = TRUE]
            /\ hist' = [hist EXCEPT !.late = @ \cup {<<s, u>> : u \in {v \in Users : Claiming(s, v) # {}}}]
            /\ Goto(c, "list")
       ELSE Return(c) /\ UNCHANGED <<shares, hist>>
    /\ UNCHANGED <<report, blocks, vers, grants, ctr>>

\* [mutant] the grants are left to the view routes, which refuse a revoked share.
ListNothing(c) ==
    /\ At(c, "list")
    /\ Return(c)
    /\ UNCHANGED <<tables, ctr, hist>>

\* ... its grants listed ...
ListByShare(c) ==
    /\ At(c, "list")
    /\ call' = [call EXCEPT ![c].pc = "each", ![c].todo = Active(call[c].id)]
    /\ UNCHANGED <<tables, ctr, hist>>

\* ... and revoked one by one; one that somebody else revoked ends the loop, as does a
\* statement that fails (Fail).
RevokeEach(c) ==
    LET k == call[c] IN
    /\ At(c, "each")
    /\ \/ k.todo = {} /\ Return(c) /\ UNCHANGED <<grants, hist>>
       \/ \E g \in k.todo :
             /\ \A h \in k.todo : g <= h
             /\ IF Revocable(g)
                THEN /\ grants' = [grants EXCEPT ![g].revoked = TRUE]
                     /\ call' = [call EXCEPT ![c].todo = @ \ {g}]
                     /\ UNCHANGED hist
                ELSE /\ Return(c)
                     /\ hist' = [hist EXCEPT !.halted = @ \cup {k.id}]
                     /\ UNCHANGED grants
    /\ UNCHANGED <<report, blocks, vers, shares, ctr>>

\* The next statement of a request fails, or the request is gone and its context with it:
\* what it has committed stays.  A RevokeShare that ends so leaves a revoked share with
\* grants, and the next RevokeShare finds no share to revoke.
Fail(c) ==
    /\ ~At(c, "idle")
    /\ Return(c)
    /\ hist' = IF At(c, "list") \/ At(c, "each")
               THEN [hist EXCEPT !.halted = @ \cup {call[c].id}] ELSE hist
    /\ UNCHANGED <<tables, ctr>>

-----------------------------------------------------------------------------
(* Reports.Delete: the statements of deleteReportGraph, then the row *)

Delete(c) ==
    /\ report
    /\ Begin(c, [Idle EXCEPT !.pc = "grants"])
    /\ UNCHANGED <<tables, hist>>

DeleteGrants(c) ==
    /\ At(c, "grants")
    /\ grants' = <<>>
    /\ Goto(c, "shares")
    /\ UNCHANGED <<report, blocks, vers, shares, ctr, hist>>

\* Refused when a claim put a grant under a share in between; so with its versions.
DeleteShares(c) ==
    /\ At(c, "shares")
    /\ IF DOMAIN grants = {} THEN shares' = <<>> /\ Goto(c, "versions")
       ELSE UNCHANGED shares /\ Return(c)
    /\ UNCHANGED <<report, blocks, vers, grants, ctr, hist>>

DeleteVersions(c) ==
    /\ At(c, "versions")
    /\ IF DOMAIN shares = {}
       THEN /\ vers' = <<>> /\ Goto(c, "blocks")
            /\ hist' = [hist EXCEPT !.dropped = TRUE]
       ELSE Return(c) /\ UNCHANGED <<vers, hist>>
    /\ UNCHANGED <<report, blocks, shares, grants, ctr>>

DeleteBlocks(c) ==
    /\ At(c, "blocks")
    /\ blocks' = FALSE
    /\ Goto(c, "row")
    /\ UNCHANGED <<report, vers, shares, grants, ctr, hist>>

\* Refused when a version or a block was written in between, not found when it is gone.
DeleteRow(c) ==
    /\ At(c, "row")
    /\ report' = (report /\ (blocks \/ DOMAIN vers # {}))
    /\ Return(c)
    /\ UNCHANGED <<blocks, vers, shares, grants, ctr, hist>>

-----------------------------------------------------------------------------
Next ==
    \/ ReplaceBlocks
    \/ \E c \in Calls :
          \/ Publish(c) \/ NextOrdinal(c) \/ Insert(c)
          \/ \E v \in DOMAIN vers : RenderPDF(c, v) \/ \E m \in {0, Cap} : CreateShare(c, v, m)
          \/ SetPDFSHA256(c) \/ InsertShare(c)
          \/ \E s \in DOMAIN shares : RevokeShare(c, s) \/ \E u \in Users : ClaimShare(c, s, u)
          \/ Existing(c) \/ ClaimInsert(c) \/ Revoke(c) \/ ListByShare(c) \/ RevokeEach(c)
          \/ Delete(c) \/ DeleteGrants(c) \/ DeleteShares(c) \/ DeleteVersions(c)
          \/ DeleteBlocks(c) \/ DeleteRow(c)
          \/ Fail(c)
    \/ \E s \in DOMAIN shares : Expire(s)
    \/ \E g \in DOMAIN grants : RevokeGrant(g)

Spec == Init /\ [][Next]_vars

-----------------------------------------------------------------------------
(***************************************************************************)
(* Properties                                                              *)
(***************************************************************************)

\* A capped share never has more unrevoked grants than its cap, however many claims run at
\* once: ClaimInsert counts in the transaction that inserts.
CapHolds ==
    \A s \in DOMAIN shares : shares[s].max # 0 => Cardinality(Active(s)) <= shares[s].max

\* One person holds two grants of a share, so that revoking one leaves them the other, only
\* if two of their own claims overlapped: ClaimShare asks for an existing grant outside the
\* transaction that inserts.
TwoGrantsOnlyByOverlap ==
    \A s \in DOMAIN shares, u \in Users :
        <<s, u>> \in hist.twins \/ Cardinality(Held(s, u)) <= 1

\* Once RevokeShare is through, a revoked share has no unrevoked grant but those of claims
\* that had read it before it was revoked, unless the loop ended early: a failed statement, a
\* gone request or a grant that somebody else revoked.
RevokedShareKeepsLateGrantsOnly ==
    \A s \in DOMAIN shares \ hist.halted :
        shares[s].revoked /\ InFlight({"list", "each"}, s, "none") = {} =>
            \A g \in Active(s) : <<s, grants[g].user>> \in hist.late

\* "dense, 1-based, and unique per report" (0020_report_versions.sql), however many publish
\* at once, until a delete of the report has taken versions away under a publish.
OrdinalsDense == hist.dropped \/ Ordinals = 1..Cardinality(DOMAIN vers)

\* The PDF hash of a version changes only when two first renderings of it overlapped:
\* GetReportVersionPdf asks for the hash before it renders.
PDFHashKept ==
    [][\A v \in DOMAIN vers \cap DOMAIN vers' :
          vers[v].pdf # 0 /\ vers'[v].pdf # vers[v].pdf => v \in hist.printed]_vars

\* "Revokes the share and every grant under it" (openapi.yaml): when no RevokeShare of a
\* revoked share is under way, it has no unrevoked grant.  Refuted: the loop may end early,
\* and a second call answers 404 (README, Known divergences).
RevokedShareKeepsNoGrant ==
    \A s \in DOMAIN shares :
        shares[s].revoked /\ InFlight({"list", "each"}, s, "none") = {} => Active(s) = {}

\* "pdf_sha256 is set once on first PDF generation" (0020_report_versions.sql:11).  Refuted:
\* two first renderings both find no hash (README, Known divergences).
PDFHashSetOnce ==
    [][\A v \in DOMAIN vers \cap DOMAIN vers' :
          vers[v].pdf # 0 => vers'[v].pdf = vers[v].pdf]_vars
=============================================================================
