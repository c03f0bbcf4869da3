--------------------------- MODULE ReportShareProofs ---------------------------
(***************************************************************************)
(* Proofs about ReportShare, for any number of people, requests, versions, *)
(* shares and grants and any cap.  The tables of versions and of shares    *)
(* and grants do not depend on each other, so the inductive invariant has  *)
(* two halves beside the types: VInv for publishing and printing, SInv for *)
(* sharing and claiming.                                                   *)
(***************************************************************************)
EXTENDS ReportShare, FiniteSetTheorems, TLAPS

-----------------------------------------------------------------------------
(* Publishing and printing *)

\* Until versions are dropped, identifiers and ordinals are the same interval.
VersOK ==
    /\ DOMAIN vers \subseteq 1..ctr.ver
    /\ hist.dropped \/ (DOMAIN vers = 1..ctr.ver /\ Ordinals = 1..ctr.ver)

\* A publish holds an ordinal that is taken or the next one; a rendering that met no other
\* finds its version still without a hash.
VCall(k) ==
    /\ k.pc = "insert" => k.ordinal \in 1..MaxVersion /\ (hist.dropped \/ k.ordinal <= ctr.ver + 1)
    /\ k.pc = "pdf" => /\ k.user = "none" /\ k.id \in 1..ctr.ver
                       /\ k.id \in hist.printed \/ (k.id \in DOMAIN vers => vers[k.id].pdf = 0)

VPair(k, m) == k.pc = "pdf" /\ m.pc = "pdf" /\ k.id = m.id => k.id \in hist.printed

VInv ==
    /\ VersOK
    /\ \A c \in Calls : VCall(call[c])
    /\ \A c, d \in Calls : c # d => VPair(call[c], call[d])

-----------------------------------------------------------------------------
(* Sharing and claiming *)

\* Identifiers are never used again.
ShareIds ==
    /\ DOMAIN shares \subseteq 1..ctr.share
    /\ DOMAIN grants \subseteq 1..ctr.grant
    /\ \A g \in DOMAIN grants : grants[g].share \in 1..ctr.share

Claims == {"existing", "claim"}
Revokes == {"revoke", "list", "each"}

\* A claim knows the cap of its share; it is late if the share was revoked meanwhile, and past
\* the question for an existing grant there is none, unless the same person claims twice.
SCall(k) ==
    /\ k.pc \in Claims =>
          /\ k.id \in 1..ctr.share /\ k.user \in Users
          /\ k.id \in DOMAIN shares => /\ k.max = shares[k.id].max
                                       /\ shares[k.id].revoked => <<k.id, k.user>> \in hist.late
    /\ k.pc = "claim" => <<k.id, k.user>> \in hist.twins \/ Held(k.id, k.user) = {}
    /\ k.pc \in Revokes => k.user = "none"

SPair(k, m) ==
    k.pc \in Claims /\ m.pc \in Claims /\ k.id = m.id /\ k.user = m.user => <<k.id, k.user>> \in hist.twins

\* A revocation under way will come to grant g of share s.
Reaches(k, s, g) == k.id = s /\ (k.pc = "list" \/ (k.pc = "each" /\ g \in k.todo))

RevokedOK ==
    \A s \in DOMAIN shares \ hist.halted : shares[s].revoked =>
        \A g \in Active(s) : <<s, grants[g].user>> \in hist.late \/ \E c \in Calls : Reaches(call[c], s, g)

SInv ==
    /\ ShareIds /\ CapHolds /\ TwoGrantsOnlyByOverlap /\ RevokedOK
    /\ \A c \in Calls : SCall(call[c])
    /\ \A c, d \in Calls : c # d => SPair(call[c], call[d])

IInv == TypeOK /\ VInv /\ SInv

-----------------------------------------------------------------------------
(* Tables and requests *)

LEMMA EmptyTable ==
    ASSUME NEW n \in Nat, NEW S
    PROVE  IsTable(<<>>, n, S) /\ DOMAIN <<>> = {}
BY DEF IsTable

LEMMA PutType ==
    ASSUME NEW n, NEW S, NEW f, IsTable(f, n, S), NEW k \in 1..n, NEW v \in S
    PROVE  /\ IsTable(Put(f, k, v), n, S)
           /\ DOMAIN Put(f, k, v) = DOMAIN f \cup {k}
           /\ Put(f, k, v)[k] = v
           /\ \A x \in DOMAIN f \ {k} : Put(f, k, v)[x] = f[x]
<1>1. Put(f, k, v) \in [DOMAIN f \cup {k} -> S]
  BY DEF Put, IsTable
<1> QED
  BY <1>1 DEF Put, IsTable

LEMMA EditType ==
    ASSUME NEW n, NEW S, NEW f, IsTable(f, n, S), NEW k \in DOMAIN f, NEW v \in S
    PROVE  /\ IsTable([f EXCEPT ![k] = v], n, S)
           /\ DOMAIN [f EXCEPT ![k] = v] = DOMAIN f
BY DEF IsTable

LEMMA IdleType ==
    /\ Idle \in CallStates /\ Idle.pc = "idle" /\ Idle.id = 0 /\ Idle.user = "none"
    /\ Idle.todo = {} /\ Idle.max = 0 /\ Idle.ordinal = 0
BY ReportShareAssumption DEF Idle, CallStates

\* Requests that neither publish nor print do not matter to the versions.
LEMMA VQuiet ==
    ASSUME TypeOK, VInv, vers' = vers, ctr'.ver = ctr.ver, hist'.dropped = hist.dropped,
           hist.printed \subseteq hist'.printed, call' \in [Calls -> CallStates],
           \A d \in Calls : call'[d] = call[d] \/ VCall(call[d])',
           \A d, e \in Calls : d # e =>
               (call'[d] = call[d] /\ call'[e] = call[e]) \/ VPair(call[d], call[e])'
    PROVE  VInv'
<1>1. VersOK'
  BY DEF VInv, VersOK, Ordinals
<1>2. \A d \in Calls : VCall(call[d])'
  BY DEF VInv, VCall
<1>3. \A d, e \in Calls : d # e => VPair(call[d], call[e])'
  BY DEF VInv, VPair
<1> QED
  BY <1>1, <1>2, <1>3 DEF VInv

LEMMA VSkip ==
    ASSUME TypeOK, VInv, vers' = vers, ctr'.ver = ctr.ver, hist'.dropped = hist.dropped,
           hist'.printed = hist.printed, NEW c \in Calls, NEW n \in CallStates,
           call' = [call EXCEPT ![c] = n], n.pc \notin {"insert", "pdf"}
    PROVE  VInv'
<1>1. call' \in [Calls -> CallStates] /\ \A d \in Calls : call'[d] = IF d = c THEN n ELSE call[d]
  BY DEF TypeOK
<1>2. \A d \in Calls : call'[d] = call[d] \/ VCall(call[d])'
  BY <1>1 DEF VCall
<1>3. \A d, e \in Calls : d # e =>
         (call'[d] = call[d] /\ call'[e] = call[e]) \/ VPair(call[d], call[e])'
  BY <1>1 DEF VPair
<1> QED
  BY <1>1, <1>2, <1>3, VQuiet

LEMMA GrantSets ==
    ASSUME TypeOK
    PROVE  \A s : /\ IsFiniteSet(Active(s)) /\ Cardinality(Active(s)) \in Nat
                  /\ \A u : /\ IsFiniteSet(Held(s, u)) /\ Cardinality(Held(s, u)) \in Nat
                            /\ Held(s, u) \subseteq Active(s)
<1>1. DOMAIN grants \subseteq 1..MaxGrant
  BY DEF TypeOK, IsTable
<1>2. IsFiniteSet(DOMAIN grants)
  <2>1. 1 \in Int /\ MaxGrant \in Int
    BY ReportShareAssumption
  <2>2. IsFiniteSet(1..MaxGrant)
    BY <2>1, FS_Interval
  <2> QED
    BY <1>1, <2>2, FS_Subset
<1> SUFFICES ASSUME NEW s, NEW u
             PROVE  /\ IsFiniteSet(Active(s)) /\ Cardinality(Active(s)) \in Nat
                    /\ IsFiniteSet(Held(s, u)) /\ Cardinality(Held(s, u)) \in Nat
                    /\ Held(s, u) \subseteq Active(s)
  OBVIOUS
<1>3. Active(s) \subseteq DOMAIN grants /\ Held(s, u) \subseteq Active(s)
  BY DEF Active, Held
<1>4. IsFiniteSet(Active(s)) /\ IsFiniteSet(Held(s, u))
  BY <1>2, <1>3, FS_Subset
<1> QED
  BY <1>3, <1>4, FS_CardinalityType

\* Steps that add no share and no grant, give no grant back and end no revocation early.
LEMMA SQuiet ==
    ASSUME TypeOK, SInv,
           \A s \in DOMAIN shares' : /\ s \in DOMAIN shares /\ shares'[s].max = shares[s].max
                                     /\ shares'[s].revoked = shares[s].revoked,
           \A g \in DOMAIN grants' : /\ g \in DOMAIN grants /\ grants'[g].share = grants[g].share
                                     /\ grants'[g].user = grants[g].user
                                     /\ grants[g].revoked => grants'[g].revoked,
           ctr'.share = ctr.share, ctr'.grant = ctr.grant, hist'.late = hist.late,
           hist.twins \subseteq hist'.twins, hist.halted \subseteq hist'.halted,
           call' \in [Calls -> CallStates],
           \A d \in Calls : call'[d] = call[d] \/ SCall(call[d])',
           \A d, e \in Calls : d # e =>
               (call'[d] = call[d] /\ call'[e] = call[e]) \/ SPair(call[d], call[e])',
           \A d \in Calls : \A s \in DOMAIN shares' \ hist'.halted : \A g \in Active(s)' :
               Reaches(call[d], s, g) => Reaches(call'[d], s, g)
    PROVE  SInv'
<1>1. \A s : Active(s)' \subseteq Active(s) /\ \A u : Held(s, u)' \subseteq Held(s, u)
  BY DEF Active, Held
<1>2. ShareIds'
  BY DEF SInv, ShareIds
<1>3. CapHolds'
  <2> SUFFICES ASSUME NEW s \in DOMAIN shares', shares'[s].max # 0
               PROVE  Cardinality(Active(s)') <= shares'[s].max
    BY DEF CapHolds
  <2>1. Cardinality(Active(s)') <= Cardinality(Active(s)) /\ Cardinality(Active(s)') \in Nat
    BY <1>1, GrantSets, FS_Subset, FS_CardinalityType
  <2>2. Cardinality(Active(s)) <= shares[s].max /\ shares[s].max \in Nat
    BY ReportShareAssumption DEF SInv, CapHolds, TypeOK, IsTable, Shares
  <2> QED
    BY <2>1, <2>2, GrantSets
<1>4. TwoGrantsOnlyByOverlap'
  <2> SUFFICES ASSUME NEW s \in DOMAIN shares', NEW u \in Users, <<s, u>> \notin hist'.twins
               PROVE  Cardinality(Held(s, u)') <= 1
    BY DEF TwoGrantsOnlyByOverlap
  <2>1. Cardinality(Held(s, u)') <= Cardinality(Held(s, u)) /\ Cardinality(Held(s, u)') \in Nat
    BY <1>1, GrantSets, FS_Subset, FS_CardinalityType
  <2>2. Cardinality(Held(s, u)) <= 1
    BY DEF SInv, TwoGrantsOnlyByOverlap
  <2>3. Cardinality(Held(s, u)) \in Nat
    BY GrantSets
  <2> QED
    BY <2>1, <2>2, <2>3
<1>5. RevokedOK'
  <2> SUFFICES ASSUME NEW s \in DOMAIN shares' \ hist'.halted, shares'[s].revoked, NEW g \in Active(s)'
               PROVE  <<s, grants'[g].user>> \in hist'.late \/ \E c \in Calls : Reaches(call'[c], s, g)
    BY DEF RevokedOK, Reaches
  <2>1. g \in Active(s) /\ grants'[g].user = grants[g].user
    BY <1>1 DEF Active
  <2>2. <<s, grants[g].user>> \in hist.late \/ \E c \in Calls : Reaches(call[c], s, g)
    BY <2>1 DEF SInv, RevokedOK
  <2> QED
    BY <2>1, <2>2
<1>6. \A d \in Calls : SCall(call[d])'
  <2> SUFFICES ASSUME NEW d \in Calls, call'[d] = call[d] PROVE SCall(call[d])'
    OBVIOUS
  <2>1. SCall(call[d])
    BY DEF SInv
  <2>2. Held(call[d].id, call[d].user)' \subseteq Held(call[d].id, call[d].user)
    BY DEF Held, Active
  <2> QED
    BY <2>1, <2>2 DEF SCall
<1>7. \A d, e \in Calls : d # e => SPair(call[d], call[e])'
  BY DEF SInv, SPair
<1> QED
  BY <1>2, <1>3, <1>4, <1>5, <1>6, <1>7 DEF SInv

LEMMA SSkip ==
    ASSUME TypeOK, SInv, UNCHANGED <<shares, grants>>, ctr'.share = ctr.share, ctr'.grant = ctr.grant,
           hist'.late = hist.late, hist'.twins = hist.twins, hist'.halted = hist.halted,
           NEW c \in Calls, NEW n \in CallStates, call' = [call EXCEPT ![c] = n],
           call[c].pc \notin {"list", "each"}, n.pc \notin Claims,
           n.pc \in Revokes => n.user = "none"
    PROVE  SInv'
<1>1. call' \in [Calls -> CallStates] /\ \A d \in Calls : call'[d] = IF d = c THEN n ELSE call[d]
  BY DEF TypeOK
<1>2. \A d \in Calls : call'[d] = call[d] \/ SCall(call[d])'
  BY <1>1 DEF SCall, Claims
<1>3. \A d, e \in Calls : d # e =>
         (call'[d] = call[d] /\ call'[e] = call[e]) \/ SPair(call[d], call[e])'
  BY <1>1 DEF SPair
<1>4. \A d \in Calls : \A s \in DOMAIN shares' \ hist'.halted : \A g \in Active(s)' :
         Reaches(call[d], s, g) => Reaches(call'[d], s, g)
  BY <1>1 DEF Reaches
<1> QED
  BY <1>1, <1>2, <1>3, <1>4, SQuiet

LEMMA Moved ==
    ASSUME TypeOK, NEW c \in Calls, NEW n \in CallStates, call' = [call EXCEPT ![c] = n]
    PROVE  /\ call' \in [Calls -> CallStates] /\ call'[c] = n
           /\ \A d \in Calls : call'[d] = IF d = c THEN n ELSE call[d]
BY DEF TypeOK

\* A request that goes from one statement to the next, or returns.
LEMMA GotoType ==
    ASSUME TypeOK, NEW c \in Calls, NEW l \in {"claim", "list", "shares", "versions", "blocks", "row"},
           Goto(c, l)
    PROVE  \E n \in CallStates :
              /\ call' = [call EXCEPT ![c] = n] /\ n.pc = l
              /\ n.id = call[c].id /\ n.user = call[c].user /\ n.max = call[c].max
<1> DEFINE n == [call[c] EXCEPT !.pc = l]
<1>1. call[c] \in CallStates
  BY DEF TypeOK
<1>2. /\ n \in CallStates /\ n.pc = l
      /\ n.id = call[c].id /\ n.user = call[c].user /\ n.max = call[c].max
  BY <1>1 DEF CallStates
<1>3. call' = [call EXCEPT ![c] = n]
  BY DEF Goto
<1> QED
  BY <1>2, <1>3

LEMMA BeginType ==
    ASSUME TypeOK, NEW c \in Calls, NEW n \in CallStates, Begin(c, n)
    PROVE  /\ call' = [call EXCEPT ![c] = n] /\ call[c].pc = "idle"
           /\ ctr' \in [ver : 0..MaxVersion, share : 0..MaxShare, grant : 0..MaxGrant,
                        call : 0..MaxCall, pdf : Nat]
           /\ ctr'.ver = ctr.ver /\ ctr'.share = ctr.share /\ ctr'.grant = ctr.grant
BY ReportShareAssumption DEF TypeOK, Begin, At

\* A request that begins, and neither publishes, prints, claims nor counts for the history.
LEMMA PlainBegin ==
    ASSUME IInv, NEW c \in Calls, NEW n \in CallStates, Begin(c, n), UNCHANGED <<tables, hist>>,
           n.pc \notin Claims \cup {"insert", "pdf"}, n.user = "none"
    PROVE  IInv'
<1>1. /\ call' = [call EXCEPT ![c] = n] /\ call[c].pc = "idle"
      /\ ctr' \in [ver : 0..MaxVersion, share : 0..MaxShare, grant : 0..MaxGrant,
                   call : 0..MaxCall, pdf : Nat]
      /\ ctr'.ver = ctr.ver /\ ctr'.share = ctr.share /\ ctr'.grant = ctr.grant
  BY BeginType DEF IInv
<1>2. TypeOK'
  BY <1>1, Moved DEF IInv, TypeOK, tables
<1>3. VInv'
  BY <1>1, VSkip DEF IInv, tables
<1>4. SInv'
  BY <1>1, SSkip DEF IInv, tables
<1> QED
  BY <1>2, <1>3, <1>4 DEF IInv

LEMMA ReadingInv ==
    ASSUME IInv, NEW c \in Calls,
           \/ Publish(c) \/ Delete(c)
           \/ \E v \in DOMAIN vers, m \in {0, Cap} : CreateShare(c, v, m)
           \/ \E s \in DOMAIN shares : RevokeShare(c, s)
    PROVE  IInv'
<1>1. CASE Publish(c)
  <2> DEFINE n == [Idle EXCEPT !.pc = "ordinal"]
  <2>1. n \in CallStates /\ n.pc = "ordinal" /\ n.user = "none"
    BY IdleType DEF CallStates
  <2> QED
    BY <1>1, <2>1, PlainBegin DEF Publish, Claims
<1>2. CASE Delete(c)
  <2> DEFINE n == [Idle EXCEPT !.pc = "grants"]
  <2>1. n \in CallStates /\ n.pc = "grants" /\ n.user = "none"
    BY IdleType DEF CallStates
  <2> QED
    BY <1>2, <2>1, PlainBegin DEF Delete, Claims
<1>3. ASSUME NEW v \in DOMAIN vers, NEW m \in {0, Cap}, CreateShare(c, v, m) PROVE IInv'
  <2> DEFINE n == [Idle EXCEPT !.pc = "share", !.id = v, !.max = m]
  <2>1. v \in Nat
    BY ReportShareAssumption DEF IInv, TypeOK, IsTable
  <2>2. n \in CallStates /\ n.pc = "share" /\ n.user = "none"
    BY <2>1, IdleType DEF CallStates
  <2> QED
    BY <1>3, <2>2, PlainBegin DEF CreateShare, Claims
<1>4. ASSUME NEW s \in DOMAIN shares, RevokeShare(c, s) PROVE IInv'
  <2> DEFINE n == [Idle EXCEPT !.pc = "revoke", !.id = s]
  <2>1. s \in Nat
    BY ReportShareAssumption DEF IInv, TypeOK, IsTable
  <2>2. n \in CallStates /\ n.pc = "revoke" /\ n.user = "none"
    BY <2>1, IdleType DEF CallStates
  <2> QED
    BY <1>4, <2>2, PlainBegin DEF RevokeShare, Claims
<1> QED
  BY <1>1, <1>2, <1>3, <1>4

-----------------------------------------------------------------------------
(* Steps on the versions *)

LEMMA NextOrdinalInv ==
    ASSUME IInv, NEW c \in Calls, NextOrdinal(c)
    PROVE  IInv'
<1>1. PICK m \in Ordinals \cup {0} :
         /\ m < MaxVersion /\ call' = [call EXCEPT ![c].pc = "insert", ![c].ordinal = m + 1]
  BY DEF NextOrdinal
<1>2. call[c] \in CallStates /\ call[c].pc = "ordinal"
  BY DEF IInv, TypeOK, NextOrdinal, At
<1>3. m \in 0..MaxVersion
  BY ReportShareAssumption DEF IInv, TypeOK, IsTable, Versions, Ordinals
<1> DEFINE r == [call[c] EXCEPT !.pc = "insert", !.ordinal = m + 1]
<1>4. /\ r \in CallStates /\ r.pc = "insert" /\ r.ordinal = m + 1
      /\ call' = [call EXCEPT ![c] = r]
  <2>1. m + 1 \in 0..MaxVersion
    BY ReportShareAssumption, <1>1, <1>3
  <2>2. r \in CallStates /\ r.pc = "insert" /\ r.ordinal = m + 1
    BY <1>2, <2>1 DEF CallStates
  <2>3. call' = [call EXCEPT ![c] = r]
    BY <1>1
  <2> QED
    BY <2>2, <2>3
<1>5. PICK n \in CallStates : n.pc = "insert" /\ n.ordinal = m + 1 /\ call' = [call EXCEPT ![c] = n]
  BY <1>4
<1>6. UNCHANGED <<tables, ctr, hist>>
  BY DEF NextOrdinal
<1>7. TypeOK'
  BY <1>5, <1>6, Moved DEF IInv, TypeOK, tables
<1>8. n.ordinal \in 1..MaxVersion /\ (hist.dropped \/ n.ordinal <= ctr.ver + 1)
  BY ReportShareAssumption, <1>1, <1>3, <1>5 DEF IInv, VInv, VersOK, TypeOK
<1>9. VInv'
  <2>1. call' \in [Calls -> CallStates] /\ \A d \in Calls : call'[d] = IF d = c THEN n ELSE call[d]
    BY <1>5, Moved DEF IInv
  <2>2. \A d \in Calls : call'[d] = call[d] \/ VCall(call[d])'
    BY <1>5, <1>6, <1>8, <2>1 DEF VCall
  <2>3. \A d, e \in Calls : d # e =>
           (call'[d] = call[d] /\ call'[e] = call[e]) \/ VPair(call[d], call[e])'
    BY <1>5, <2>1 DEF VPair
  <2> QED
    BY <1>6, <2>1, <2>2, <2>3, VQuiet DEF IInv, tables
<1>10. SInv'
  BY <1>2, <1>5, <1>6, SSkip DEF IInv, tables, Claims, Revokes
<1> QED
  BY <1>7, <1>9, <1>10 DEF IInv

\* The requests after one of them returned from a step on the versions.
LEMMA VReturn ==
    ASSUME TypeOK, NEW c \in Calls, Return(c), VersOK',
           \A d \in Calls \ {c} : VCall(call[d]) /\ call'[d] = call[d] => VCall(call[d])',
           VInv, hist'.printed = hist.printed
    PROVE  VInv'
<1>1. \A d \in Calls : call'[d] = IF d = c THEN Idle ELSE call[d]
  BY IdleType, Moved DEF Return
<1>2. \A d \in Calls : VCall(call[d])'
  BY <1>1, IdleType DEF VInv, VCall
<1>3. \A d, e \in Calls : d # e => VPair(call[d], call[e])'
  BY <1>1, IdleType DEF VInv, VPair
<1> QED
  BY <1>2, <1>3 DEF VInv

\* The unique index leaves one ordinal: the next one.
LEMMA InsertInv ==
    ASSUME IInv, NEW c \in Calls, Insert(c)
    PROVE  IInv'
<1> DEFINE k == call[c]
           o == call[c].ordinal
<1>1. k \in CallStates /\ k.pc = "insert" /\ VCall(k) /\ o \in 1..MaxVersion /\ ctr.ver \in Nat
  BY DEF IInv, VInv, TypeOK, Insert, At, VCall
<1>2. Return(c) /\ call' = [call EXCEPT ![c] = Idle] /\ UNCHANGED <<report, blocks, shares, grants, hist>>
  BY DEF Insert, Return
<1>3. CASE ~(report /\ o \notin Ordinals)
  <2>1. UNCHANGED <<vers, ctr>>
    BY <1>3 DEF Insert
  <2>2. TypeOK'
    BY <1>2, <2>1, IdleType, Moved DEF IInv, TypeOK
  <2> QED
    BY <1>1, <1>2, <2>1, <2>2, IdleType, VSkip, SSkip DEF IInv, Claims, Revokes
<1>4. CASE report /\ o \notin Ordinals
  <2> DEFINE v == ctr.ver + 1
             r == [ordinal |-> o, pdf |-> 0]
  <2>1. /\ vers' = Put(vers, v, r) /\ ctr' = [ctr EXCEPT !.ver = v]
        /\ v \in 1..MaxVersion
    BY ReportShareAssumption, <1>1, <1>4 DEF Insert, IInv, TypeOK
  <2>2. r \in Versions
    BY <1>1 DEF Versions
  <2>3. /\ IsTable(vers', MaxVersion, Versions) /\ DOMAIN vers' = DOMAIN vers \cup {v}
        /\ vers'[v] = r /\ \A x \in DOMAIN vers \ {v} : vers'[x] = vers[x]
    <3>1. MaxVersion \in Nat /\ IsTable(vers, MaxVersion, Versions)
      BY ReportShareAssumption DEF IInv, TypeOK
    <3> HIDE DEF v, r
    <3> QED
      BY <2>1, <2>2, <3>1, PutType
  <2>4. /\ ctr' \in [ver : 0..MaxVersion, share : 0..MaxShare, grant : 0..MaxGrant,
                     call : 0..MaxCall, pdf : Nat]
        /\ ctr'.ver = v /\ ctr'.share = ctr.share /\ ctr'.grant = ctr.grant
    BY <2>1 DEF IInv, TypeOK
  <2>5. TypeOK'
    BY <1>2, <2>3, <2>4, IdleType, Moved DEF IInv, TypeOK
  <2>6. v \notin DOMAIN vers
    BY <1>1 DEF IInv, VInv, VersOK
  <2> HIDE DEF v
  <2>7. Ordinals' = Ordinals \cup {o}
    <3>1. vers'[v].ordinal = o
      BY <2>3
    <3> QED
      BY <2>3, <2>6, <3>1 DEF Ordinals
  <2>8. VersOK'
    <3>1. DOMAIN vers' \subseteq 1..v
      BY <1>1, <2>3 DEF IInv, VInv, VersOK, v
    <3>2. CASE ~hist.dropped
      <4>1. DOMAIN vers = 1..ctr.ver /\ Ordinals = 1..ctr.ver /\ o <= ctr.ver + 1
        BY <1>1, <3>2 DEF IInv, VInv, VersOK, VCall
      <4>2. o = v
        BY <1>1, <1>4, <4>1 DEF v
      <4>3. 1..v = 1..ctr.ver \cup {v}
        BY <1>1 DEF v
      <4> QED
        BY <2>3, <2>4, <2>7, <4>1, <4>2, <4>3 DEF VersOK
    <3> QED
      BY <1>2, <2>4, <3>1, <3>2 DEF VersOK
  <2>9. ASSUME NEW d \in Calls \ {c}, VCall(call[d]), call'[d] = call[d] PROVE VCall(call[d])'
    <3>1. call[d] \in CallStates
      BY DEF IInv, TypeOK
    <3>2. ctr.ver <= ctr'.ver /\ ctr'.ver \in Nat
      BY <1>1, <2>4 DEF v
    <3>3. call[d].id \in DOMAIN vers' /\ call[d].id \in 1..ctr.ver =>
             call[d].id \in DOMAIN vers /\ vers'[call[d].id] = vers[call[d].id]
      BY <1>1, <2>3 DEF v
    <3>4. call[d].pc = "insert" => VCall(call[d])'
      BY <1>1, <1>2, <2>9, <3>1, <3>2 DEF VCall, CallStates
    <3>5. call[d].pc # "insert" => VCall(call[d])'
      BY <1>1, <1>2, <2>9, <3>2, <3>3 DEF VCall
    <3> QED
      BY <3>4, <3>5
  <2>10. VInv'
    BY <1>2, <2>8, <2>9, VReturn DEF IInv
  <2>11. SInv'
    BY <1>1, <1>2, <2>4, IdleType, SSkip DEF IInv, Claims, Revokes
  <2> QED
    BY <2>5, <2>10, <2>11 DEF IInv
<1> QED
  BY <1>3, <1>4

\* A rendering that meets another marks the version; one alone finds it without a hash.
LEMMA RenderInv ==
    ASSUME IInv, NEW c \in Calls, NEW v \in DOMAIN vers, RenderPDF(c, v)
    PROVE  IInv'
<1>1. v \in 1..ctr.ver /\ v \in Nat /\ ctr.ver \in Nat /\ vers[v].pdf = 0
  BY DEF IInv, VInv, VersOK, TypeOK, RenderPDF
<1>2. PICK n \in CallStates : n.pc = "pdf" /\ n.id = v /\ n.user = "none" /\ Begin(c, n)
  <2> DEFINE r == [Idle EXCEPT !.pc = "pdf", !.id = v]
  <2>1. r \in CallStates /\ r.pc = "pdf" /\ r.id = v /\ r.user = "none"
    BY <1>1, IdleType DEF CallStates
  <2>2. Begin(c, r)
    BY DEF RenderPDF
  <2> QED
    BY <2>1, <2>2
<1>3. /\ call' = [call EXCEPT ![c] = n] /\ call[c].pc = "idle"
      /\ ctr' \in [ver : 0..MaxVersion, share : 0..MaxShare, grant : 0..MaxGrant,
                   call : 0..MaxCall, pdf : Nat]
      /\ ctr'.ver = ctr.ver /\ ctr'.share = ctr.share /\ ctr'.grant = ctr.grant
  BY <1>2, BeginType DEF IInv
<1>4. UNCHANGED tables
  BY DEF RenderPDF
<1>5. /\ hist' \in [dropped : BOOLEAN, late : SUBSET (Nat \X Users), twins : SUBSET (Nat \X Users),
                    halted : SUBSET Nat, printed : SUBSET Nat]
      /\ hist'.dropped = hist.dropped /\ hist'.late = hist.late /\ hist'.twins = hist.twins
      /\ hist'.halted = hist.halted /\ hist.printed \subseteq hist'.printed
      /\ InFlight({"pdf"}, v, "none") # {} => v \in hist'.printed
  BY <1>1 DEF RenderPDF, IInv, TypeOK
<1>6. TypeOK'
  BY <1>2, <1>3, <1>4, <1>5, Moved DEF IInv, TypeOK, tables
<1>7. VInv'
  <2>1. call' \in [Calls -> CallStates] /\ \A d \in Calls : call'[d] = IF d = c THEN n ELSE call[d]
    BY <1>3, Moved DEF IInv
  <2>2. \A d \in Calls : call'[d] = call[d] \/ VCall(call[d])'
    BY <1>1, <1>2, <1>3, <1>4, <2>1 DEF VCall, tables
  <2>3. \A e \in Calls : call[e].pc = "pdf" /\ call[e].id = v => v \in hist'.printed
    BY <1>5 DEF IInv, VInv, VCall, InFlight
  <2>4. \A d, e \in Calls : d # e =>
           (call'[d] = call[d] /\ call'[e] = call[e]) \/ VPair(call[d], call[e])'
    BY <1>2, <2>1, <2>3 DEF VPair
  <2> QED
    BY <1>3, <1>4, <1>5, <2>1, <2>2, <2>4, VQuiet DEF IInv, tables
<1>8. SInv'
  BY <1>2, <1>3, <1>4, <1>5, SSkip DEF IInv, tables, Claims, Revokes
<1> QED
  BY <1>6, <1>7, <1>8 DEF IInv

LEMMA SetPDFInv ==
    ASSUME IInv, NEW c \in Calls, SetPDFSHA256(c)
    PROVE  IInv'
<1> DEFINE v == call[c].id
<1>1. call[c] \in CallStates /\ call[c].pc = "pdf" /\ VCall(call[c])
  BY DEF IInv, VInv, TypeOK, SetPDFSHA256, At
<1>2. Return(c) /\ call' = [call EXCEPT ![c] = Idle] /\ UNCHANGED <<report, blocks, shares, grants, hist>>
  BY DEF SetPDFSHA256, Return
<1>3. CASE v \notin DOMAIN vers
  <2>1. UNCHANGED <<vers, ctr>>
    BY <1>3 DEF SetPDFSHA256
  <2>2. TypeOK'
    BY <1>2, <2>1, IdleType, Moved DEF IInv, TypeOK
  <2> QED
    BY <1>1, <1>2, <2>1, <2>2, IdleType, VSkip, SSkip DEF IInv, Claims, Revokes
<1>4. CASE v \in DOMAIN vers
  <2>1. vers' = [vers EXCEPT ![v].pdf = ctr.pdf + 1] /\ ctr' = [ctr EXCEPT !.pdf = @ + 1]
    BY <1>4 DEF SetPDFSHA256
  <2>2. MaxVersion \in Nat /\ IsTable(vers, MaxVersion, Versions) /\ vers[v] \in Versions
    BY ReportShareAssumption, <1>4 DEF IInv, TypeOK, IsTable
  <2>3. PICK w \in Versions : w.ordinal = vers[v].ordinal /\ vers' = [vers EXCEPT ![v] = w]
    <3> DEFINE w == [vers[v] EXCEPT !.pdf = ctr.pdf + 1]
    <3>1. ctr.pdf + 1 \in Nat
      BY DEF IInv, TypeOK
    <3>2. w \in Versions /\ w.ordinal = vers[v].ordinal
      BY <2>2, <3>1 DEF Versions
    <3>3. vers' = [vers EXCEPT ![v] = w]
      BY <2>1
    <3> QED
      BY <3>2, <3>3
  <2>4. IsTable(vers', MaxVersion, Versions) /\ DOMAIN vers' = DOMAIN vers
    BY <1>4, <2>2, <2>3, EditType
  <2>5. /\ \A x \in DOMAIN vers : vers'[x].ordinal = vers[x].ordinal
        /\ \A x \in DOMAIN vers : x # v => vers'[x] = vers[x]
    BY <1>4, <2>2, <2>3 DEF IsTable
  <2>6. /\ ctr' \in [ver : 0..MaxVersion, share : 0..MaxShare, grant : 0..MaxGrant,
                     call : 0..MaxCall, pdf : Nat]
        /\ ctr'.ver = ctr.ver /\ ctr'.share = ctr.share /\ ctr'.grant = ctr.grant
    BY <2>1 DEF IInv, TypeOK
  <2>7. TypeOK'
    BY <1>2, <2>4, <2>6, IdleType, Moved DEF IInv, TypeOK
  <2>8. VersOK'
    <3>1. Ordinals' = Ordinals
      BY <2>4, <2>5 DEF Ordinals
    <3> QED
      BY <1>2, <2>4, <2>6, <3>1 DEF IInv, VInv, VersOK
  <2>9. ASSUME NEW d \in Calls \ {c}, VCall(call[d]), call'[d] = call[d] PROVE VCall(call[d])'
    <3>1. call[d].pc = "pdf" /\ call[d].id = v => v \in hist.printed
      BY <1>1 DEF IInv, VInv, VPair
    <3>2. call[d].pc = "insert" => VCall(call[d])'
      BY <1>2, <2>6, <2>9 DEF VCall
    <3>3. call[d].pc # "insert" => VCall(call[d])'
      BY <1>2, <2>4, <2>5, <2>6, <2>9, <3>1 DEF VCall
    <3> QED
      BY <3>2, <3>3
  <2>10. VInv'
    BY <1>2, <2>8, <2>9, VReturn DEF IInv
  <2>11. SInv'
    BY <1>1, <1>2, <2>6, IdleType, SSkip DEF IInv, Claims, Revokes
  <2> QED
    BY <2>7, <2>10, <2>11 DEF IInv
<1> QED
  BY <1>3, <1>4

\* Dropped versions end what is said of the ordinals; renderings lose their version.
LEMMA DeleteVersionsInv ==
    ASSUME IInv, NEW c \in Calls, DeleteVersions(c)
    PROVE  IInv'
<1>1. call[c] \in CallStates /\ call[c].pc = "versions"
  BY DEF IInv, TypeOK, DeleteVersions, At
<1>2. UNCHANGED <<report, blocks, shares, grants, ctr>>
  BY DEF DeleteVersions
<1>3. CASE DOMAIN shares # {}
  <2>1. UNCHANGED <<vers, hist>> /\ call' = [call EXCEPT ![c] = Idle]
    BY <1>3 DEF DeleteVersions, Return
  <2>2. TypeOK'
    BY <1>2, <2>1, IdleType, Moved DEF IInv, TypeOK
  <2> QED
    BY <1>1, <1>2, <2>1, <2>2, IdleType, VSkip, SSkip DEF IInv, Claims, Revokes
<1>4. CASE DOMAIN shares = {}
  <2>1. vers' = <<>> /\ Goto(c, "blocks") /\ hist' = [hist EXCEPT !.dropped = TRUE]
    BY <1>4 DEF DeleteVersions
  <2>2. PICK n \in CallStates : call' = [call EXCEPT ![c] = n] /\ n.pc = "blocks"
    BY <2>1, GotoType DEF IInv
  <2>3. /\ hist' \in [dropped : BOOLEAN, late : SUBSET (Nat \X Users), twins : SUBSET (Nat \X Users),
                      halted : SUBSET Nat, printed : SUBSET Nat]
        /\ hist'.dropped /\ hist'.late = hist.late /\ hist'.twins = hist.twins
        /\ hist'.halted = hist.halted /\ hist'.printed = hist.printed
    BY <2>1 DEF IInv, TypeOK
  <2>4. IsTable(vers', MaxVersion, Versions) /\ DOMAIN vers' = {}
    BY ReportShareAssumption, <2>1, EmptyTable
  <2>5. TypeOK'
    BY <1>2, <2>2, <2>3, <2>4, Moved DEF IInv, TypeOK
  <2>6. \A d \in Calls : call'[d] = IF d = c THEN n ELSE call[d]
    BY <2>2, Moved DEF IInv
  <2>7. VersOK'
    BY <2>3, <2>4 DEF VersOK
  <2>8. ASSUME NEW d \in Calls PROVE VCall(call[d])'
    <3>1. VCall(call[d])
      BY DEF IInv, VInv
    <3> QED
      BY <1>2, <2>2, <2>3, <2>4, <2>6, <3>1 DEF VCall
  <2>9. \A d, e \in Calls : d # e => VPair(call[d], call[e])'
    BY <2>2, <2>3, <2>6 DEF IInv, VInv, VPair
  <2>10. VInv'
    BY <2>7, <2>8, <2>9 DEF VInv
  <2>11. SInv'
    BY <1>1, <1>2, <2>2, <2>3, SSkip DEF IInv, Claims, Revokes
  <2> QED
    BY <2>5, <2>10, <2>11 DEF IInv
<1> QED
  BY <1>3, <1>4

-----------------------------------------------------------------------------
(* Steps that add neither a share nor a grant *)

\* A request that goes on or returns without a claim or a revocation, and writes neither
\* versions, shares nor grants.
LEMMA StepOn ==
    ASSUME IInv, NEW c \in Calls, NEW n \in CallStates, call' = [call EXCEPT ![c] = n],
           report' \in BOOLEAN, blocks' \in BOOLEAN, UNCHANGED <<vers, shares, grants, ctr, hist>>,
           call[c].pc \notin {"list", "each"}, n.pc \notin Claims \cup Revokes \cup {"insert", "pdf"}
    PROVE  IInv'
<1>1. TypeOK'
  BY Moved DEF IInv, TypeOK
<1>2. VInv'
  BY VSkip DEF IInv
<1>3. SInv'
  BY SSkip DEF IInv
<1> QED
  BY <1>1, <1>2, <1>3 DEF IInv

LEMMA DeleteBlocksInv ==
    ASSUME IInv, NEW c \in Calls, DeleteBlocks(c)
    PROVE  IInv'
<1>1. PICK n \in CallStates : call' = [call EXCEPT ![c] = n] /\ n.pc = "row"
  BY GotoType DEF IInv, DeleteBlocks
<1> QED
  BY <1>1, StepOn DEF DeleteBlocks, At, Claims, Revokes, IInv, TypeOK

LEMMA DeleteRowInv ==
    ASSUME IInv, NEW c \in Calls, DeleteRow(c)
    PROVE  IInv'
<1>1. report' \in BOOLEAN
  BY DEF DeleteRow, IInv, TypeOK
<1> QED
  BY <1>1, StepOn, IdleType DEF DeleteRow, Return, At, Claims, Revokes, IInv, TypeOK

\* One grant is revoked.
LEMMA RevokeRow ==
    ASSUME TypeOK, NEW g \in DOMAIN grants, grants' = [grants EXCEPT ![g].revoked = TRUE]
    PROVE  /\ IsTable(grants', MaxGrant, Grants) /\ DOMAIN grants' = DOMAIN grants
           /\ grants'[g].revoked
           /\ \A h \in DOMAIN grants' : /\ grants'[h].share = grants[h].share
                                        /\ grants'[h].user = grants[h].user
                                        /\ grants[h].revoked => grants'[h].revoked
<1>1. MaxGrant \in Nat /\ IsTable(grants, MaxGrant, Grants) /\ grants[g] \in Grants
  BY ReportShareAssumption DEF TypeOK, IsTable
<1>2. PICK w \in Grants : /\ w.share = grants[g].share /\ w.user = grants[g].user /\ w.revoked = TRUE
                          /\ grants' = [grants EXCEPT ![g] = w]
  <2> DEFINE w == [grants[g] EXCEPT !.revoked = TRUE]
  <2>1. w \in Grants /\ w.share = grants[g].share /\ w.user = grants[g].user /\ w.revoked = TRUE
    BY <1>1 DEF Grants
  <2>2. grants' = [grants EXCEPT ![g] = w]
    OBVIOUS
  <2> QED
    BY <2>1, <2>2
<1>3. IsTable(grants', MaxGrant, Grants) /\ DOMAIN grants' = DOMAIN grants
  BY <1>1, <1>2 DEF IsTable
<1> QED
  BY <1>1, <1>2, <1>3 DEF IsTable

\* One share is edited: revoked or expired.
LEMMA EditShare ==
    ASSUME TypeOK, NEW s \in DOMAIN shares,
           \/ shares' = [shares EXCEPT ![s].revoked = TRUE]
           \/ shares' = [shares EXCEPT ![s].expired = TRUE]
    PROVE  /\ IsTable(shares', MaxShare, Shares) /\ DOMAIN shares' = DOMAIN shares
           /\ \A t \in DOMAIN shares : /\ shares'[t].max = shares[t].max
                                       /\ t # s => shares'[t] = shares[t]
           /\ shares' = [shares EXCEPT ![s].expired = TRUE] => shares'[s].revoked = shares[s].revoked
<1>1. MaxShare \in Nat /\ IsTable(shares, MaxShare, Shares) /\ shares[s] \in Shares
  BY ReportShareAssumption DEF TypeOK, IsTable
<1>2. PICK w \in Shares : /\ w.max = shares[s].max
                          /\ shares' = [shares EXCEPT ![s] = w]
  <2>1. CASE shares' = [shares EXCEPT ![s].revoked = TRUE]
    <3> DEFINE w == [shares[s] EXCEPT !.revoked = TRUE]
    <3>1. w \in Shares /\ w.max = shares[s].max
      BY <1>1 DEF Shares
    <3>2. shares' = [shares EXCEPT ![s] = w]
      BY <2>1
    <3> QED
      BY <3>1, <3>2
  <2>2. CASE shares' = [shares EXCEPT ![s].expired = TRUE]
    <3> DEFINE w == [shares[s] EXCEPT !.expired = TRUE]
    <3>1. w \in Shares /\ w.max = shares[s].max
      BY <1>1 DEF Shares
    <3>2. shares' = [shares EXCEPT ![s] = w]
      BY <2>2
    <3> QED
      BY <3>1, <3>2
  <2> QED
    BY <2>1, <2>2
<1>3. IsTable(shares', MaxShare, Shares) /\ DOMAIN shares' = DOMAIN shares
  BY <1>1, <1>2, EditType
<1>4. \A t \in DOMAIN shares : shares'[t].max = shares[t].max /\ (t # s => shares'[t] = shares[t])
  BY <1>1, <1>2 DEF IsTable
<1>5. shares' = [shares EXCEPT ![s].expired = TRUE] => shares'[s].revoked = shares[s].revoked
  BY <1>1 DEF IsTable, Shares
<1> QED
  BY <1>3, <1>4, <1>5

LEMMA NoRequestInv ==
    ASSUME IInv,
           \/ ReplaceBlocks
           \/ \E s \in DOMAIN shares : Expire(s)
           \/ \E g \in DOMAIN grants : RevokeGrant(g)
    PROVE  IInv'
<1>1. UNCHANGED <<report, vers, call, ctr, hist>> /\ blocks' \in BOOLEAN
  BY DEF ReplaceBlocks, Expire, RevokeGrant, IInv, TypeOK
<1>2. call' \in [Calls -> CallStates]
  BY <1>1 DEF IInv, TypeOK
<1>3. VInv'
  BY <1>1, <1>2, VQuiet DEF IInv
<1>4. /\ \A s \in DOMAIN shares' : /\ s \in DOMAIN shares /\ shares'[s].max = shares[s].max
                                   /\ shares'[s].revoked = shares[s].revoked
      /\ \A g \in DOMAIN grants' : /\ g \in DOMAIN grants /\ grants'[g].share = grants[g].share
                                   /\ grants'[g].user = grants[g].user
                                   /\ grants[g].revoked => grants'[g].revoked
      /\ IsTable(shares', MaxShare, Shares) /\ IsTable(grants', MaxGrant, Grants)
  <2>1. CASE ReplaceBlocks
    BY <2>1 DEF ReplaceBlocks, IInv, TypeOK
  <2>2. ASSUME NEW s \in DOMAIN shares, Expire(s) PROVE <1>4!:
    BY <2>2, EditShare DEF Expire, IInv, TypeOK
  <2>3. ASSUME NEW g \in DOMAIN grants, RevokeGrant(g) PROVE <1>4!:
    BY <2>3, RevokeRow DEF RevokeGrant, IInv, TypeOK
  <2> QED
    BY <2>1, <2>2, <2>3
<1>5. TypeOK'
  BY <1>1, <1>2, <1>4 DEF IInv, TypeOK
<1>6. SInv'
  BY <1>1, <1>2, <1>4, SQuiet DEF IInv
<1> QED
  BY <1>3, <1>5, <1>6 DEF IInv

-----------------------------------------------------------------------------
(* Claiming and revoking *)

LEMMA ExistingInv ==
    ASSUME IInv, NEW c \in Calls, Existing(c)
    PROVE  IInv'
<1>1. call[c] \in CallStates /\ call[c].pc = "existing" /\ SCall(call[c])
  BY DEF IInv, TypeOK, SInv, Existing, At
<1>2. UNCHANGED <<tables, ctr, hist>>
  BY DEF Existing
<1>3. CASE Held(call[c].id, call[c].user) # {}
  BY <1>1, <1>2, <1>3, IdleType, StepOn DEF Existing, Return, IInv, TypeOK, tables, Claims, Revokes
<1>4. CASE Held(call[c].id, call[c].user) = {}
  <2>1. PICK n \in CallStates : /\ call' = [call EXCEPT ![c] = n] /\ n.pc = "claim"
                                /\ n.id = call[c].id /\ n.user = call[c].user /\ n.max = call[c].max
    BY <1>4, GotoType DEF Existing, IInv
  <2>2. call' \in [Calls -> CallStates] /\ \A d \in Calls : call'[d] = IF d = c THEN n ELSE call[d]
    BY <2>1, Moved DEF IInv
  <2>3. TypeOK'
    BY <1>2, <2>2 DEF IInv, TypeOK, tables
  <2>4. VInv'
    BY <1>2, <2>1, VSkip DEF IInv, tables
  <2>5. \A d \in Calls : call'[d] = call[d] \/ SCall(call[d])'
    <3>1. Held(n.id, n.user)' = {}
      BY <1>2, <1>4, <2>1 DEF Held, Active, tables
    <3> QED
      BY <1>1, <1>2, <2>1, <2>2, <3>1 DEF SCall, tables, Claims, Revokes
  <2>6. \A d, e \in Calls : d # e =>
           (call'[d] = call[d] /\ call'[e] = call[e]) \/ SPair(call[d], call[e])'
    BY <1>1, <1>2, <2>1, <2>2 DEF IInv, SInv, SPair, tables, Claims
  <2>7. \A d \in Calls : \A s \in DOMAIN shares' \ hist'.halted : \A g \in Active(s)' :
           Reaches(call[d], s, g) => Reaches(call'[d], s, g)
    BY <1>1, <2>2 DEF Reaches
  <2>8. SInv'
    BY <1>2, <2>2, <2>5, <2>6, <2>7, SQuiet DEF IInv, tables
  <2> QED
    BY <2>3, <2>4, <2>8 DEF IInv
<1> QED
  BY <1>3, <1>4

LEMMA ClaimShareInv ==
    ASSUME IInv, NEW c \in Calls, NEW s \in DOMAIN shares, NEW u \in Users, ClaimShare(c, s, u)
    PROVE  IInv'
<1>1. s \in 1..ctr.share /\ s \in Nat /\ shares[s] \in Shares /\ ~shares[s].revoked
  BY DEF IInv, SInv, ShareIds, TypeOK, IsTable, ClaimShare, Open
<1>2. PICK n \in CallStates : /\ n.pc = "existing" /\ n.id = s /\ n.user = u /\ n.max = shares[s].max
                              /\ Begin(c, n)
  <2> DEFINE r == [Idle EXCEPT !.pc = "existing", !.id = s, !.user = u, !.max = shares[s].max]
  <2>1. r \in CallStates /\ r.pc = "existing" /\ r.id = s /\ r.user = u /\ r.max = shares[s].max
    BY <1>1, IdleType DEF CallStates, Shares
  <2>2. Begin(c, r)
    BY DEF ClaimShare
  <2> QED
    BY <2>1, <2>2
<1>3. /\ call' = [call EXCEPT ![c] = n] /\ call[c].pc = "idle"
      /\ ctr' \in [ver : 0..MaxVersion, share : 0..MaxShare, grant : 0..MaxGrant,
                   call : 0..MaxCall, pdf : Nat]
      /\ ctr'.ver = ctr.ver /\ ctr'.share = ctr.share /\ ctr'.grant = ctr.grant
  BY <1>2, BeginType DEF IInv
<1>4. UNCHANGED tables
  BY DEF ClaimShare
<1>5. /\ hist' \in [dropped : BOOLEAN, late : SUBSET (Nat \X Users), twins : SUBSET (Nat \X Users),
                    halted : SUBSET Nat, printed : SUBSET Nat]
      /\ hist'.dropped = hist.dropped /\ hist'.late = hist.late /\ hist.twins \subseteq hist'.twins
      /\ hist'.halted = hist.halted /\ hist'.printed = hist.printed
      /\ Claiming(s, u) # {} => <<s, u>> \in hist'.twins
  BY <1>1 DEF ClaimShare, IInv, TypeOK
<1>6. call' \in [Calls -> CallStates] /\ \A d \in Calls : call'[d] = IF d = c THEN n ELSE call[d]
  BY <1>3, Moved DEF IInv
<1>7. TypeOK'
  BY <1>3, <1>4, <1>5, <1>6 DEF IInv, TypeOK, tables
<1>8. VInv'
  BY <1>2, <1>3, <1>4, <1>5, VSkip DEF IInv, tables
<1>9. SInv'
  <2>1. \A d \in Calls : call'[d] = call[d] \/ SCall(call[d])'
    BY <1>1, <1>2, <1>3, <1>4, <1>6 DEF SCall, tables, Claims, Revokes
  <2>2. \A e \in Calls : call[e].pc \in Claims /\ call[e].id = s /\ call[e].user = u => <<s, u>> \in hist'.twins
    BY <1>5 DEF Claiming, InFlight, Claims
  <2>3. \A d, e \in Calls : d # e =>
           (call'[d] = call[d] /\ call'[e] = call[e]) \/ SPair(call[d], call[e])'
    BY <1>2, <1>6, <2>2 DEF SPair
  <2>4. \A d \in Calls : \A t \in DOMAIN shares' \ hist'.halted : \A g \in Active(t)' :
           Reaches(call[d], t, g) => Reaches(call'[d], t, g)
    BY <1>3, <1>6 DEF Reaches
  <2> QED
    BY <1>3, <1>4, <1>5, <1>6, <2>1, <2>3, <2>4, SQuiet DEF IInv, tables
<1> QED
  BY <1>7, <1>8, <1>9 DEF IInv

\* A revocation or a deletion goes on: grants are listed, revoked or deleted, shares deleted.
LEMMA RevokingInv ==
    ASSUME IInv, NEW c \in Calls, NEW n \in CallStates, call' = [call EXCEPT ![c] = n],
           n.pc \in {"idle", "each", "shares", "versions"}, n.pc = "each" => n.user = "none",
           UNCHANGED <<report, blocks, vers, ctr>>,
           IsTable(shares', MaxShare, Shares), IsTable(grants', MaxGrant, Grants),
           \A s \in DOMAIN shares' : /\ s \in DOMAIN shares /\ shares'[s].max = shares[s].max
                                     /\ shares'[s].revoked = shares[s].revoked,
           \A g \in DOMAIN grants' : /\ g \in DOMAIN grants /\ grants'[g].share = grants[g].share
                                     /\ grants'[g].user = grants[g].user
                                     /\ grants[g].revoked => grants'[g].revoked,
           hist' \in [dropped : BOOLEAN, late : SUBSET (Nat \X Users), twins : SUBSET (Nat \X Users),
                      halted : SUBSET Nat, printed : SUBSET Nat],
           hist'.dropped = hist.dropped, hist'.late = hist.late, hist'.twins = hist.twins,
           hist.halted \subseteq hist'.halted, hist'.printed = hist.printed,
           \A s \in DOMAIN shares' \ hist'.halted : \A g \in Active(s)' :
               Reaches(call[c], s, g) => Reaches(n, s, g)
    PROVE  IInv'
<1>1. call' \in [Calls -> CallStates] /\ \A d \in Calls : call'[d] = IF d = c THEN n ELSE call[d]
  BY Moved DEF IInv
<1>2. TypeOK'
  BY <1>1 DEF IInv, TypeOK
<1>3. VInv'
  BY VSkip DEF IInv
<1>4. \A d \in Calls : call'[d] = call[d] \/ SCall(call[d])'
  BY <1>1 DEF SCall, Claims, Revokes
<1>5. \A d, e \in Calls : d # e =>
         (call'[d] = call[d] /\ call'[e] = call[e]) \/ SPair(call[d], call[e])'
  BY <1>1 DEF SPair, Claims
<1>6. \A d \in Calls : \A s \in DOMAIN shares' \ hist'.halted : \A g \in Active(s)' :
         Reaches(call[d], s, g) => Reaches(call'[d], s, g)
  BY <1>1
<1>7. SInv'
  BY <1>1, <1>4, <1>5, <1>6, SQuiet DEF IInv
<1> QED
  BY <1>2, <1>3, <1>7 DEF IInv

LEMMA ListInv ==
    ASSUME IInv, NEW c \in Calls, ListByShare(c)
    PROVE  IInv'
<1>1. call[c] \in CallStates /\ call[c].pc = "list" /\ call[c].user = "none"
  BY DEF IInv, TypeOK, SInv, SCall, Revokes, ListByShare, At
<1>2. UNCHANGED <<tables, ctr, hist>>
  BY DEF ListByShare
<1>3. PICK n \in CallStates : /\ n.pc = "each" /\ n.id = call[c].id /\ n.user = "none"
                              /\ n.todo = Active(call[c].id) /\ call' = [call EXCEPT ![c] = n]
  <2> DEFINE r == [call[c] EXCEPT !.pc = "each", !.todo = Active(call[c].id)]
  <2>1. Active(call[c].id) \in SUBSET (1..MaxGrant)
    BY DEF Active, IInv, TypeOK, IsTable
  <2>2. /\ r \in CallStates /\ r.pc = "each" /\ r.id = call[c].id /\ r.user = "none"
        /\ r.todo = Active(call[c].id)
    BY <1>1, <2>1 DEF CallStates
  <2>3. call' = [call EXCEPT ![c] = r]
    BY DEF ListByShare
  <2> QED
    BY <2>2, <2>3
<1>4. \A s \in DOMAIN shares' \ hist'.halted : \A g \in Active(s)' :
         Reaches(call[c], s, g) => Reaches(n, s, g)
  BY <1>2, <1>3 DEF Reaches, Active, tables
<1>5. TypeOK
  BY DEF IInv
<1> QED
  BY <1>2, <1>3, <1>4, <1>5, RevokingInv DEF tables, TypeOK

LEMMA RevokeEachInv ==
    ASSUME IInv, NEW c \in Calls, RevokeEach(c)
    PROVE  IInv'
<1>1. call[c] \in CallStates /\ call[c].pc = "each" /\ call[c].user = "none"
  BY DEF IInv, TypeOK, SInv, SCall, Revokes, RevokeEach, At
<1>2. UNCHANGED <<report, blocks, vers, shares, ctr>>
  BY DEF RevokeEach
<1>3. TypeOK
  BY DEF IInv
<1>4. CASE call[c].todo = {} /\ Return(c) /\ UNCHANGED <<grants, hist>>
  <2>1. \A s, g : ~Reaches(call[c], s, g)
    BY <1>1, <1>4 DEF Reaches
  <2> QED
    BY <1>2, <1>3, <1>4, <2>1, IdleType, RevokingInv DEF Return, TypeOK
<1>5. ASSUME NEW g \in call[c].todo, Revocable(g),
             grants' = [grants EXCEPT ![g].revoked = TRUE],
             call' = [call EXCEPT ![c].todo = @ \ {g}], UNCHANGED hist
      PROVE  IInv'
  <2>1. PICK n \in CallStates : /\ n.pc = "each" /\ n.id = call[c].id /\ n.user = "none"
                                /\ n.todo = call[c].todo \ {g} /\ call' = [call EXCEPT ![c] = n]
    <3> DEFINE r == [call[c] EXCEPT !.todo = @ \ {g}]
    <3>1. call[c].todo \ {g} \in SUBSET (1..MaxGrant)
      BY <1>1 DEF CallStates
    <3>2. /\ r \in CallStates /\ r.pc = "each" /\ r.id = call[c].id /\ r.user = "none"
          /\ r.todo = call[c].todo \ {g}
      BY <1>1, <3>1 DEF CallStates
    <3>3. call' = [call EXCEPT ![c] = r]
      BY <1>5
    <3> QED
      BY <3>2, <3>3
  <2>2. g \in DOMAIN grants
    BY <1>5 DEF Revocable
  <2>3. /\ IsTable(grants', MaxGrant, Grants) /\ DOMAIN grants' = DOMAIN grants
        /\ grants'[g].revoked
        /\ \A h \in DOMAIN grants' : /\ grants'[h].share = grants[h].share
                                     /\ grants'[h].user = grants[h].user
                                     /\ grants[h].revoked => grants'[h].revoked
    BY <1>3, <1>5, <2>2, RevokeRow
  <2>4. \A s \in DOMAIN shares' \ hist'.halted : \A h \in Active(s)' :
           Reaches(call[c], s, h) => Reaches(n, s, h)
    BY <1>1, <2>1, <2>3 DEF Reaches, Active
  <2>5. /\ IsTable(shares', MaxShare, Shares)
        /\ hist' \in [dropped : BOOLEAN, late : SUBSET (Nat \X Users), twins : SUBSET (Nat \X Users),
                      halted : SUBSET Nat, printed : SUBSET Nat]
    BY <1>2, <1>3, <1>5 DEF TypeOK
  <2>6. call' = [call EXCEPT ![c] = n] /\ n.pc = "each" /\ n.user = "none"
    BY <2>1
  <2> QED
    BY <1>2, <1>5, <2>3, <2>4, <2>5, <2>6, RevokingInv
<1>6. CASE Return(c) /\ hist' = [hist EXCEPT !.halted = @ \cup {call[c].id}] /\ UNCHANGED grants
  <2>1. /\ hist' \in [dropped : BOOLEAN, late : SUBSET (Nat \X Users), twins : SUBSET (Nat \X Users),
                      halted : SUBSET Nat, printed : SUBSET Nat]
        /\ hist'.dropped = hist.dropped /\ hist'.late = hist.late /\ hist'.twins = hist.twins
        /\ hist.halted \subseteq hist'.halted /\ hist'.printed = hist.printed
        /\ call[c].id \in hist'.halted
    <3>1. call[c].id \in Nat
      BY <1>1 DEF CallStates
    <3> QED
      BY <1>3, <1>6, <3>1 DEF TypeOK
  <2>2. \A s \in DOMAIN shares' \ hist'.halted : \A g \in Active(s)' : ~Reaches(call[c], s, g)
    BY <2>1 DEF Reaches
  <2>3. /\ IsTable(shares', MaxShare, Shares) /\ IsTable(grants', MaxGrant, Grants)
        /\ call' = [call EXCEPT ![c] = Idle]
    BY <1>2, <1>3, <1>6 DEF Return, TypeOK
  <2> QED
    BY <1>2, <1>6, <2>1, <2>2, <2>3, IdleType, RevokingInv
<1> QED
  BY <1>4, <1>5, <1>6 DEF RevokeEach

\* A failed statement changes no table, and takes its share out of the promise if it was
\* revoking.
LEMMA FailInv ==
    ASSUME IInv, NEW c \in Calls, Fail(c)
    PROVE  IInv'
<1>1. call[c] \in CallStates /\ TypeOK
  BY DEF IInv, TypeOK
<1>2. /\ UNCHANGED <<report, blocks, vers, shares, grants, ctr>>
      /\ call' = [call EXCEPT ![c] = Idle]
  BY DEF Fail, Return, tables
<1>3. IsTable(shares', MaxShare, Shares) /\ IsTable(grants', MaxGrant, Grants)
  BY <1>1, <1>2 DEF TypeOK
<1>4. /\ hist' \in [dropped : BOOLEAN, late : SUBSET (Nat \X Users), twins : SUBSET (Nat \X Users),
                    halted : SUBSET Nat, printed : SUBSET Nat]
      /\ hist'.dropped = hist.dropped /\ hist'.late = hist.late /\ hist'.twins = hist.twins
      /\ hist.halted \subseteq hist'.halted /\ hist'.printed = hist.printed
      /\ call[c].pc \in {"list", "each"} => call[c].id \in hist'.halted
  <2>1. call[c].id \in Nat
    BY <1>1 DEF CallStates
  <2>2. CASE call[c].pc \in {"list", "each"}
    <3>1. hist' = [hist EXCEPT !.halted = @ \cup {call[c].id}]
      BY <2>2 DEF Fail, At
    <3> QED
      BY <1>1, <2>1, <3>1 DEF TypeOK
  <2>3. CASE call[c].pc \notin {"list", "each"}
    <3>1. hist' = hist
      BY <2>3 DEF Fail, At
    <3> QED
      BY <1>1, <2>3, <3>1 DEF TypeOK
  <2> QED
    BY <2>2, <2>3
<1>5. \A s \in DOMAIN shares' \ hist'.halted : \A g \in Active(s)' : ~Reaches(call[c], s, g)
  BY <1>4 DEF Reaches
<1> QED
  BY <1>2, <1>3, <1>4, <1>5, IdleType, RevokingInv

LEMMA DeleteGrantsInv ==
    ASSUME IInv, NEW c \in Calls, DeleteGrants(c)
    PROVE  IInv'
<1>1. PICK n \in CallStates : call' = [call EXCEPT ![c] = n] /\ n.pc = "shares"
  BY GotoType DEF IInv, DeleteGrants
<1>2. IsTable(grants', MaxGrant, Grants) /\ DOMAIN grants' = {}
  BY ReportShareAssumption, EmptyTable DEF DeleteGrants
<1>3. \A s, g : ~Reaches(call[c], s, g)
  BY DEF DeleteGrants, At, Reaches
<1>4. TypeOK
  BY DEF IInv
<1> QED
  BY <1>1, <1>2, <1>3, <1>4, RevokingInv DEF DeleteGrants, TypeOK

LEMMA DeleteSharesInv ==
    ASSUME IInv, NEW c \in Calls, DeleteShares(c)
    PROVE  IInv'
<1>1. call[c].pc = "shares" /\ TypeOK /\ UNCHANGED <<report, blocks, vers, grants, ctr, hist>>
  BY DEF DeleteShares, At, IInv
<1>2. CASE DOMAIN grants # {}
  BY <1>1, <1>2, StepOn, IdleType DEF DeleteShares, Return, Claims, Revokes, TypeOK
<1>3. CASE DOMAIN grants = {}
  <2>1. PICK n \in CallStates : call' = [call EXCEPT ![c] = n] /\ n.pc = "versions"
    BY <1>1, <1>3, GotoType DEF DeleteShares
  <2>2. IsTable(shares', MaxShare, Shares) /\ DOMAIN shares' = {}
    BY ReportShareAssumption, <1>3, EmptyTable DEF DeleteShares
  <2>3. \A s, g : ~Reaches(call[c], s, g)
    BY <1>1 DEF Reaches
  <2> QED
    BY <1>1, <2>1, <2>2, <2>3, RevokingInv DEF TypeOK
<1> QED
  BY <1>2, <1>3

\* A new share has no grant, and no claim knows it.
LEMMA InsertShareInv ==
    ASSUME IInv, NEW c \in Calls, InsertShare(c)
    PROVE  IInv'
<1>1. call[c] \in CallStates /\ call[c].pc = "share" /\ TypeOK /\ SInv
  BY DEF IInv, TypeOK, InsertShare, At
<1>2. UNCHANGED <<report, blocks, vers, grants, hist>> /\ call' = [call EXCEPT ![c] = Idle]
  BY DEF InsertShare, Return
<1>3. CASE call[c].id \notin DOMAIN vers
  BY <1>1, <1>2, <1>3, StepOn, IdleType DEF InsertShare, Claims, Revokes, TypeOK
<1>4. CASE call[c].id \in DOMAIN vers
  <2>1. PICK s \in 1..MaxShare, w \in Shares :
           /\ s = ctr.share + 1 /\ ~w.revoked /\ shares' = Put(shares, s, w)
    <3> DEFINE w == [ver |-> call[c].id, max |-> call[c].max, revoked |-> FALSE, expired |-> FALSE]
    <3>1. w \in Shares /\ ~w.revoked
      BY <1>1, <1>4 DEF TypeOK, IsTable, CallStates, Shares
    <3>2. ctr.share + 1 \in 1..MaxShare
      BY ReportShareAssumption, <1>1 DEF InsertShare, TypeOK
    <3>3. shares' = Put(shares, ctr.share + 1, w)
      BY <1>4 DEF InsertShare
    <3> QED
      BY <3>1, <3>2, <3>3
  <2>2. MaxShare \in Nat /\ IsTable(shares, MaxShare, Shares) /\ ctr.share \in Nat
    BY ReportShareAssumption, <1>1 DEF TypeOK
  <2>3. /\ IsTable(shares', MaxShare, Shares) /\ DOMAIN shares' = DOMAIN shares \cup {s}
        /\ shares'[s] = w /\ \A x \in DOMAIN shares \ {s} : shares'[x] = shares[x]
    <3>1. /\ IsTable(Put(shares, s, w), MaxShare, Shares)
          /\ DOMAIN Put(shares, s, w) = DOMAIN shares \cup {s}
          /\ Put(shares, s, w)[s] = w
          /\ \A x \in DOMAIN shares \ {s} : Put(shares, s, w)[x] = shares[x]
      <4>1. s \in 1..MaxShare /\ w \in Shares
        BY <2>1
      <4>2. IsTable(shares, MaxShare, Shares)
        BY <2>2
      <4> QED
        BY <4>1, <4>2, PutType
    <3> QED
      BY <2>1, <3>1
  <2>4. /\ ctr' \in [ver : 0..MaxVersion, share : 0..MaxShare, grant : 0..MaxGrant,
                     call : 0..MaxCall, pdf : Nat]
        /\ ctr'.ver = ctr.ver /\ ctr'.share = s /\ ctr'.grant = ctr.grant
    <3>1. ctr' = [ctr EXCEPT !.share = s]
      BY <1>4, <2>1 DEF InsertShare
    <3> QED
      BY <1>1, <2>1, <3>1 DEF TypeOK
  <2>5. call' \in [Calls -> CallStates] /\ \A d \in Calls : call'[d] = IF d = c THEN Idle ELSE call[d]
    BY <1>1, <1>2, IdleType, Moved
  <2>6. TypeOK'
    BY <1>1, <1>2, <2>3, <2>4, <2>5 DEF TypeOK
  <2>7. VInv'
    BY <1>1, <1>2, <2>4, IdleType, VSkip DEF IInv
  <2>8. s \notin 1..ctr.share /\ 1..ctr.share \subseteq 1..s /\ s \in 1..s
    BY <2>1, <2>2
  <2>9. ShareIds'
    BY <1>1, <1>2, <2>3, <2>4, <2>8 DEF SInv, ShareIds
  <2>10. /\ \A t : Active(t)' = Active(t) /\ \A u : Held(t, u)' = Held(t, u)
         /\ Active(s) = {} /\ \A u : Held(s, u) = {}
    BY <1>1, <1>2, <2>8 DEF Active, Held, SInv, ShareIds
  <2>11. CapHolds'
    <3> SUFFICES ASSUME NEW t \in DOMAIN shares', shares'[t].max # 0
                 PROVE  Cardinality(Active(t)) <= shares'[t].max
      BY <2>10 DEF CapHolds
    <3>1. CASE t = s
      <4>1. Cardinality(Active(t)) = 0
        BY <2>10, <3>1, FS_EmptySet
      <4>2. shares'[t].max \in Nat
        BY ReportShareAssumption, <2>1, <2>3, <3>1 DEF Shares
      <4> QED
        BY <4>1, <4>2
    <3>2. CASE t # s
      BY <1>1, <2>3, <3>2 DEF SInv, CapHolds
    <3> QED
      BY <3>1, <3>2
  <2>12. TwoGrantsOnlyByOverlap'
    <3> SUFFICES ASSUME NEW t \in DOMAIN shares', NEW u \in Users, <<t, u>> \notin hist.twins
                 PROVE  Cardinality(Held(t, u)) <= 1
      BY <1>2, <2>10 DEF TwoGrantsOnlyByOverlap
    <3>1. CASE t = s
      <4>1. Cardinality(Held(t, u)) = 0
        BY <2>10, <3>1, FS_EmptySet
      <4> QED
        BY <4>1
    <3>2. CASE t # s
      BY <1>1, <2>3, <3>2 DEF SInv, TwoGrantsOnlyByOverlap
    <3> QED
      BY <3>1, <3>2
  <2>13. RevokedOK'
    <3> SUFFICES ASSUME NEW t \in DOMAIN shares' \ hist'.halted, shares'[t].revoked, NEW g \in Active(t)'
                 PROVE  <<t, grants'[g].user>> \in hist'.late \/ \E d \in Calls : Reaches(call'[d], t, g)
      BY DEF RevokedOK, Reaches
    <3>1. t \in DOMAIN shares \ hist.halted /\ shares[t].revoked /\ g \in Active(t)
      BY <1>2, <2>1, <2>3, <2>10
    <3>2. <<t, grants[g].user>> \in hist.late \/ \E d \in Calls : Reaches(call[d], t, g)
      BY <1>1, <3>1 DEF SInv, RevokedOK
    <3> QED
      BY <1>1, <1>2, <2>5, <3>2 DEF Reaches
  <2>14. ASSUME NEW d \in Calls PROVE SCall(call[d])'
    <3>1. CASE d = c
      BY <2>5, <3>1, IdleType DEF SCall, Claims, Revokes
    <3>2. CASE d # c
      <4>1. SCall(call[d]) /\ call'[d] = call[d]
        BY <1>1, <2>5, <3>2 DEF SInv
      <4>2. Held(call[d].id, call[d].user)' = Held(call[d].id, call[d].user)
        BY <1>2, <4>1 DEF Held, Active
      <4> QED
        BY <1>2, <2>3, <2>4, <2>8, <4>1, <4>2 DEF SCall
    <3> QED
      BY <3>1, <3>2
  <2>15. \A d, e \in Calls : d # e => SPair(call[d], call[e])'
    BY <1>1, <1>2, <2>5, IdleType DEF SInv, SPair, Claims
  <2>16. SInv'
    BY <2>9, <2>11, <2>12, <2>13, <2>14, <2>15 DEF SInv
  <2> QED
    BY <2>6, <2>7, <2>16 DEF IInv
<1> QED
  BY <1>3, <1>4

\* Revoking a share makes the claims that have read it late, and the revocation reaches every
\* grant it has.
LEMMA RevokeInv ==
    ASSUME IInv, NEW c \in Calls, Revoke(c)
    PROVE  IInv'
<1> DEFINE s == call[c].id
<1>1. call[c] \in CallStates /\ call[c].pc = "revoke" /\ call[c].user = "none" /\ TypeOK /\ SInv
  BY DEF IInv, TypeOK, SInv, SCall, Revokes, Revoke, At
<1>2. UNCHANGED <<report, blocks, vers, grants, ctr>>
  BY DEF Revoke
<1>3. CASE ~(s \in DOMAIN shares /\ ~shares[s].revoked)
  <2>1. call' = [call EXCEPT ![c] = Idle] /\ UNCHANGED <<shares, hist>>
    BY <1>3 DEF Revoke, Return
  <2> QED
    BY <1>1, <1>2, <2>1, StepOn, IdleType DEF Claims, Revokes, TypeOK
<1>4. CASE s \in DOMAIN shares /\ ~shares[s].revoked
  <2>1. /\ shares' = [shares EXCEPT ![s].revoked = TRUE]
        /\ hist' = [hist EXCEPT !.late = @ \cup {<<s, u>> : u \in {v \in Users : Claiming(s, v) # {}}}]
        /\ Goto(c, "list")
    BY <1>4 DEF Revoke
  <2>2. PICK n \in CallStates : call' = [call EXCEPT ![c] = n] /\ n.pc = "list" /\ n.id = s /\ n.user = "none"
    BY <1>1, <2>1, GotoType
  <2>3. /\ IsTable(shares', MaxShare, Shares) /\ DOMAIN shares' = DOMAIN shares
        /\ \A t \in DOMAIN shares : /\ shares'[t].max = shares[t].max
                                    /\ t # s => shares'[t] = shares[t]
    BY <1>1, <1>4, <2>1, EditShare
  <2>4. /\ hist' \in [dropped : BOOLEAN, late : SUBSET (Nat \X Users), twins : SUBSET (Nat \X Users),
                      halted : SUBSET Nat, printed : SUBSET Nat]
        /\ hist'.dropped = hist.dropped /\ hist'.twins = hist.twins
        /\ hist'.halted = hist.halted /\ hist'.printed = hist.printed
        /\ hist.late \subseteq hist'.late
        /\ \A u \in Users : Claiming(s, u) # {} => <<s, u>> \in hist'.late
    <3>1. s \in Nat
      BY <1>1 DEF CallStates
    <3> QED
      BY <1>1, <2>1, <3>1 DEF TypeOK
  <2>5. call' \in [Calls -> CallStates] /\ \A d \in Calls : call'[d] = IF d = c THEN n ELSE call[d]
    BY <1>1, <2>2, Moved
  <2>6. TypeOK'
    BY <1>1, <1>2, <2>3, <2>4, <2>5 DEF TypeOK
  <2>7. VInv'
    BY <1>2, <2>2, <2>4, VSkip DEF IInv
  <2>8. \A t : Active(t)' = Active(t) /\ \A u : Held(t, u)' = Held(t, u)
    BY <1>2 DEF Active, Held
  <2>9. ShareIds' /\ CapHolds' /\ TwoGrantsOnlyByOverlap'
    BY <1>1, <1>2, <2>3, <2>4, <2>8 DEF SInv, ShareIds, CapHolds, TwoGrantsOnlyByOverlap
  <2>10. RevokedOK'
    <3> SUFFICES ASSUME NEW t \in DOMAIN shares \ hist.halted, shares'[t].revoked, NEW g \in Active(t)
                 PROVE  <<t, grants[g].user>> \in hist'.late \/ \E d \in Calls : Reaches(call'[d], t, g)
      BY <1>2, <2>3, <2>4, <2>8 DEF RevokedOK, Reaches
    <3>1. CASE t = s
      BY <2>2, <2>5, <3>1 DEF Reaches
    <3>2. CASE t # s
      <4>1. <<t, grants[g].user>> \in hist.late \/ \E d \in Calls : Reaches(call[d], t, g)
        BY <1>1, <2>3, <3>2 DEF SInv, RevokedOK
      <4> QED
        BY <1>1, <2>4, <2>5, <4>1 DEF Reaches
    <3> QED
      BY <3>1, <3>2
  <2>11. ASSUME NEW d \in Calls PROVE SCall(call[d])'
    <3>1. CASE d = c
      BY <2>2, <2>5, <3>1 DEF SCall, Claims, Revokes
    <3>2. CASE d # c
      <4>1. SCall(call[d]) /\ call'[d] = call[d]
        BY <1>1, <2>5, <3>2 DEF SInv
      <4>2. Held(call[d].id, call[d].user)' = Held(call[d].id, call[d].user)
        BY <1>2, <4>1 DEF Held, Active
      <4>3. call[d].pc \in Claims /\ call[d].id = s => <<s, call[d].user>> \in hist'.late
        BY <2>4, <4>1 DEF SCall, Claims, Claiming, InFlight
      <4> QED
        BY <1>2, <2>3, <2>4, <4>1, <4>2, <4>3 DEF SCall
    <3> QED
      BY <3>1, <3>2
  <2>12. \A d, e \in Calls : d # e => SPair(call[d], call[e])'
    BY <1>1, <2>2, <2>4, <2>5 DEF SInv, SPair, Claims
  <2>13. SInv'
    BY <2>9, <2>10, <2>11, <2>12 DEF SInv
  <2> QED
    BY <2>6, <2>7, <2>13 DEF IInv
<1> QED
  BY <1>3, <1>4

\* A claim counts and inserts in one transaction, so the cap holds; it finds no other grant of
\* the same person unless their claims overlap, and is late if the share was revoked.
LEMMA ClaimInsertInv ==
    ASSUME IInv, NEW c \in Calls, ClaimInsert(c)
    PROVE  IInv'
<1>1. call[c] \in CallStates /\ call[c].pc = "claim" /\ SCall(call[c]) /\ TypeOK /\ SInv
  BY DEF IInv, TypeOK, SInv, ClaimInsert, At
<1>2. UNCHANGED <<report, blocks, vers, shares, hist>> /\ call' = [call EXCEPT ![c] = Idle]
  BY DEF ClaimInsert, Return
<1>3. CASE ~(call[c].id \in DOMAIN shares /\ UnderCap(call[c]))
  <2>1. UNCHANGED <<grants, ctr>>
    BY <1>3 DEF ClaimInsert
  <2> QED
    BY <1>1, <1>2, <2>1, StepOn, IdleType DEF Claims, Revokes, TypeOK
<1>4. CASE call[c].id \in DOMAIN shares /\ UnderCap(call[c])
  <2>1. PICK s \in DOMAIN shares, u \in Users : s = call[c].id /\ u = call[c].user
    BY <1>1, <1>4 DEF SCall, Claims
  <2>2. PICK g \in 1..MaxGrant, w \in Grants :
           /\ g = ctr.grant + 1 /\ w.share = s /\ w.user = u /\ ~w.revoked /\ grants' = Put(grants, g, w)
    <3> DEFINE w == [share |-> s, user |-> u, revoked |-> FALSE]
    <3>1. w \in Grants /\ w.share = s /\ w.user = u /\ ~w.revoked
      BY <1>1, <2>1 DEF TypeOK, IsTable, Grants
    <3>2. ctr.grant + 1 \in 1..MaxGrant
      BY ReportShareAssumption, <1>1 DEF ClaimInsert, TypeOK
    <3>3. grants' = Put(grants, ctr.grant + 1, w)
      BY <1>4, <2>1 DEF ClaimInsert
    <3> QED
      BY <3>1, <3>2, <3>3
  <2>3. MaxGrant \in Nat /\ IsTable(grants, MaxGrant, Grants)
    BY ReportShareAssumption, <1>1 DEF TypeOK
  <2>4. /\ IsTable(grants', MaxGrant, Grants) /\ DOMAIN grants' = DOMAIN grants \cup {g}
        /\ grants'[g] = w /\ \A x \in DOMAIN grants \ {g} : grants'[x] = grants[x]
    <3>1. /\ IsTable(Put(grants, g, w), MaxGrant, Grants)
          /\ DOMAIN Put(grants, g, w) = DOMAIN grants \cup {g}
          /\ Put(grants, g, w)[g] = w
          /\ \A x \in DOMAIN grants \ {g} : Put(grants, g, w)[x] = grants[x]
      <4>1. g \in 1..MaxGrant /\ w \in Grants
        BY <2>2
      <4>2. IsTable(grants, MaxGrant, Grants)
        BY <2>3
      <4> QED
        BY <4>1, <4>2, PutType
    <3> QED
      BY <2>2, <3>1
  <2>5. /\ ctr' \in [ver : 0..MaxVersion, share : 0..MaxShare, grant : 0..MaxGrant,
                     call : 0..MaxCall, pdf : Nat]
        /\ ctr'.ver = ctr.ver /\ ctr'.share = ctr.share /\ ctr'.grant = g
    <3>1. ctr' = [ctr EXCEPT !.grant = g]
      BY <1>4, <2>2 DEF ClaimInsert
    <3> QED
      BY <1>1, <2>2, <3>1 DEF TypeOK
  <2>6. call' \in [Calls -> CallStates] /\ \A d \in Calls : call'[d] = IF d = c THEN Idle ELSE call[d]
    BY <1>1, <1>2, IdleType, Moved
  <2>7. TypeOK'
    BY <1>1, <1>2, <2>4, <2>5, <2>6 DEF TypeOK
  <2>8. VInv'
    BY <1>1, <1>2, <2>5, IdleType, VSkip DEF IInv
  <2>9. g \notin DOMAIN grants /\ 1..ctr.grant \subseteq 1..g /\ g \in 1..g
    <3>1. ctr.grant \in Nat /\ DOMAIN grants \subseteq 1..ctr.grant
      BY <1>1 DEF TypeOK, SInv, ShareIds
    <3> QED
      BY <2>2, <3>1
  <2>10. ShareIds'
    BY <1>1, <1>2, <2>1, <2>2, <2>4, <2>5, <2>9 DEF SInv, ShareIds
  <2>11. /\ \A t : t # s => Active(t)' = Active(t)
         /\ Active(s)' = Active(s) \cup {g} /\ g \notin Active(s)
    BY <2>2, <2>4, <2>9 DEF Active
  <2>12. /\ \A t, v : ~(t = s /\ v = u) => Held(t, v)' = Held(t, v)
         /\ Held(s, u)' = Held(s, u) \cup {g} /\ g \notin Held(s, u)
    BY <2>2, <2>4, <2>9 DEF Active, Held
  <2>13. CapHolds'
    <3> SUFFICES ASSUME NEW t \in DOMAIN shares, shares[t].max # 0
                 PROVE  Cardinality(Active(t)') <= shares[t].max
      BY <1>2 DEF CapHolds
    <3>1. CASE t = s
      <4>1. shares[s].max \in Nat /\ call[c].max = shares[s].max
        BY ReportShareAssumption, <1>1, <2>1 DEF TypeOK, IsTable, Shares, SCall, Claims
      <4>2. Cardinality(Active(s)) < shares[s].max
        BY <1>4, <2>1, <3>1, <4>1 DEF UnderCap
      <4>3. Cardinality(Active(s)') = Cardinality(Active(s)) + 1 /\ Cardinality(Active(s)) \in Nat
        <5>1. IsFiniteSet(Active(s)) /\ Cardinality(Active(s)) \in Nat
          BY <1>1, GrantSets
        <5> QED
          BY <2>11, <5>1, FS_AddElement
      <4> QED
        BY <3>1, <4>1, <4>2, <4>3
    <3>2. CASE t # s
      BY <1>1, <2>11, <3>2 DEF SInv, CapHolds
    <3> QED
      BY <3>1, <3>2
  <2>14. TwoGrantsOnlyByOverlap'
    <3> SUFFICES ASSUME NEW t \in DOMAIN shares, NEW v \in Users, <<t, v>> \notin hist.twins
                 PROVE  Cardinality(Held(t, v)') <= 1
      BY <1>2 DEF TwoGrantsOnlyByOverlap
    <3>1. CASE t = s /\ v = u
      <4>1. Held(s, u) = {}
        BY <1>1, <2>1, <3>1 DEF SCall
      <4>2. Cardinality(Held(s, u)') = 1
        <5>1. Held(s, u)' = {} \cup {g}
          BY <2>12, <4>1
        <5>2. Cardinality({} \cup {g}) = 0 + 1
          BY FS_EmptySet, FS_AddElement
        <5> QED
          BY <5>1, <5>2
      <4> QED
        BY <3>1, <4>2
    <3>2. CASE ~(t = s /\ v = u)
      BY <1>1, <2>12, <3>2 DEF SInv, TwoGrantsOnlyByOverlap
    <3> QED
      BY <3>1, <3>2
  <2>15. RevokedOK'
    <3> SUFFICES ASSUME NEW t \in DOMAIN shares' \ hist'.halted, shares'[t].revoked, NEW h \in Active(t)'
                 PROVE  <<t, grants'[h].user>> \in hist'.late \/ \E d \in Calls : Reaches(call'[d], t, h)
      BY DEF RevokedOK, Reaches
    <3>1. CASE t = s /\ h = g
      BY <1>1, <1>2, <2>1, <2>2, <2>4, <3>1 DEF SCall, Claims
    <3>2. CASE ~(t = s /\ h = g)
      <4>1. h \in Active(t) /\ grants'[h] = grants[h]
        <5>1. h \in Active(t)
          BY <2>11, <3>2
        <5> QED
          BY <2>4, <2>9, <5>1 DEF Active
      <4>2. <<t, grants[h].user>> \in hist.late \/ \E d \in Calls : Reaches(call[d], t, h)
        BY <1>1, <1>2, <4>1 DEF SInv, RevokedOK
      <4> QED
        BY <1>1, <1>2, <2>6, <4>1, <4>2 DEF Reaches
    <3> QED
      BY <3>1, <3>2
  <2>16. ASSUME NEW d \in Calls PROVE SCall(call[d])'
    <3>1. CASE d = c
      BY <2>6, <3>1, IdleType DEF SCall, Claims, Revokes
    <3>2. CASE d # c
      <4>1. SCall(call[d]) /\ call'[d] = call[d] /\ SPair(call[d], call[c])
        BY <1>1, <2>6, <3>2 DEF SInv
      <4>2. \/ call[d].id = s /\ call[d].user = u
            \/ Held(call[d].id, call[d].user)' = Held(call[d].id, call[d].user)
        BY <2>4, <2>2, <2>9, <4>1 DEF Held, Active
      <4>3. call[d].pc = "claim" /\ call[d].id = s /\ call[d].user = u =>
               <<call[d].id, call[d].user>> \in hist.twins
        BY <1>1, <2>1, <4>1 DEF SPair, Claims
      <4> QED
        BY <1>2, <2>5, <4>1, <4>2, <4>3 DEF SCall
    <3> QED
      BY <3>1, <3>2
  <2>17. \A d, e \in Calls : d # e => SPair(call[d], call[e])'
    BY <1>1, <1>2, <2>6, IdleType DEF SInv, SPair, Claims
  <2>18. SInv'
    BY <2>10, <2>13, <2>14, <2>15, <2>16, <2>17 DEF SInv
  <2> QED
    BY <2>7, <2>8, <2>18 DEF IInv
<1> QED
  BY <1>3, <1>4

-----------------------------------------------------------------------------
(* The specification *)

LEMMA InitInv == Init => IInv
<1> SUFFICES ASSUME Init PROVE IInv
  OBVIOUS
<1>1. DOMAIN vers = {} /\ DOMAIN shares = {} /\ DOMAIN grants = {}
  BY DEF Init
<1>2. TypeOK
  <2>1. /\ IsTable(vers, MaxVersion, Versions) /\ IsTable(shares, MaxShare, Shares)
        /\ IsTable(grants, MaxGrant, Grants)
    BY ReportShareAssumption, EmptyTable DEF Init
  <2>2. call \in [Calls -> CallStates]
    BY IdleType DEF Init
  <2>3. ctr \in [ver : 0..MaxVersion, share : 0..MaxShare, grant : 0..MaxGrant,
                 call : 0..MaxCall, pdf : Nat]
    BY ReportShareAssumption DEF Init
  <2>4. hist \in [dropped : BOOLEAN, late : SUBSET (Nat \X Users), twins : SUBSET (Nat \X Users),
                  halted : SUBSET Nat, printed : SUBSET Nat]
    BY DEF Init
  <2> QED
    BY <2>1, <2>2, <2>3, <2>4 DEF Init, TypeOK
<1>3. \A c \in Calls : call[c].pc = "idle"
  BY IdleType DEF Init
<1>4. VInv
  BY <1>1, <1>3 DEF Init, VInv, VersOK, Ordinals, VCall, VPair
<1>5. SInv
  BY <1>1, <1>3 DEF SInv, ShareIds, CapHolds, TwoGrantsOnlyByOverlap, RevokedOK, SCall, SPair, Claims, Revokes
<1> QED
  BY <1>2, <1>4, <1>5 DEF IInv

LEMMA NextInv == IInv /\ [Next]_vars => IInv'
<1> SUFFICES ASSUME IInv, [Next]_vars PROVE IInv'
  OBVIOUS
<1>1. CASE UNCHANGED vars
  BY <1>1 DEF vars, tables, IInv, TypeOK, VInv, VersOK, Ordinals, VCall, VPair, SInv, ShareIds, CapHolds,
     TwoGrantsOnlyByOverlap, RevokedOK, SCall, SPair, Reaches, Held, Active
<1>2. CASE \/ ReplaceBlocks
           \/ \E s \in DOMAIN shares : Expire(s)
           \/ \E g \in DOMAIN grants : RevokeGrant(g)
  BY <1>2, NoRequestInv
<1>3. ASSUME NEW c \in Calls,
             \/ Publish(c) \/ NextOrdinal(c) \/ Insert(c)
             \/ \E v \in DOMAIN vers : RenderPDF(c, v) \/ \E m \in {0, Cap} : CreateShare(c, v, m)
             \/ SetPDFSHA256(c) \/ InsertShare(c)
      PROVE  IInv'
  BY <1>3, ReadingInv, NextOrdinalInv, InsertInv, RenderInv, SetPDFInv, InsertShareInv
<1>4. ASSUME NEW c \in Calls,
             \/ \E s \in DOMAIN shares : RevokeShare(c, s) \/ \E u \in Users : ClaimShare(c, s, u)
             \/ Existing(c) \/ ClaimInsert(c) \/ Revoke(c) \/ ListByShare(c) \/ RevokeEach(c)
      PROVE  IInv'
  BY <1>4, ReadingInv, ClaimShareInv, ExistingInv, ClaimInsertInv, RevokeInv, ListInv, RevokeEachInv
<1>5. ASSUME NEW c \in Calls,
             \/ Delete(c) \/ DeleteGrants(c) \/ DeleteShares(c) \/ DeleteVersions(c)
             \/ DeleteBlocks(c) \/ DeleteRow(c)
      PROVE  IInv'
  BY <1>5, ReadingInv, DeleteGrantsInv, DeleteSharesInv, DeleteVersionsInv, DeleteBlocksInv, DeleteRowInv
<1>6. ASSUME NEW c \in Calls, Fail(c) PROVE IInv'
  BY <1>6, FailInv
<1> QED
  BY <1>1, <1>2, <1>3, <1>4, <1>5, <1>6 DEF Next

\* The inductive invariant: what every request still has to know about the rows it has read,
\* in each of the transactions publish, print, claim, revoke and delete are made of.
THEOREM Invariance == Spec => []IInv
BY InitInv, NextInv, PTL DEF Spec

\* Every row, identifier and request keeps its type.
THEOREM TypeCorrect == Spec => []TypeOK
<1>1. IInv => TypeOK
  BY DEF IInv
<1> QED
  BY <1>1, Invariance, PTL

\* A capped share never has more unrevoked grants than its cap, whoever claims at once:
\* ClaimInsert counts and inserts in one transaction, and no share's cap changes.
THEOREM CapKept == Spec => []CapHolds
<1>1. IInv => CapHolds
  BY DEF IInv, SInv
<1> QED
  BY <1>1, Invariance, PTL

\* Nobody holds two grants of a share unless two claims of theirs overlapped: ClaimShare asks
\* for an existing grant in a transaction of its own.
THEOREM OneGrantEach == Spec => []TwoGrantsOnlyByOverlap
<1>1. IInv => TwoGrantsOnlyByOverlap
  BY DEF IInv, SInv
<1> QED
  BY <1>1, Invariance, PTL

\* When RevokeShare has run its loop to the end, through failures of every other request and
\* with no failure of its own, only claims that had read the share before leave unrevoked
\* grants: the loop lists the grants after the share is revoked.
THEOREM RevocationReaches == Spec => []RevokedShareKeepsLateGrantsOnly
<1>1. IInv => RevokedShareKeepsLateGrantsOnly
  <2> SUFFICES ASSUME IInv, NEW s \in DOMAIN shares \ hist.halted, shares[s].revoked,
                      InFlight({"list", "each"}, s, "none") = {}, NEW g \in Active(s)
               PROVE  <<s, grants[g].user>> \in hist.late
    BY DEF RevokedShareKeepsLateGrantsOnly
  <2>1. \A c \in Calls : ~Reaches(call[c], s, g)
    BY DEF IInv, SInv, SCall, Revokes, Reaches, InFlight
  <2> QED
    BY <2>1 DEF IInv, SInv, RevokedOK
<1> QED
  BY <1>1, Invariance, PTL

\* The ordinals of the versions are 1, 2, ... without a gap or a repetition, however many
\* publish at once, until a delete drops versions: NextOrdinal reads in another transaction
\* than Versions.Insert, whose unique index then refuses all but the next ordinal.
THEOREM OrdinalsStayDense == Spec => []OrdinalsDense
<1>1. IInv => OrdinalsDense
  <2> SUFFICES ASSUME IInv, ~hist.dropped PROVE Ordinals = 1..Cardinality(DOMAIN vers)
    BY DEF OrdinalsDense
  <2>1. DOMAIN vers = 1..ctr.ver /\ Ordinals = 1..ctr.ver /\ ctr.ver \in Nat
    BY DEF IInv, VInv, VersOK, TypeOK
  <2>2. Cardinality(1..ctr.ver) = ctr.ver
    <3>1. 1 \in Int /\ ctr.ver \in Int
      BY <2>1
    <3>2. Cardinality(1..ctr.ver) = IF 1 > ctr.ver THEN 0 ELSE ctr.ver - 1 + 1
      BY <3>1, FS_Interval
    <3> QED
      BY <2>1, <3>2
  <2> QED
    BY <2>1, <2>2
<1> QED
  BY <1>1, Invariance, PTL

\* Only SetPDFSHA256 changes a hash that is set, and it finds one set only on a version that
\* two requests rendered at once: GetReportVersionPdf renders between its read and its write.
THEOREM HashKept == Spec => PDFHashKept
<1> DEFINE A == \A v \in DOMAIN vers \cap DOMAIN vers' :
                   vers[v].pdf # 0 /\ vers'[v].pdf # vers[v].pdf => v \in hist.printed
<1>1. IInv /\ [Next]_vars => [A]_vars
  <2> SUFFICES ASSUME IInv, Next, NEW v \in DOMAIN vers \cap DOMAIN vers',
                      vers[v].pdf # 0, vers'[v].pdf # vers[v].pdf
               PROVE  v \in hist.printed
    OBVIOUS
  <2>1. PICK c \in Calls : Insert(c) \/ SetPDFSHA256(c) \/ DeleteVersions(c)
    BY DEF Next, ReplaceBlocks, Publish, NextOrdinal, RenderPDF, CreateShare, InsertShare, RevokeShare,
       ClaimShare, Existing, ClaimInsert, Revoke, ListByShare, RevokeEach, Delete, DeleteGrants,
       DeleteShares, DeleteBlocks, DeleteRow, Fail, Expire, RevokeGrant, tables
  <2>2. ~DeleteVersions(c)
    BY DEF DeleteVersions
  <2>3. CASE Insert(c)
    <3>1. v # ctr.ver + 1
      BY DEF IInv, VInv, VersOK, TypeOK
    <3> QED
      BY <2>3, <3>1 DEF Insert, Put
  <2>4. CASE SetPDFSHA256(c)
    <3>1. v = call[c].id
      BY <2>4 DEF SetPDFSHA256, IInv, TypeOK, IsTable
    <3> QED
      BY <2>4, <3>1 DEF SetPDFSHA256, At, IInv, VInv, VCall
  <2> QED
    BY <2>1, <2>2, <2>3, <2>4
<1>2. Spec => [][A]_vars
  BY <1>1, Invariance, PTL DEF Spec
<1> QED
  BY <1>2 DEF PDFHashKept
=============================================================================
