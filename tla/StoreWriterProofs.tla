-------------------------- MODULE StoreWriterProofs --------------------------
(***************************************************************************)
(* Proofs about StoreWriter, for any number of Write calls and readers and *)
(* any pool of two connections or more.                                    *)
(***************************************************************************)
EXTENDS StoreWriter, FeedState, FiniteSetTheorems, TLAPS

\* Calls whose context was done before BeginTx never get a transaction, and
\* only calls past the commit are in the history.
LateInv ==
    /\ late \subseteq cancelled
    /\ \A w \in late : pc[w] \notin {"tx", "commit", "flush", "publish"}
    /\ \A w \in late : ~InHistory(w)
    /\ \A w \in Writes :
          pc[w] \in {"start", "select", "recheck", "checkout", "begin", "tx", "commit"} =>
              ~InHistory(w)

IInv == TypeOK /\ OneWriter /\ NoConnLeak /\ LateInv

-----------------------------------------------------------------------------
(* Sequences. *)

LEMMA EmptySeqType == ASSUME NEW S PROVE << >> \in Seq(S)
OBVIOUS

\* The elements of Append(s, x) are those of s, and x.
LEMMA AppendElements ==
    ASSUME NEW S, NEW s \in Seq(S), NEW x \in S, NEW v
    PROVE  /\ Append(s, x) \in Seq(S)
           /\ (\E i \in 1..Len(Append(s, x)) : Append(s, x)[i] = v) <=>
                  v = x \/ \E i \in 1..Len(s) : s[i] = v
<1>1. /\ Append(s, x) \in Seq(S)
      /\ Len(Append(s, x)) = Len(s) + 1
      /\ Append(s, x)[Len(s) + 1] = x
      /\ \A i \in 1..Len(s) : Append(s, x)[i] = s[i]
      /\ Len(s) \in Nat
  OBVIOUS
<1> QED
  BY <1>1

-----------------------------------------------------------------------------
(* Moving one call's program counter. *)

LEMMA ConnHoldersMove ==
    ASSUME TypeOK, NEW w \in Writes, NEW l \in PCs, Goto(w, l)
    PROVE  ConnHolders' = IF l \in ConnPCs THEN ConnHolders \cup {w} ELSE ConnHolders \ {w}
BY DEF TypeOK, Goto, ConnHolders

LEMMA HoldersMove ==
    ASSUME TypeOK, NEW w \in Writes, NEW l \in PCs, Goto(w, l)
    PROVE  Holders' = IF l \in LockPCs THEN Holders \cup {w} ELSE Holders \ {w}
BY DEF TypeOK, Goto, Holders

LEMMA FiniteHolders ==
    ASSUME TypeOK
    PROVE  /\ IsFiniteSet(ConnHolders) /\ IsFiniteSet(reading)
           /\ Cardinality(ConnHolders) \in Nat /\ Cardinality(reading) \in Nat
<1>1. ConnHolders \subseteq Writes /\ reading \subseteq Readers
  BY DEF TypeOK, ConnHolders
<1>2. IsFiniteSet(ConnHolders) /\ IsFiniteSet(reading)
  BY <1>1, FiniteAssumption, FS_Subset
<1> QED
  BY <1>2, FS_CardinalityType

LEMMA ConnHoldersCard ==
    ASSUME TypeOK, NEW w \in Writes, NEW l \in PCs, Goto(w, l)
    PROVE  /\ pc[w] \in ConnPCs /\ l \in ConnPCs =>
                Cardinality(ConnHolders') = Cardinality(ConnHolders)
           /\ pc[w] \notin ConnPCs /\ l \notin ConnPCs =>
                Cardinality(ConnHolders') = Cardinality(ConnHolders)
           /\ pc[w] \notin ConnPCs /\ l \in ConnPCs =>
                Cardinality(ConnHolders') = Cardinality(ConnHolders) + 1
           /\ pc[w] \in ConnPCs /\ l \notin ConnPCs =>
                /\ Cardinality(ConnHolders') = Cardinality(ConnHolders) - 1
                /\ Cardinality(ConnHolders) > 0
<1>1. w \in ConnHolders <=> pc[w] \in ConnPCs
  BY DEF ConnHolders
<1>2. /\ IsFiniteSet(ConnHolders) /\ Cardinality(ConnHolders) \in Nat
  BY FiniteHolders
<1>3. ConnHolders' = IF l \in ConnPCs THEN ConnHolders \cup {w} ELSE ConnHolders \ {w}
  BY ConnHoldersMove
<1>4. w \in ConnHolders => Cardinality(ConnHolders) # 0
  BY <1>2, FS_EmptySet
<1>5. Cardinality(ConnHolders \cup {w}) =
          IF w \in ConnHolders THEN Cardinality(ConnHolders) ELSE Cardinality(ConnHolders) + 1
  BY <1>2, FS_AddElement
<1>6. Cardinality(ConnHolders \ {w}) =
          IF w \in ConnHolders THEN Cardinality(ConnHolders) - 1 ELSE Cardinality(ConnHolders)
  BY <1>2, FS_RemoveElement
<1> QED
  BY <1>1, <1>2, <1>3, <1>4, <1>5, <1>6

-----------------------------------------------------------------------------
(* The three shapes of step: a call moves its pc; the parts of the invariant
   that depend on pc follow from where it moves.                            *)

\* A move that keeps the lock as it is and takes or returns no connection.
LEMMA QuietMove ==
    ASSUME IInv, NEW w \in Writes, NEW l \in PCs, Goto(w, l),
           pc[w] \in LockPCs <=> l \in LockPCs,
           pc[w] \in ConnPCs <=> l \in ConnPCs,
           UNCHANGED <<slot, closer, conns, reading>>
    PROVE  OneWriter' /\ NoConnLeak'
<1> USE DEF IInv
<1>1. Holders' = Holders
  BY HoldersMove DEF Holders
<1>2. Cardinality(ConnHolders') = Cardinality(ConnHolders)
  BY ConnHoldersCard
<1>3. OneWriter'
  BY <1>1 DEF OneWriter
<1>4. NoConnLeak'
  BY <1>2 DEF NoConnLeak
<1> QED
  BY <1>3, <1>4

\* A move that gives the lock back, and with it a connection if it had one.
LEMMA ReleaseMove ==
    ASSUME IInv, NEW w \in Writes, Goto(w, "returned"), pc[w] \in LockPCs,
           slot' = FALSE, UNCHANGED <<closer, reading>>,
           conns' = IF pc[w] \in ConnPCs THEN conns - 1 ELSE conns
    PROVE  OneWriter' /\ NoConnLeak' /\ conns' \in Nat
<1> USE DEF IInv
<1>1. "returned" \in PCs /\ "returned" \notin LockPCs /\ "returned" \notin ConnPCs
  BY DEF PCs, LockPCs, ConnPCs
<1>2. w \in Holders
  BY DEF Holders
<1>3. Holders' = Holders \ {w}
  BY <1>1, HoldersMove
<1>4. Holders' = {} /\ closer' # "closed"
  BY <1>2, <1>3 DEF OneWriter
<1>5. OneWriter'
  BY <1>4 DEF OneWriter
<1>6. Cardinality(ConnHolders) \in Nat /\ Cardinality(reading) \in Nat
  BY FiniteHolders
<1>7. NoConnLeak' /\ conns' \in Nat
  <2>1. CASE pc[w] \in ConnPCs
    BY <1>1, <1>6, <2>1, ConnHoldersCard DEF NoConnLeak
  <2>2. CASE pc[w] \notin ConnPCs
    BY <1>1, <1>6, <2>2, ConnHoldersCard DEF NoConnLeak, TypeOK
  <2> QED
    BY <2>1, <2>2
<1> QED
  BY <1>5, <1>7

-----------------------------------------------------------------------------
(* IInv is inductive. *)

LEMMA InitIInv == Init => IInv
<1> SUFFICES ASSUME Init PROVE IInv
  OBVIOUS
<1>1. TypeOK
  <2>1. << >> \in Seq(Writes)
    OBVIOUS
  <2>2. batch \in [Writes -> Seq(Writes)] /\ recorded \in [Writes -> 0..MaxRecords]
    BY <2>1, RecordsAssumption DEF Init
  <2> QED
    BY <2>1, <2>2 DEF Init, TypeOK, PCs, Outcomes
<1>2. Holders = {} /\ ConnHolders = {}
  BY DEF Init, Holders, ConnHolders, LockPCs, ConnPCs
<1>3. OneWriter
  BY <1>2 DEF Init, OneWriter
<1>4. NoConnLeak
  BY <1>2, FS_EmptySet DEF Init, NoConnLeak
<1>5. LateInv
  BY DEF Init, LateInv, InHistory
<1> QED
  BY <1>1, <1>3, <1>4, <1>5 DEF IInv

\* Every step of a Write call preserves IInv.
LEMMA WriteIInv ==
    ASSUME IInv, NEW w \in Writes, Write(w)
    PROVE  IInv'
<1> USE DEF IInv, PCs, LockPCs, ConnPCs, Outcomes
<1>1. CASE Enter(w) \/ SelectLeaves(w)
  <2>1. TypeOK' /\ LateInv'
    BY <1>1 DEF Enter, SelectLeaves, Refuse, Goto, TypeOK, LateInv, InHistory
  <2>2. \E l \in {"select", "returned"} : Goto(w, l)
    BY <1>1 DEF Enter, SelectLeaves, Refuse
  <2>3. OneWriter' /\ NoConnLeak'
    BY <1>1, <2>2, QuietMove DEF Enter, SelectLeaves, Refuse
  <2> QED
    BY <2>1, <2>3
<1>2. CASE TakeSlot(w)
  <2>1. TypeOK' /\ LateInv'
    BY <1>2 DEF TakeSlot, Goto, TypeOK, LateInv, InHistory
  <2>2. Holders' = Holders \cup {w}
    BY <1>2, HoldersMove DEF TakeSlot
  <2>3. Holders = {} /\ closer # "closed"
    BY <1>2 DEF TakeSlot, OneWriter
  <2>4. OneWriter'
    BY <1>2, <2>2, <2>3 DEF TakeSlot, OneWriter
  <2>5. Cardinality(ConnHolders') = Cardinality(ConnHolders)
    BY <1>2, ConnHoldersCard DEF TakeSlot
  <2>6. NoConnLeak'
    BY <1>2, <2>5 DEF TakeSlot, NoConnLeak
  <2> QED
    BY <2>1, <2>4, <2>6
<1>3. CASE Recheck(w)
  <2>1. TypeOK' /\ LateInv'
    BY <1>3 DEF Recheck, Goto, TypeOK, LateInv, InHistory
  <2>2. OneWriter' /\ NoConnLeak'
    <3>1. CASE w \in cancelled
      BY <1>3, <3>1, ReleaseMove DEF Recheck
    <3>2. CASE w \notin cancelled
      BY <1>3, <3>2, QuietMove DEF Recheck
    <3> QED
      BY <3>1, <3>2
  <2> QED
    BY <2>1, <2>2
<1>4. CASE Checkout(w)
  <2>1. TypeOK' /\ LateInv'
    BY <1>4 DEF Checkout, Goto, TypeOK, LateInv, InHistory
  <2>2. Holders' = Holders
    BY <1>4, HoldersMove DEF Checkout, Holders
  <2>3. OneWriter'
    BY <1>4, <2>2 DEF Checkout, OneWriter
  <2>4. Cardinality(ConnHolders') = Cardinality(ConnHolders) + 1
    BY <1>4, ConnHoldersCard DEF Checkout
  <2>5. NoConnLeak'
    BY <1>4, <2>4, FiniteHolders DEF Checkout, NoConnLeak
  <2> QED
    BY <2>1, <2>3, <2>5
<1>5. CASE CheckoutFails(w)
  <2>1. TypeOK' /\ LateInv'
    BY <1>5 DEF CheckoutFails, Goto, TypeOK, LateInv, InHistory
  <2>2. OneWriter' /\ NoConnLeak'
    BY <1>5, ReleaseMove DEF CheckoutFails
  <2> QED
    BY <2>1, <2>2
<1>6. CASE Begin(w)
  <2>1. TypeOK' /\ LateInv'
    BY <1>6 DEF Begin, Leave, TxLive, Goto, TypeOK, LateInv, InHistory
  <2>2. \E l \in {"tx", "release"} : Goto(w, l)
    BY <1>6 DEF Begin, Leave
  <2>3. OneWriter' /\ NoConnLeak'
    BY <1>6, <2>2, QuietMove DEF Begin
  <2> QED
    BY <2>1, <2>3
<1>7. CASE Record(w) \/ RunCallback(w)
  <2>1. TypeOK'
    <3>1. CASE Record(w)
      <4>1. queue' \in Seq(Writes)
        BY <3>1, AppendElements DEF Record, TypeOK
      <4>2. recorded' \in [Writes -> 0..MaxRecords]
        BY <3>1, RecordsAssumption DEF Record, TypeOK
      <4> QED
        BY <3>1, <4>1, <4>2 DEF Record, TypeOK
    <3>2. CASE RunCallback(w)
      <4>1. Head(batch[w]) \in Writes /\ Tail(batch[w]) \in Seq(Writes)
        BY <3>2 DEF RunCallback, TypeOK
      <4>2. batch' \in [Writes -> Seq(Writes)] /\ published' \in Seq(Writes)
        BY <3>2, <4>1 DEF RunCallback, TypeOK
      <4> QED
        BY <3>2, <4>2 DEF RunCallback, TypeOK
    <3> QED
      BY <1>7, <3>1, <3>2
  <2>2. LateInv' /\ OneWriter' /\ NoConnLeak'
    BY <1>7 DEF Record, RunCallback, LateInv, InHistory, OneWriter, NoConnLeak,
       Holders, ConnHolders
  <2> QED
    BY <2>1, <2>2
<1>8. CASE FnFails(w) \/ FnPanics(w) \/ FnReturns(w) \/ CommitFails(w)
  <2>0. queue' \in Seq(Writes)
    BY <1>8, EmptySeqType DEF FnFails, FnPanics, FnReturns, CommitFails, TypeOK
  <2>1. TypeOK'
    BY <1>8, <2>0 DEF FnFails, FnPanics, FnReturns, CommitFails, Leave, Goto, TypeOK
  <2>4. LateInv'
    BY <1>8 DEF FnFails, FnPanics, FnReturns, CommitFails, Leave, Goto, TypeOK,
       LateInv, InHistory
  <2>2. \E l \in {"commit", "release"} : Goto(w, l)
    BY <1>8 DEF FnFails, FnPanics, FnReturns, CommitFails, Leave
  <2>3. OneWriter' /\ NoConnLeak'
    BY <1>8, <2>2, QuietMove DEF FnFails, FnPanics, FnReturns, CommitFails
  <2> QED
    BY <2>1, <2>3, <2>4
<1>9. CASE Commit(w)
  <2>1. TypeOK'
    BY <1>9 DEF Commit, Goto, TypeOK
  <2>0. \A v : InHistory(v)' <=> (v = w \/ InHistory(v))
    <3>1. history \in Seq(Writes) /\ history' = Append(history, w)
      BY <1>9 DEF Commit, TypeOK
    <3>2. ASSUME NEW v PROVE InHistory(v)' <=> (v = w \/ InHistory(v))
      <4> DEFINE app == Append(history, w)
      <4>1. (\E i \in 1..Len(app) : app[i] = v) <=>
                v = w \/ \E i \in 1..Len(history) : history[i] = v
        BY <3>1, AppendElements
      <4> QED
        BY <3>1, <4>1, Zenon DEF InHistory
    <3> QED
      BY <3>2
  <2>2. w \notin late
    BY <1>9 DEF Commit, LateInv
  <2>3. LateInv'
    <3>1. \A v \in late : ~InHistory(v)'
      BY <1>9, <2>0, <2>2 DEF Commit, LateInv
    <3>2. \A v \in late : pc'[v] \notin {"tx", "commit", "flush", "publish"}
      BY <1>9, <2>2 DEF Commit, Goto, TypeOK, LateInv
    <3>3. \A v \in Writes :
             pc'[v] \in {"start", "select", "recheck", "checkout", "begin", "tx", "commit"} =>
                 ~InHistory(v)'
      BY <1>9, <2>0 DEF Commit, Goto, TypeOK, LateInv
    <3> QED
      BY <1>9, <3>1, <3>2, <3>3 DEF Commit, LateInv
  <2>4. OneWriter' /\ NoConnLeak'
    BY <1>9, QuietMove DEF Commit
  <2> QED
    BY <2>1, <2>3, <2>4
<1>10. CASE Flush(w) \/ Finish(w)
  <2>1. LateInv'
    BY <1>10 DEF Flush, Finish, Leave, Goto, TypeOK, LateInv, InHistory
  <2>0. queue' \in Seq(Writes) /\ batch' \in [Writes -> Seq(Writes)]
    BY <1>10, EmptySeqType DEF Flush, Finish, TypeOK
  <2>4. TypeOK'
    BY <1>10, <2>0 DEF Flush, Finish, Leave, Goto, TypeOK
  <2>2. \E l \in {"publish", "release"} : Goto(w, l)
    BY <1>10 DEF Flush, Finish, Leave
  <2>3. OneWriter' /\ NoConnLeak'
    BY <1>10, <2>2, QuietMove DEF Flush, Finish
  <2> QED
    BY <2>1, <2>3, <2>4
<1>11. CASE Release(w)
  <2>1. OneWriter' /\ NoConnLeak' /\ conns' \in Nat
    BY <1>11, ReleaseMove DEF Release
  <2>2. TypeOK' /\ LateInv'
    BY <1>11, <2>1 DEF Release, Goto, TypeOK, LateInv, InHistory
  <2> QED
    BY <2>1, <2>2
<1> QED
  BY <1>1, <1>2, <1>3, <1>4, <1>5, <1>6, <1>7, <1>8, <1>9, <1>10, <1>11 DEF Write

\* So does every step of a caller's context, of Close and of a reader.
LEMMA EnvironmentIInv ==
    ASSUME IInv, \/ \E w \in Writes : CancelCtx(w)
                 \/ Close
                 \/ \E r \in Readers : ReaderStarts(r) \/ ReaderEnds(r)
    PROVE  IInv'
<1> USE DEF IInv
<1>1. ASSUME NEW w \in Writes, CancelCtx(w) PROVE IInv'
  <2>1. TypeOK'
    BY <1>1 DEF CancelCtx, TypeOK
  <2>2. OneWriter' /\ NoConnLeak'
    BY <1>1 DEF CancelCtx, OneWriter, NoConnLeak, Holders, ConnHolders
  <2>3. pc[w] \in {"start", "select", "recheck", "checkout", "begin"} => ~InHistory(w)
    BY <1>1 DEF LateInv
  <2>4. LateInv'
    BY <1>1, <2>3 DEF CancelCtx, LateInv, InHistory, TypeOK
  <2> QED
    BY <2>1, <2>2, <2>4
<1>2. ASSUME Close PROVE IInv'
  <2>1. TypeOK' /\ LateInv'
    BY <1>2 DEF Close, CloseBegins, CloseTakesSlot, TypeOK, LateInv, InHistory
  <2>2. OneWriter' /\ NoConnLeak'
    BY <1>2 DEF Close, CloseBegins, CloseTakesSlot, OneWriter, NoConnLeak, Holders,
       ConnHolders
  <2> QED
    BY <2>1, <2>2
<1>3. ASSUME NEW r \in Readers, ReaderStarts(r) \/ ReaderEnds(r) PROVE IInv'
  <2>1. /\ IsFiniteSet(reading) /\ Cardinality(reading) \in Nat
        /\ Cardinality(ConnHolders) \in Nat
    BY FiniteHolders
  <2>2. ReaderStarts(r) => Cardinality(reading') = Cardinality(reading) + 1
    BY <2>1, FS_AddElement DEF ReaderStarts
  <2>3. ReaderEnds(r) => /\ Cardinality(reading') = Cardinality(reading) - 1
                         /\ Cardinality(reading) > 0
    BY <2>1, FS_RemoveElement, FS_EmptySet DEF ReaderEnds
  <2>4. ConnHolders' = ConnHolders /\ Holders' = Holders
    BY <1>3 DEF ReaderStarts, ReaderEnds, ConnHolders, Holders
  <2>5. NoConnLeak' /\ conns' \in Nat
    BY <1>3, <2>1, <2>2, <2>3, <2>4 DEF ReaderStarts, ReaderEnds, NoConnLeak
  <2>6. OneWriter'
    BY <1>3, <2>4 DEF ReaderStarts, ReaderEnds, OneWriter
  <2>7. TypeOK' /\ LateInv'
    BY <1>3, <2>5 DEF ReaderStarts, ReaderEnds, TypeOK, LateInv, InHistory
  <2> QED
    BY <2>5, <2>6, <2>7
<1> QED
  BY <1>1, <1>2, <1>3

THEOREM Invariance == Spec => []IInv
<1>1. ASSUME IInv, [Next]_vars PROVE IInv'
  <2>1. CASE Next
    BY <1>1, <2>1, WriteIInv, EnvironmentIInv DEF Next
  <2>2. CASE UNCHANGED vars
    BY <1>1, <2>2 DEF vars, IInv, TypeOK, OneWriter, NoConnLeak, LateInv, InHistory,
       Holders, ConnHolders
  <2> QED
    BY <1>1, <2>1, <2>2
<1> QED
  BY <1>1, InitIInv, PTL DEF Spec

\* DB.Write runs one caller at a time, whatever fails or is cancelled: no exit
\* of acquireWrite, Write or Close leaks the lock, releases it twice or lets a
\* second caller in.
THEOREM WriterExclusion == Spec => []OneWriter
<1>1. IInv => OneWriter
  BY DEF IInv
<1> QED
  BY <1>1, Invariance, PTL

\* No exit of DB.Write leaks a pooled connection.
THEOREM ConnectionsAccounted == Spec => []NoConnLeak
<1>1. IInv => NoConnLeak
  BY DEF IInv
<1> QED
  BY <1>1, Invariance, PTL

\* A call whose context was done before its transaction began commits nothing.
THEOREM CancelledWritesApplyNothing == Spec => []CancelledAppliesNothing
<1>1. IInv => CancelledAppliesNothing
  BY DEF IInv, LateInv, CancelledAppliesNothing
<1> QED
  BY <1>1, Invariance, PTL

\* The variables keep their types.
THEOREM TypeCorrect == Spec => []TypeOK
<1>1. IInv => TypeOK
  BY DEF IInv
<1> QED
  BY <1>1, Invariance, PTL

\* Once Close has the lock nothing commits and nothing is published.
THEOREM CloseIsQuiet == Spec => QuietAfterClose
<1>1. ASSUME IInv, [Next]_vars
      PROVE  [closer = "closed" => history' = history /\ published' = published]_vars
  <2>1. ASSUME closer = "closed", NEW w \in Writes, Write(w)
        PROVE  history' = history /\ published' = published
    <3>1. pc[w] \notin LockPCs
      BY <1>1, <2>1 DEF IInv, OneWriter, Holders
    <3>2. ~Commit(w) /\ ~RunCallback(w)
      BY <3>1 DEF Commit, RunCallback, LockPCs
    <3> QED
      BY <2>1, <3>2 DEF Write, Enter, Refuse, TakeSlot, SelectLeaves, Recheck, Checkout,
         CheckoutFails, Begin, Record, FnFails, FnPanics, FnReturns, CommitFails, Flush,
         Finish, Release
  <2>2. ASSUME \/ \E w \in Writes : CancelCtx(w)
               \/ Close
               \/ \E r \in Readers : ReaderStarts(r) \/ ReaderEnds(r)
        PROVE  history' = history /\ published' = published
    BY <2>2 DEF CancelCtx, Close, CloseBegins, CloseTakesSlot, ReaderStarts, ReaderEnds
  <2> QED
    BY <1>1, <2>1, <2>2 DEF Next, vars
<1> QED
  BY <1>1, Invariance, PTL DEF Spec, QuietAfterClose

-----------------------------------------------------------------------------
(* What a call returns agrees with what it did; the refinement. *)

\* A call has returned nothing before "release", it is in the history from its
\* commit on, and from "release" on it returns nil exactly when it is.
Settled(l, o, applied) ==
    /\ l \in {"flush", "publish"} => o = "none" /\ applied
    /\ l \in {"release", "returned"} => o # "none" /\ (applied <=> o = "ok")
    /\ l \notin {"flush", "publish", "release", "returned"} => o = "none" /\ ~applied

OutcomeInv == \A w \in Writes : Settled(pc[w], outcome[w], InHistory(w))

\* A call that moves to l with outcome o and leaves the others alone.
LEMMA OutcomeMove ==
    ASSUME TypeOK, OutcomeInv, NEW w \in Writes, NEW l \in PCs, NEW o \in Outcomes,
           Goto(w, l), outcome' = [outcome EXCEPT ![w] = o],
           \A v \in Writes : v # w => (InHistory(v)' <=> InHistory(v)),
           Settled(l, o, InHistory(w)')
    PROVE  OutcomeInv'
<1> SUFFICES ASSUME NEW v \in Writes PROVE Settled(pc'[v], outcome'[v], InHistory(v)')
  BY DEF OutcomeInv
<1>1. CASE v = w
  <2>1. pc'[v] = l /\ outcome'[v] = o
    BY <1>1 DEF Goto, TypeOK
  <2> QED
    BY <1>1, <2>1
<1>2. CASE v # w
  <2>1. pc'[v] = pc[v] /\ outcome'[v] = outcome[v] /\ (InHistory(v)' <=> InHistory(v))
    BY <1>2 DEF Goto, TypeOK
  <2> QED
    BY <2>1 DEF OutcomeInv, Settled
<1> QED
  BY <1>1, <1>2

\* A commit adds its own call to the history and nothing else.
LEMMA CommitExtends ==
    ASSUME TypeOK, NEW w \in Writes, Commit(w)
    PROVE  /\ \A v \in Writes : InHistory(v)' <=> (v = w \/ InHistory(v))
           /\ Len(history') = Len(history) + 1
           /\ history'[Len(history) + 1] = w
           /\ \A i \in 1..Len(history) : history'[i] = history[i]
<1>1. history \in Seq(Writes) /\ history' = Append(history, w)
  BY DEF Commit, TypeOK
<1> DEFINE app == Append(history, w)
<1>2. ASSUME NEW v \in Writes PROVE InHistory(v)' <=> (v = w \/ InHistory(v))
  <2>1. (\E i \in 1..Len(app) : app[i] = v) <=>
            v = w \/ \E i \in 1..Len(history) : history[i] = v
    BY <1>1, AppendElements
  <2> QED
    BY <1>1, <2>1, Zenon DEF InHistory
<1>3. /\ Len(app) = Len(history) + 1 /\ app[Len(history) + 1] = w
      /\ \A i \in 1..Len(history) : app[i] = history[i]
  BY <1>1
<1> QED
  BY <1>1, <1>2, <1>3

LEMMA OutcomeStep ==
    ASSUME IInv, OutcomeInv, [Next]_vars
    PROVE  OutcomeInv'
<1> USE DEF IInv, PCs, Outcomes
<1>1. ASSUME NEW w \in Writes, Write(w) PROVE OutcomeInv'
  <2>0. Settled(pc[w], outcome[w], InHistory(w))
    BY DEF OutcomeInv
  <2>1. CASE Enter(w) \/ SelectLeaves(w) \/ Recheck(w) \/ CheckoutFails(w) \/ TakeSlot(w) \/ Checkout(w)
    <3>1. history' = history
      BY <2>1 DEF Enter, SelectLeaves, Refuse, Recheck, CheckoutFails, TakeSlot, Checkout
    <3>2. PICK l \in {"select", "recheck", "checkout", "begin", "returned"},
               o \in Outcomes \ {"ok"} :
             /\ Goto(w, l) /\ outcome' = [outcome EXCEPT ![w] = o]
             /\ o = "none" <=> l # "returned"
      <4>1. outcome[w] = "none" /\ outcome = [outcome EXCEPT ![w] = "none"]
        BY <2>0, <2>1 DEF Settled, TypeOK, Enter, SelectLeaves, Recheck, CheckoutFails, TakeSlot, Checkout
      <4>2. \/ \E l \in {"select", "recheck", "checkout", "begin"} : Goto(w, l) /\ outcome' = outcome
            \/ \E o \in {"ctxErr", "errClosed", "connErr"} :
                  Goto(w, "returned") /\ outcome' = [outcome EXCEPT ![w] = o]
        BY <2>1, Zenon DEF Enter, SelectLeaves, Refuse, Recheck, CheckoutFails, TakeSlot, Checkout
      <4> QED
        BY <4>1, <4>2
    <3>3. ~InHistory(w) /\ \A v \in Writes : InHistory(v)' <=> InHistory(v)
      BY <2>0, <2>1, <3>1 DEF Settled, Enter, SelectLeaves, Recheck, CheckoutFails, TakeSlot, Checkout, InHistory
    <3>4. Settled(l, o, InHistory(w)')
      BY <3>2, <3>3 DEF Settled
    <3> QED
      BY <3>2, <3>3, <3>4, OutcomeMove
  <2>2. CASE Begin(w) \/ FnFails(w) \/ FnPanics(w) \/ FnReturns(w) \/ CommitFails(w)
    <3>1. history' = history
      BY <2>2 DEF Begin, FnFails, FnPanics, FnReturns, CommitFails
    <3>2. PICK l \in {"tx", "commit", "release"}, o \in Outcomes \ {"ok"} :
             /\ Goto(w, l) /\ outcome' = [outcome EXCEPT ![w] = o]
             /\ o = "none" <=> l # "release"
      <4>1. outcome[w] = "none" /\ outcome = [outcome EXCEPT ![w] = "none"]
        BY <2>0, <2>2 DEF Settled, TypeOK, Begin, FnFails, FnPanics, FnReturns, CommitFails
      <4>2. \/ \E l \in {"tx", "commit"} : Goto(w, l) /\ outcome' = outcome
            \/ \E o \in {"connErr", "fnErr", "rollbackErr", "panic", "commitErr"} :
                  Goto(w, "release") /\ outcome' = [outcome EXCEPT ![w] = o]
        BY <2>2, Zenon DEF Begin, FnFails, FnPanics, FnReturns, CommitFails, Leave
      <4> QED
        BY <4>1, <4>2
    <3>3. ~InHistory(w) /\ \A v \in Writes : InHistory(v)' <=> InHistory(v)
      BY <2>0, <2>2, <3>1 DEF Settled, Begin, FnFails, FnPanics, FnReturns, CommitFails, InHistory
    <3>4. Settled(l, o, InHistory(w)')
      BY <3>2, <3>3 DEF Settled
    <3> QED
      BY <3>2, <3>3, <3>4, OutcomeMove
  <2>3. CASE Commit(w)
    <3>1. outcome[w] = "none" /\ outcome' = [outcome EXCEPT ![w] = "none"]
      BY <2>0, <2>3 DEF Settled, Commit, TypeOK
    <3>2. \A v \in Writes : InHistory(v)' <=> (v = w \/ InHistory(v))
      BY <2>3, CommitExtends
    <3>3. Settled("flush", "none", InHistory(w)')
      BY <3>2 DEF Settled
    <3> QED
      BY <2>3, <3>1, <3>2, <3>3, OutcomeMove DEF Commit
  <2>4. CASE Flush(w) \/ Finish(w) \/ Release(w)
    <3>1. \A v \in Writes : InHistory(v)' <=> InHistory(v)
      BY <2>4 DEF Flush, Finish, Release, InHistory
    <3>2. PICK l \in {"publish", "release", "returned"}, o \in Outcomes :
             /\ Goto(w, l) /\ outcome' = [outcome EXCEPT ![w] = o]
             /\ Settled(l, o, InHistory(w))
      <4>1. CASE Flush(w)
        <5>1. outcome' = [outcome EXCEPT ![w] = "none"] /\ Goto(w, "publish")
          BY <2>0, <4>1 DEF Settled, Flush, TypeOK
        <5> QED
          BY <2>0, <4>1, <5>1 DEF Settled, Flush
      <4>2. CASE Finish(w)
        BY <2>0, <4>2 DEF Settled, Finish, Leave
      <4>3. CASE Release(w)
        <5>1. outcome' = [outcome EXCEPT ![w] = outcome[w]] /\ Goto(w, "returned")
          BY <4>3 DEF Release, TypeOK
        <5> QED
          BY <2>0, <4>3, <5>1 DEF Settled, Release, TypeOK
      <4> QED
        BY <2>4, <4>1, <4>2, <4>3
    <3>3. Settled(l, o, InHistory(w)')
      BY <3>1, <3>2 DEF Settled
    <3> QED
      BY <3>1, <3>2, <3>3, OutcomeMove
  <2>5. CASE Record(w) \/ RunCallback(w)
    BY <2>5 DEF Record, RunCallback, OutcomeInv, InHistory
  <2> QED
    BY <1>1, <2>1, <2>2, <2>3, <2>4, <2>5 DEF Write
<1>2. ASSUME \/ \E w \in Writes : CancelCtx(w)
             \/ Close
             \/ \E r \in Readers : ReaderStarts(r) \/ ReaderEnds(r)
             \/ UNCHANGED vars
      PROVE  OutcomeInv'
  BY <1>2 DEF CancelCtx, Close, CloseBegins, CloseTakesSlot, ReaderStarts, ReaderEnds,
     vars, OutcomeInv, InHistory
<1> QED
  BY <1>1, <1>2 DEF Next

THEOREM OutcomesAgree == Spec => []OutcomeInv
<1>1. Init => OutcomeInv
  BY DEF Init, OutcomeInv, Settled, InHistory
<1> QED
  BY <1>1, OutcomeStep, Invariance, PTL DEF Spec

\* Every step of StoreWriter is a step of WriteService, or changes nothing of
\* what WriteService promises.
LEMMA ServiceStep ==
    ASSUME IInv, OutcomeInv, [Next]_vars
    PROVE  [Service!Next]_(Service!sVars)
<1> USE DEF IInv
<1>0. \A w \in Writes : Service!Applied(w) <=> InHistory(w)
  BY DEF Service!Applied, InHistory
<1>1. ASSUME NEW w \in Writes, Write(w) PROVE [Service!Next]_(Service!sVars)
  <2>0. Settled(pc[w], outcome[w], InHistory(w))
    BY DEF OutcomeInv
  <2>1. CASE Commit(w)
    <3>1. closer # "closed"
      BY <2>1 DEF Commit, OneWriter, Holders, LockPCs
    <3>2. w \notin late
      BY <2>1 DEF Commit, LateInv
    <3>3. outcome[w] = "none" /\ ~InHistory(w)
      BY <2>0, <2>1 DEF Commit, Settled
    <3>4. Service!Apply(w)
      BY <1>0, <2>1, <3>1, <3>2, <3>3 DEF Commit, Service!Apply
    <3> QED
      BY <3>4 DEF Service!Next
  <2>2. ASSUME outcome' # outcome PROVE Service!Return(w)
    <3>1. /\ outcome[w] = "none" /\ UNCHANGED <<history, late, closer>>
          /\ \E o \in Outcomes \ {"none"} : /\ o = "ok" <=> InHistory(w)
                                            /\ outcome' = [outcome EXCEPT ![w] = o]
      BY <1>1, <2>0, <2>2 DEF Settled, Write, Enter, SelectLeaves, Refuse, TakeSlot, Recheck,
         Checkout, CheckoutFails, Begin, Record, FnFails, FnPanics, FnReturns, Commit,
         CommitFails, Flush, RunCallback, Finish, Release, Leave, Outcomes
    <3> QED
      BY <1>0, <3>1 DEF Service!Return, Outcomes
  <2>3. ASSUME outcome' = outcome, ~Commit(w) PROVE UNCHANGED Service!sVars
    BY <1>1, <2>3 DEF Write, Enter, SelectLeaves, Refuse, TakeSlot, Recheck,
       Checkout, CheckoutFails, Begin, Record, FnFails, FnPanics, FnReturns,
       CommitFails, Flush, RunCallback, Finish, Release, Service!sVars
  <2> QED
    BY <2>1, <2>2, <2>3 DEF Service!Next
<1>2. ASSUME NEW w \in Writes, CancelCtx(w) PROVE [Service!Next]_(Service!sVars)
  <2>1. CASE late' = late
    BY <1>2, <2>1 DEF CancelCtx, Service!sVars
  <2>2. CASE late' # late
    <3>1. ~InHistory(w) /\ late' = late \cup {w}
      BY <1>2, <2>2 DEF CancelCtx, LateInv
    <3>2. Service!GiveUp(w)
      BY <1>0, <1>2, <3>1 DEF CancelCtx, Service!GiveUp
    <3> QED
      BY <3>2 DEF Service!Next
  <2> QED
    BY <2>1, <2>2
<1>3. ASSUME CloseTakesSlot PROVE [Service!Next]_(Service!sVars)
  <2>1. \A w \in Writes : pc[w] \notin LockPCs
    BY <1>3 DEF CloseTakesSlot, OneWriter, Holders
  <2>2. \A w \in Writes : InHistory(w) => outcome[w] = "ok"
    BY <2>1 DEF OutcomeInv, Settled, LockPCs
  <2>3. Service!Close
    BY <1>0, <1>3, <2>2 DEF CloseTakesSlot, Service!Close
  <2> QED
    BY <2>3 DEF Service!Next
<1>4. ASSUME \/ CloseBegins
             \/ \E r \in Readers : ReaderStarts(r) \/ ReaderEnds(r)
             \/ UNCHANGED vars
      PROVE  UNCHANGED Service!sVars
  BY <1>4 DEF CloseBegins, ReaderStarts, ReaderEnds, vars, Service!sVars
<1> QED
  BY <1>1, <1>2, <1>3, <1>4 DEF Next, Close

\* The serialized writer implements what DB.Write and DB.Close promise: any
\* number of callers, readers, cancellations and failures only ever show as
\* writes applied in turn, each answered nil exactly when it was applied, and a
\* Close that cuts none in two.
THEOREM ImplementsService == Spec => KeepsPromise
<1>1. Init => Service!Init
  BY DEF Init, Service!Init
<1> QED
  BY <1>1, ServiceStep, Invariance, OutcomesAgree, PTL DEF Spec, KeepsPromise, Service!Spec

-----------------------------------------------------------------------------
(* The order of the fan-out. *)

Elem(v, s) == \E i \in 1..Len(s) : s[i] = v

Done == {"publish", "release", "returned"}

\* A queued event of a committed call belongs to the call about to flush, a
\* batched one to the call that holds the batch; whoever's event is batched or
\* published is past its commit; the call that flushes or publishes committed
\* last.
OrderInv ==
    /\ \A v \in Writes : Elem(v, queue) =>
          /\ pc[v] \in {"tx", "commit", "flush", "release", "returned"}
          /\ InHistory(v) => pc[v] = "flush"
    /\ \A w, v \in Writes : Elem(v, batch[w]) =>
          /\ pc[w] = "publish"
          /\ pc[v] \in Done
          /\ InHistory(v) => v = w
    /\ \A v \in Writes : Elem(v, published) => pc[v] \in Done
    /\ \A w \in Writes : pc[w] \in {"flush", "publish"} =>
          Len(history) > 0 /\ history[Len(history)] = w

LEMMA EmptyElem == ASSUME NEW v PROVE ~Elem(v, << >>)
BY DEF Elem

LEMMA AppendElem ==
    ASSUME NEW s \in Seq(Writes), NEW x \in Writes, NEW v
    PROVE  Elem(v, Append(s, x)) <=> v = x \/ Elem(v, s)
BY AppendElements DEF Elem

LEMMA HeadTailElem ==
    ASSUME NEW s \in Seq(Writes), s # << >>
    PROVE  /\ Head(s) \in Writes /\ Elem(Head(s), s)
           /\ \A v : Elem(v, Tail(s)) => Elem(v, s)
<1>1. Len(s) \in Nat /\ Len(s) > 0
  OBVIOUS
<1>2. Len(Tail(s)) = Len(s) - 1 /\ \A i \in 1..Len(Tail(s)) : Tail(s)[i] = s[i + 1]
  BY <1>1
<1>3. Head(s) = s[1] /\ s[1] \in Writes
  BY <1>1
<1>4. ASSUME NEW v, Elem(v, Tail(s)) PROVE Elem(v, s)
  <2>1. PICK i \in 1..Len(Tail(s)) : Tail(s)[i] = v
    BY <1>4 DEF Elem
  <2>2. i + 1 \in 1..Len(s) /\ s[i + 1] = v
    BY <1>1, <1>2, <2>1
  <2> QED
    BY <2>2 DEF Elem
<1> QED
  BY <1>1, <1>3, <1>4 DEF Elem

\* Two calls inside the lock are one call.
LEMMA OneHolder ==
    ASSUME OneWriter, NEW v \in Writes, NEW w \in Writes, pc[v] \in LockPCs, pc[w] \in LockPCs
    PROVE  v = w
BY DEF OneWriter, Holders

LEMMA OrderInvStep ==
    ASSUME IInv, OutcomeInv, OrderInv, [Next]_vars
    PROVE  OrderInv'
<1> USE DEF IInv, Done
<1>1. ASSUME NEW w \in Writes, Write(w) PROVE OrderInv'
  <2>0. Settled(pc[w], outcome[w], InHistory(w))
    BY DEF OutcomeInv
  <2>1. CASE \/ Enter(w) \/ TakeSlot(w) \/ SelectLeaves(w) \/ Recheck(w) \/ Checkout(w)
             \/ CheckoutFails(w) \/ Begin(w)
    <3>1. /\ UNCHANGED <<queue, batch, published, history>>
          /\ pc[w] \in {"start", "select", "recheck", "checkout", "begin"}
          /\ \E l \in {"select", "recheck", "checkout", "begin", "tx", "release", "returned"} : Goto(w, l)
      BY <2>1 DEF Enter, SelectLeaves, Refuse, Recheck, CheckoutFails, TakeSlot, Checkout,
         Begin, Leave
    <3>2. \A v \in Writes : InHistory(v)' <=> InHistory(v)
      BY <3>1 DEF InHistory
    <3>3. /\ \A v \in Writes \ {w} : pc'[v] = pc[v]
          /\ pc'[w] \in {"select", "recheck", "checkout", "begin", "tx", "release", "returned"}
      BY <3>1 DEF Goto, TypeOK
    <3>4. /\ ~Elem(w, queue) /\ ~Elem(w, published)
          /\ \A u \in Writes : ~Elem(w, batch[u]) /\ ~Elem(u, batch[w])
      BY <3>1 DEF OrderInv
    <3>5. \A v \in Writes : Elem(v, queue') =>
             /\ pc'[v] \in {"tx", "commit", "flush", "release", "returned"}
             /\ InHistory(v)' => pc'[v] = "flush"
      BY <3>1, <3>2, <3>3, <3>4 DEF OrderInv
    <3>6. \A u, v \in Writes : Elem(v, batch'[u]) =>
             pc'[u] = "publish" /\ pc'[v] \in Done /\ (InHistory(v)' => v = u)
      BY <3>1, <3>2, <3>3, <3>4 DEF OrderInv
    <3>7. \A v \in Writes : Elem(v, published') => pc'[v] \in Done
      BY <3>1, <3>3, <3>4 DEF OrderInv
    <3>8. \A v \in Writes : pc'[v] \in {"flush", "publish"} =>
             Len(history') > 0 /\ history'[Len(history')] = v
      BY <3>1, <3>3 DEF OrderInv
    <3> QED
      BY <3>5, <3>6, <3>7, <3>8 DEF OrderInv
  <2>2. CASE FnPanics(w) \/ FnReturns(w) \/ CommitFails(w) \/ FnFails(w)
    <3>1. /\ UNCHANGED <<batch, published, history>>
          /\ queue' = queue \/ queue' = << >>
          /\ pc[w] \in {"tx", "commit"}
          /\ \E l \in {"commit", "release"} : Goto(w, l)
      BY <2>2 DEF FnPanics, FnReturns, CommitFails, FnFails, Leave
    <3>2. ~InHistory(w)
      BY <2>0, <3>1 DEF Settled
    <3>3. \A v \in Writes : Elem(v, queue') => Elem(v, queue)
      BY <3>1, EmptyElem
    <3>4. \A v \in Writes : /\ InHistory(v)' <=> InHistory(v)
                            /\ v # w => pc'[v] = pc[v]
      BY <3>1 DEF Goto, TypeOK, InHistory
    <3>5. pc'[w] \in {"commit", "release"}
      BY <3>1 DEF Goto, TypeOK
    <3>6. \A v \in Writes : Elem(v, queue') =>
             /\ pc'[v] \in {"tx", "commit", "flush", "release", "returned"}
             /\ InHistory(v)' => pc'[v] = "flush"
      BY <3>2, <3>3, <3>4, <3>5 DEF OrderInv
    <3>7. \A u, v \in Writes : Elem(v, batch'[u]) =>
             pc'[u] = "publish" /\ pc'[v] \in Done /\ (InHistory(v)' => v = u)
      BY <3>1, <3>4 DEF OrderInv
    <3>8. \A v \in Writes : Elem(v, published') => pc'[v] \in Done
      BY <3>1, <3>4 DEF OrderInv
    <3>9. \A v \in Writes : pc'[v] \in {"flush", "publish"} =>
             Len(history') > 0 /\ history'[Len(history')] = v
      BY <3>1, <3>4, <3>5 DEF OrderInv
    <3> QED
      BY <3>6, <3>7, <3>8, <3>9 DEF OrderInv
  <2>3. CASE Record(w)
    <3>1. \A v \in Writes : Elem(v, queue') <=> v = w \/ Elem(v, queue)
      BY <2>3, AppendElem DEF Record, TypeOK
    <3>2. ~InHistory(w)
      BY <2>0, <2>3 DEF Settled, Record
    <3> QED
      BY <2>3, <3>1, <3>2 DEF OrderInv, Record, InHistory
  <2>4. CASE Commit(w)
    <3>1. /\ \A v \in Writes : InHistory(v)' <=> (v = w \/ InHistory(v))
          /\ Len(history') = Len(history) + 1
          /\ history'[Len(history) + 1] = w
      BY <2>4, CommitExtends
    <3>2. Len(history) \in Nat
      BY DEF TypeOK
    <3>3. pc' = [pc EXCEPT ![w] = "flush"] /\ pc[w] = "commit"
      BY <2>4 DEF Commit, Goto
    <3>4. \A v \in Writes : pc'[v] \in {"flush", "publish"} => v = w
      BY <3>3, OneHolder DEF TypeOK, LockPCs
    <3>5. \A v \in Writes : v # w => pc'[v] = pc[v]
      BY <3>3 DEF TypeOK
    <3>6. UNCHANGED <<queue, batch, published>> /\ pc'[w] = "flush"
      BY <2>4, <3>3 DEF Commit, TypeOK
    <3>7. \A u, v \in Writes : Elem(v, batch[u]) => v # w /\ u # w
      BY <3>3 DEF OrderInv
    <3>8. \A v \in Writes : Elem(v, published) => v # w
      BY <3>3 DEF OrderInv
    <3>9. \A v \in Writes : Elem(v, queue) =>
             /\ pc'[v] \in {"tx", "commit", "flush", "release", "returned"}
             /\ InHistory(v)' => pc'[v] = "flush"
      BY <3>1, <3>5, <3>6 DEF OrderInv
    <3>10. \A u, v \in Writes : Elem(v, batch[u]) =>
             pc'[u] = "publish" /\ pc'[v] \in Done /\ (InHistory(v)' => v = u)
      BY <3>1, <3>5, <3>7 DEF OrderInv
    <3>11. \A v \in Writes : Elem(v, published) => pc'[v] \in Done
      BY <3>5, <3>8 DEF OrderInv
    <3>12. \A v \in Writes : pc'[v] \in {"flush", "publish"} =>
             Len(history') > 0 /\ history'[Len(history')] = v
      BY <3>1, <3>2, <3>4
    <3> QED
      BY <3>6, <3>9, <3>10, <3>11, <3>12 DEF OrderInv
  <2>5. CASE Flush(w)
    <3>1. /\ pc[w] = "flush" /\ pc' = [pc EXCEPT ![w] = "publish"]
          /\ batch' = [batch EXCEPT ![w] = queue] /\ queue' = << >>
          /\ UNCHANGED <<published, history>>
      BY <2>5 DEF Flush, Goto
    <3>2. /\ pc'[w] = "publish" /\ batch'[w] = queue
          /\ \A v \in Writes : v # w => pc'[v] = pc[v] /\ batch'[v] = batch[v]
      BY <3>1 DEF TypeOK
    <3>3. \A v \in Writes : Elem(v, queue) => pc'[v] \in Done /\ (InHistory(v) => v = w)
      BY <3>1, <3>2, OneHolder DEF OrderInv, LockPCs
    <3>4. \A u, v \in Writes : Elem(v, batch[u]) => v # w /\ u # w
      BY <3>1 DEF OrderInv
    <3>5. \A v \in Writes : InHistory(v)' <=> InHistory(v)
      BY <3>1 DEF InHistory
    <3>6. \A u, v \in Writes : Elem(v, batch'[u]) =>
             pc'[u] = "publish" /\ pc'[v] \in Done /\ (InHistory(v)' => v = u)
      BY <3>2, <3>3, <3>4, <3>5 DEF OrderInv
    <3>7. \A v \in Writes : ~Elem(v, queue')
      BY <3>1, EmptyElem
    <3>8. \A v \in Writes : Elem(v, published') => pc'[v] \in Done
      BY <3>1, <3>2 DEF OrderInv
    <3>9. \A v \in Writes : pc'[v] \in {"flush", "publish"} =>
             Len(history') > 0 /\ history'[Len(history')] = v
      BY <3>1, <3>2 DEF OrderInv
    <3> QED
      BY <3>6, <3>7, <3>8, <3>9 DEF OrderInv
  <2>6. CASE RunCallback(w)
    <3>1. batch[w] \in Seq(Writes) /\ batch[w] # << >>
      BY <2>6 DEF RunCallback, TypeOK
    <3> DEFINE h == Head(batch[w])
    <3>2. /\ h \in Writes /\ Elem(h, batch[w])
          /\ \A v \in Writes : Elem(v, Tail(batch[w])) => Elem(v, batch[w])
      BY <3>1, HeadTailElem
    <3>3. \A u, v \in Writes : Elem(v, batch'[u]) => Elem(v, batch[u])
      BY <2>6, <3>2 DEF RunCallback, TypeOK
    <3>4. \A v \in Writes : Elem(v, published') <=> v = h \/ Elem(v, published)
      BY <2>6, <3>2, AppendElem DEF RunCallback, TypeOK
    <3>5. pc[h] \in Done
      BY <3>2 DEF OrderInv
    <3> HIDE DEF h
    <3>6. UNCHANGED <<pc, queue, history>>
      BY <2>6 DEF RunCallback
    <3> QED
      BY <3>3, <3>4, <3>5, <3>6 DEF OrderInv, InHistory
  <2>7. CASE Finish(w) \/ Release(w)
    <3>1. /\ UNCHANGED <<queue, batch, published, history>>
          /\ \E l \in {"release", "returned"} : Goto(w, l)
          /\ pc[w] \in {"release", "publish"}
          /\ pc[w] = "publish" => batch[w] = << >>
      BY <2>7 DEF Finish, Release, Leave
    <3>2. \A v \in Writes : ~Elem(v, batch[w])
      BY <3>1, EmptyElem DEF OrderInv
    <3>4. \A v \in Writes : /\ InHistory(v)' <=> InHistory(v)
                            /\ v # w => pc'[v] = pc[v]
      BY <3>1 DEF Goto, TypeOK, InHistory
    <3>5. pc'[w] \in {"release", "returned"}
      BY <3>1 DEF Goto, TypeOK
    <3>6. \A v \in Writes : Elem(v, queue') =>
             /\ pc'[v] \in {"tx", "commit", "flush", "release", "returned"}
             /\ InHistory(v)' => pc'[v] = "flush"
      BY <3>1, <3>4, <3>5 DEF OrderInv
    <3>7. \A u, v \in Writes : Elem(v, batch'[u]) =>
             pc'[u] = "publish" /\ pc'[v] \in Done /\ (InHistory(v)' => v = u)
      BY <3>1, <3>2, <3>4, <3>5 DEF OrderInv
    <3>8. \A v \in Writes : Elem(v, published') => pc'[v] \in Done
      BY <3>1, <3>4, <3>5 DEF OrderInv
    <3>9. \A v \in Writes : pc'[v] \in {"flush", "publish"} =>
             Len(history') > 0 /\ history'[Len(history')] = v
      BY <3>1, <3>4, <3>5 DEF OrderInv
    <3> QED
      BY <3>6, <3>7, <3>8, <3>9 DEF OrderInv
  <2> QED
    BY <1>1, <2>1, <2>2, <2>3, <2>4, <2>5, <2>6, <2>7 DEF Write
<1>2. ASSUME \/ \E w \in Writes : CancelCtx(w)
             \/ Close
             \/ \E r \in Readers : ReaderStarts(r) \/ ReaderEnds(r)
             \/ UNCHANGED vars
      PROVE  OrderInv'
  BY <1>2 DEF CancelCtx, Close, CloseBegins, CloseTakesSlot, ReaderStarts, ReaderEnds,
     vars, OrderInv, InHistory
<1> QED
  BY <1>1, <1>2 DEF Next

LEMMA PublishStep ==
    ASSUME IInv, OutcomeInv, OrderInv, PublishedInCommitOrder, [Next]_vars
    PROVE  PublishedInCommitOrder'
<1> USE DEF IInv
<1>1. ASSUME NEW w \in Writes, Commit(w) PROVE PublishedInCommitOrder'
  <2>1. /\ \A v \in Writes : InHistory(v)' <=> (v = w \/ InHistory(v))
        /\ Len(history') = Len(history) + 1
        /\ \A i \in 1..Len(history) : history'[i] = history[i]
    BY <1>1, CommitExtends
  <2>2. Len(history) \in Nat /\ \A i \in 1..Len(published) : published[i] \in Writes
    BY DEF TypeOK
  <2>3. \A i \in 1..Len(published) : InHistory(published[i])' <=> InHistory(published[i])
    BY <1>1, <2>1, <2>2 DEF OrderInv, Elem, Done, Commit
  <2>4. published' = published
    BY <1>1 DEF Commit
  <2> DEFINE H(v) == \E i \in 1..Len(history') : history'[i] = v
  <2> SUFFICES ASSUME NEW i \in 1..Len(published), NEW j \in 1..Len(published), i < j,
                      H(published[i]), H(published[j])
               PROVE  \E k, l \in 1..Len(history') :
                         k <= l /\ history'[k] = published[i] /\ history'[l] = published[j]
    BY <2>4 DEF PublishedInCommitOrder, InHistory
  <2>5. PICK k \in 1..Len(history), l \in 1..Len(history) :
           k <= l /\ history[k] = published[i] /\ history[l] = published[j]
    <3>1. InHistory(published[i]) /\ InHistory(published[j])
      BY <2>3, <2>4 DEF InHistory
    <3> QED
      BY <3>1 DEF PublishedInCommitOrder
  <2>6. k \in 1..Len(history') /\ l \in 1..Len(history')
    BY <2>1, <2>2
  <2> QED
    BY <2>1, <2>5, <2>6
<1>2. ASSUME NEW w \in Writes, RunCallback(w) PROVE PublishedInCommitOrder'
  <2>1. batch[w] \in Seq(Writes) /\ batch[w] # << >>
    BY <1>2 DEF RunCallback, TypeOK
  <2> DEFINE h == Head(batch[w])
             n == Len(published)
  <2>2. h \in Writes /\ Elem(h, batch[w])
    BY <2>1, HeadTailElem
  <2>3. InHistory(h) => h = w
    BY <2>2 DEF OrderInv
  <2>4. Len(history) > 0 /\ history[Len(history)] = w /\ Len(history) \in Nat
    BY <1>2 DEF RunCallback, OrderInv, TypeOK
  <2>5. /\ n \in Nat /\ Len(published') = n + 1 /\ published'[n + 1] = h
        /\ \A i \in 1..n : published'[i] = published[i]
        /\ history' = history
    BY <1>2, <2>2 DEF RunCallback, TypeOK
  <2> HIDE DEF h, n
  <2> SUFFICES ASSUME NEW i \in 1..Len(published'), NEW j \in 1..Len(published'), i < j,
                      InHistory(published[i])', InHistory(published[j])'
               PROVE  \E k, l \in 1..Len(history') :
                         k <= l /\ history'[k] = published'[i] /\ history'[l] = published'[j]
    BY DEF PublishedInCommitOrder
  <2>6. i \in 1..(n + 1) /\ j \in 1..(n + 1)
    BY <2>5
  <2>7. InHistory(published'[i]) /\ InHistory(published'[j])
    BY <2>5 DEF InHistory
  <2>8. CASE j = n + 1
    <3>1. published'[j] = w
      BY <2>3, <2>5, <2>7, <2>8
    <3>2. PICK k \in 1..Len(history) : history[k] = published'[i]
      BY <2>7 DEF InHistory
    <3>3. k <= Len(history) /\ Len(history) \in 1..Len(history)
      BY <2>4
    <3> QED
      BY <2>4, <2>5, <3>1, <3>2, <3>3
  <2>9. CASE j # n + 1
    <3>1. i \in 1..n /\ j \in 1..n
      BY <2>5, <2>6, <2>9
    <3>2. published'[i] = published[i] /\ published'[j] = published[j]
      BY <2>5, <3>1
    <3>3. \E k, l \in 1..Len(history) : k <= l /\ history[k] = published[i] /\ history[l] = published[j]
      BY <2>7, <3>1, <3>2 DEF PublishedInCommitOrder, n
    <3> QED
      BY <2>5, <3>2, <3>3
  <2> QED
    BY <2>8, <2>9
<1>3. ASSUME UNCHANGED <<published, history>> PROVE PublishedInCommitOrder'
  BY <1>3 DEF PublishedInCommitOrder, InHistory
<1>4. ASSUME NEW w \in Writes, Write(w), ~Commit(w), ~RunCallback(w)
      PROVE  UNCHANGED <<published, history>>
  BY <1>4 DEF Write, Enter, SelectLeaves, Refuse, TakeSlot, Recheck, Checkout, CheckoutFails,
     Begin, Record, FnFails, FnPanics, FnReturns, CommitFails, Flush, Finish, Release
<1>5. ASSUME \/ \E w \in Writes : CancelCtx(w)
             \/ Close
             \/ \E r \in Readers : ReaderStarts(r) \/ ReaderEnds(r)
             \/ UNCHANGED vars
      PROVE  UNCHANGED <<published, history>>
  BY <1>5 DEF CancelCtx, Close, CloseBegins, CloseTakesSlot, ReaderStarts, ReaderEnds, vars
<1> QED
  BY <1>1, <1>2, <1>3, <1>4, <1>5 DEF Next

\* Subscribers see committed writes in commit order: the queue is emptied by
\* the call that committed last, before the lock lets the next one in, and what
\* a failed commit left in it belongs to calls that never commit.
THEOREM FanOutInCommitOrder == Spec => []PublishedInCommitOrder
<1>1. Init => OrderInv /\ PublishedInCommitOrder
  BY EmptyElem DEF Init, OrderInv, PublishedInCommitOrder
<1> QED
  BY <1>1, OrderInvStep, PublishStep, Invariance, OutcomesAgree, PTL DEF Spec

-----------------------------------------------------------------------------
(* How many events of a call a queue holds. *)

LEMMA EventsType ==
    ASSUME NEW s \in Seq(Writes), NEW v
    PROVE  /\ IsFiniteSet({i \in 1..Len(s) : s[i] = v}) /\ Events(v, s) \in Nat
           /\ ~Elem(v, s) <=> Events(v, s) = 0
<1> DEFINE P == {i \in 1..Len(s) : s[i] = v}
<1>1. IsFiniteSet(1..Len(s)) /\ P \subseteq 1..Len(s)
  BY FS_Interval
<1>2. IsFiniteSet(P) /\ Cardinality(P) \in Nat
  BY <1>1, FS_Subset, FS_CardinalityType
<1>3. Cardinality(P) = 0 <=> P = {}
  BY <1>2, FS_EmptySet
<1>4. ~Elem(v, s) <=> P = {}
  BY DEF Elem
<1> HIDE DEF P
<1> QED
  BY <1>2, <1>3, <1>4 DEF P, Events

LEMMA EmptyEvents == ASSUME NEW v PROVE Events(v, << >>) = 0
<1>1. << >> \in Seq(Writes)
  BY EmptySeqType
<1> QED
  BY <1>1, EmptyElem, EventsType

LEMMA AppendEvents ==
    ASSUME NEW s \in Seq(Writes), NEW x \in Writes, NEW v
    PROVE  Events(v, Append(s, x)) = IF v = x THEN Events(v, s) + 1 ELSE Events(v, s)
<1> DEFINE a == Append(s, x)
           n == Len(s)
           P == {i \in 1..n : s[i] = v}
           Q == {i \in 1..Len(a) : a[i] = v}
<1>1. /\ n \in Nat /\ Len(a) = n + 1 /\ a[n + 1] = x
      /\ \A i \in 1..n : a[i] = s[i]
  OBVIOUS
<1>2. Q = IF v = x THEN P \cup {n + 1} ELSE P
  <2> HIDE DEF a, n
  <2> QED
    BY <1>1
<1>3. n + 1 \notin P
  BY <1>1
<1>4. IsFiniteSet(P) /\ Events(v, s) = Cardinality(P) /\ Events(v, a) = Cardinality(Q)
  BY EventsType DEF Events
<1> HIDE DEF P, Q, a, n
<1>5. Cardinality(P \cup {n + 1}) = Cardinality(P) + 1
  BY <1>3, <1>4, FS_AddElement
<1> QED
  BY <1>2, <1>4, <1>5 DEF a

LEMMA TailEvents ==
    ASSUME NEW s \in Seq(Writes), s # << >>, NEW v
    PROVE  Events(v, s) = IF v = Head(s) THEN Events(v, Tail(s)) + 1 ELSE Events(v, Tail(s))
<1> DEFINE t == Tail(s)
           n == Len(t)
           P == {i \in 1..n : t[i] = v}
           R == {i \in 2..n + 1 : s[i] = v}
           Q == {i \in 1..Len(s) : s[i] = v}
           f == [i \in P |-> i + 1]
<1>1. /\ t \in Seq(Writes) /\ n \in Nat /\ Len(s) = n + 1 /\ Head(s) = s[1]
      /\ \A i \in 1..n : t[i] = s[i + 1]
  OBVIOUS
<1>2. /\ IsFiniteSet(P) /\ Events(v, t) = Cardinality(P) /\ Events(v, s) = Cardinality(Q)
      /\ Cardinality(P) \in Nat
  BY <1>1, EventsType DEF Events
<1> HIDE DEF t, n
<1>3. f \in Bijection(P, R)
  <2>1. ASSUME NEW i \in P PROVE i + 1 \in R
    BY <1>1
  <2>2. ASSUME NEW j \in R PROVE j - 1 \in P /\ (j - 1) + 1 = j
    BY <1>1
  <2>3. P \subseteq Nat /\ R \subseteq Nat
    BY <1>1
  <2> HIDE DEF P, R
  <2>4. f \in [P -> R]
    BY <2>1
  <2>5. \A i, j \in P : f[i] = f[j] => i = j
    BY <2>3
  <2>6. \A j \in R : \E i \in P : f[i] = j
    BY <2>2
  <2> HIDE DEF f
  <2> QED
    BY <2>4, <2>5, <2>6 DEF Bijection, Injection, Surjection, IsInjective
<1>4. IsFiniteSet(R) /\ Cardinality(R) = Cardinality(P)
  <2> HIDE DEF P, R, f
  <2>1. ExistsBijection(P, R)
    BY <1>3 DEF ExistsBijection
  <2> QED
    BY <1>2, <2>1, FS_Bijection
<1>5. Q = IF v = Head(s) THEN R \cup {1} ELSE R
  BY <1>1
<1>6. 1 \notin R
  BY <1>1
<1> HIDE DEF P, Q, R, f
<1>7. Cardinality(R \cup {1}) = Cardinality(R) + 1
  BY <1>4, <1>6, FS_AddElement
<1> QED
  BY <1>2, <1>4, <1>5, <1>7 DEF t

-----------------------------------------------------------------------------
(* The fan-out and the outcome. *)

\* Where the events of a call are: none before its transaction, all in the queue
\* up to its commit, then in its batch or published.  A call that returned an error
\* of fn has none anywhere.
EventsOf(w) ==
    /\ pc[w] \in {"start", "select", "recheck", "checkout", "begin"} => recorded[w] = 0
    /\ pc[w] \in {"tx", "commit", "flush"} => Events(w, queue) = recorded[w]
    /\ pc[w] = "publish" => Events(w, batch[w]) + Events(w, published) = recorded[w]
    /\ outcome[w] = "ok" => Events(w, published) = recorded[w]
    /\ outcome[w] = "fnErr" => /\ ~Elem(w, queue) /\ ~Elem(w, published)
                               /\ \A v \in Writes : ~Elem(w, batch[v])

FanInv == \A w \in Writes : EventsOf(w)

\* A step that moves call w and touches no event.
LEMMA FanMove ==
    ASSUME IInv, FanInv, NEW w \in Writes, UNCHANGED <<queue, batch, published, recorded>>,
           \A v \in Writes : v # w => pc'[v] = pc[v] /\ outcome'[v] = outcome[v],
           EventsOf(w)'
    PROVE  FanInv'
<1> SUFFICES ASSUME NEW v \in Writes, v # w PROVE EventsOf(v)'
  BY DEF FanInv
<1> QED
  BY DEF FanInv, EventsOf

\* A step of call w that changes the queue or the batches: what it owes to w and to the others.
LEMMA FanStep ==
    ASSUME IInv, FanInv, NEW w \in Writes, EventsOf(w)',
           \A v \in Writes : v # w =>
              /\ pc'[v] = pc[v] /\ outcome'[v] = outcome[v] /\ recorded'[v] = recorded[v]
              /\ pc[v] \notin {"tx", "commit", "flush", "publish"}
              /\ outcome[v] = "ok" => Events(v, published') = Events(v, published)
              /\ outcome[v] = "fnErr" =>
                    /\ ~Elem(v, queue') /\ ~Elem(v, published')
                    /\ \A u \in Writes : ~Elem(v, batch'[u])
    PROVE  FanInv'
<1> SUFFICES ASSUME NEW v \in Writes, v # w PROVE EventsOf(v)'
  BY DEF FanInv
<1> QED
  BY DEF FanInv, EventsOf

LEMMA FanInvStep ==
    ASSUME IInv, OutcomeInv, OrderInv, FanInv, [Next]_vars
    PROVE  FanInv'
<1>1. ASSUME NEW w \in Writes, Write(w) PROVE FanInv'
  <2>1. /\ TypeOK /\ OneWriter /\ EventsOf(w) /\ Settled(pc[w], outcome[w], InHistory(w))
        /\ recorded[w] \in Nat /\ queue \in Seq(Writes) /\ published \in Seq(Writes)
        /\ \A v \in Writes : batch[v] \in Seq(Writes)
    BY RecordsAssumption DEF IInv, TypeOK, FanInv, OutcomeInv
  <2>2. pc[w] \in LockPCs =>
           \A v \in Writes : v # w => pc[v] \notin {"tx", "commit", "flush", "publish"}
    BY <2>1, OneHolder DEF LockPCs
  <2>3. CASE \/ Enter(w) \/ TakeSlot(w) \/ SelectLeaves(w) \/ Recheck(w) \/ Checkout(w)
             \/ CheckoutFails(w) \/ Begin(w) \/ FnPanics(w) \/ FnReturns(w) \/ CommitFails(w)
             \/ Commit(w) \/ Release(w)
    <3>1. UNCHANGED <<queue, batch, published, recorded>>
      BY <2>3 DEF Enter, SelectLeaves, Refuse, Recheck, CheckoutFails, TakeSlot, Checkout, Begin,
         FnPanics, FnReturns, CommitFails, Commit, Release
    <3>2. PICK l \in PCs : Goto(w, l)
      BY <2>3 DEF Enter, SelectLeaves, Refuse, Recheck, CheckoutFails, TakeSlot, Checkout, Begin,
         FnPanics, FnReturns, CommitFails, Commit, Release, Leave, PCs
    <3>3. PICK o \in Outcomes : outcome' = [outcome EXCEPT ![w] = o] /\ (o \in {"ok", "fnErr"} => o = outcome[w])
      <4>1. CASE UNCHANGED outcome
        <5>1. outcome[w] \in Outcomes /\ outcome' = [outcome EXCEPT ![w] = outcome[w]]
          BY <2>1, <4>1 DEF TypeOK
        <5> QED
          BY <5>1
      <4>2. CASE \E o \in {"ctxErr", "errClosed", "connErr", "panic", "commitErr"} :
                    outcome' = [outcome EXCEPT ![w] = o]
        BY <4>2 DEF Outcomes
      <4> QED
        BY <2>3, <4>1, <4>2 DEF Enter, SelectLeaves, Refuse, Recheck, CheckoutFails, TakeSlot,
           Checkout, Begin, FnPanics, FnReturns, CommitFails, Commit, Release, Leave
    <3>4. /\ pc'[w] = l /\ outcome'[w] = o
          /\ \A v \in Writes : v # w => pc'[v] = pc[v] /\ outcome'[v] = outcome[v]
      BY <2>1, <3>2, <3>3 DEF Goto, TypeOK
    <3>5. \/ l \notin {"start", "select", "recheck", "checkout", "begin", "tx", "commit", "flush", "publish"}
          \/ /\ l \in {"start", "select", "recheck", "checkout", "begin", "tx"}
             /\ pc[w] \in {"start", "select", "recheck", "checkout", "begin"}
          \/ l \in {"commit", "flush"} /\ pc[w] \in {"tx", "commit"}
      BY <2>1, <2>3, <3>4 DEF Enter, SelectLeaves, Refuse, Recheck, CheckoutFails, TakeSlot, Checkout,
         Begin, FnPanics, FnReturns, CommitFails, Commit, Release, Leave, Goto, TypeOK
    <3>6. pc[w] \in {"start", "select", "recheck", "checkout", "begin"} =>
             recorded[w] = 0 /\ Events(w, queue) = 0
      <4>1. pc[w] \in {"start", "select", "recheck", "checkout", "begin"} => ~Elem(w, queue)
        BY DEF OrderInv
      <4> QED
        BY <2>1, <4>1, EventsType DEF EventsOf
    <3>7. EventsOf(w)'
      BY <2>1, <3>1, <3>3, <3>4, <3>5, <3>6 DEF EventsOf
    <3> QED
      BY <3>1, <3>4, <3>7, FanMove
  <2>4. CASE Record(w)
    <3>1. /\ pc[w] = "tx" /\ UNCHANGED <<pc, batch, outcome, published>> /\ queue' = Append(queue, w)
          /\ recorded' = [recorded EXCEPT ![w] = @ + 1]
      BY <2>4 DEF Record
    <3>2. /\ recorded'[w] = recorded[w] + 1 /\ \A v \in Writes : v # w => recorded'[v] = recorded[v]
      BY <2>1, <3>1 DEF TypeOK
    <3>3. Events(w, queue') = recorded'[w] /\ \A v \in Writes : v # w /\ ~Elem(v, queue) => ~Elem(v, queue')
      BY <2>1, <3>1, <3>2, AppendEvents, AppendElem DEF EventsOf
    <3>4. outcome[w] = "none"
      BY <2>1, <3>1 DEF Settled
    <3>5. EventsOf(w)'
      BY <3>1, <3>3, <3>4 DEF EventsOf
    <3>6. \A v \in Writes : EventsOf(v)
      BY DEF FanInv
    <3> QED
      BY <2>2, <3>1, <3>2, <3>3, <3>5, <3>6, FanStep DEF EventsOf, LockPCs
  <2>5. CASE FnFails(w)
    <3>1. /\ pc[w] = "tx" /\ UNCHANGED <<batch, published, recorded>> /\ Goto(w, "release")
          /\ \/ queue' = << >> /\ outcome' = [outcome EXCEPT ![w] = "fnErr"]
             \/ queue' = queue /\ outcome' = [outcome EXCEPT ![w] = "rollbackErr"]
      BY <2>5 DEF FnFails, Leave
    <3>2. /\ pc'[w] = "release" /\ outcome'[w] \in {"fnErr", "rollbackErr"}
          /\ outcome'[w] = "fnErr" => queue' = << >>
          /\ \A v \in Writes : v # w => pc'[v] = pc[v] /\ outcome'[v] = outcome[v]
      BY <2>1, <3>1 DEF Goto, TypeOK
    <3>3. ~Elem(w, published) /\ \A v \in Writes : ~Elem(w, batch[v])
      BY <3>1 DEF OrderInv, Done
    <3>4. \A v \in Writes : Elem(v, queue') => Elem(v, queue)
      BY <3>1, EmptyElem
    <3>5. EventsOf(w)'
      BY <3>1, <3>2, <3>3, EmptyElem DEF EventsOf
    <3>6. \A v \in Writes : EventsOf(v)
      BY DEF FanInv
    <3> QED
      BY <2>2, <3>1, <3>2, <3>4, <3>5, <3>6, FanStep DEF EventsOf, LockPCs
  <2>6. CASE Flush(w)
    <3>1. /\ pc[w] = "flush" /\ pc' = [pc EXCEPT ![w] = "publish"]
          /\ batch' = [batch EXCEPT ![w] = queue] /\ queue' = << >>
          /\ UNCHANGED <<published, recorded, outcome>>
      BY <2>6 DEF Flush, Goto
    <3>2. /\ pc'[w] = "publish" /\ batch'[w] = queue
          /\ \A v \in Writes : v # w => pc'[v] = pc[v] /\ batch'[v] = batch[v]
      BY <2>1, <3>1 DEF TypeOK
    <3>3. Events(w, published) = 0
      BY <2>1, <3>1, EventsType DEF OrderInv, Done
    <3>4. outcome[w] = "none"
      BY <2>1, <3>1 DEF Settled
    <3>5. EventsOf(w)'
      BY <2>1, <3>1, <3>2, <3>3, <3>4 DEF EventsOf
    <3>6. \A v \in Writes : EventsOf(v)
      BY DEF FanInv
    <3>7. \A v \in Writes : outcome[v] = "fnErr" => ~Elem(v, queue') /\ \A u \in Writes : ~Elem(v, batch'[u])
      BY <3>1, <3>2, <3>6, EmptyElem DEF EventsOf
    <3> QED
      BY <2>2, <3>1, <3>2, <3>5, <3>6, <3>7, FanStep DEF EventsOf, LockPCs
  <2>7. CASE RunCallback(w)
    <3> DEFINE h == Head(batch[w])
               t == Tail(batch[w])
    <3>1. /\ pc[w] = "publish" /\ batch[w] # << >> /\ published' = Append(published, h)
          /\ batch' = [batch EXCEPT ![w] = t] /\ UNCHANGED <<pc, recorded, queue, outcome>>
      BY <2>7 DEF RunCallback
    <3>2. /\ h \in Writes /\ Elem(h, batch[w]) /\ t \in Seq(Writes)
          /\ \A v \in Writes : Elem(v, t) => Elem(v, batch[w])
      BY <2>1, <3>1, HeadTailElem
    <3>3. /\ Events(w, batch[w]) = IF w = h THEN Events(w, t) + 1 ELSE Events(w, t)
          /\ Events(w, t) \in Nat
      BY <2>1, <3>1, <3>2, TailEvents, EventsType
    <3> HIDE DEF h, t
    <3>4. /\ \A v \in Writes : Events(v, published') =
                IF v = h THEN Events(v, published) + 1 ELSE Events(v, published)
          /\ \A v \in Writes : Elem(v, published') <=> v = h \/ Elem(v, published)
          /\ Events(w, published) \in Nat
      BY <2>1, <3>1, <3>2, AppendEvents, AppendElem, EventsType
    <3>5. batch'[w] = t /\ \A v \in Writes : v # w => batch'[v] = batch[v]
      BY <2>1, <3>1 DEF TypeOK
    <3>6. outcome[w] = "none"
      BY <2>1, <3>1 DEF Settled
    <3>7. EventsOf(w)'
      <4>1. Events(w, t) + Events(w, published') = recorded[w]
        BY <2>1, <3>1, <3>3, <3>4 DEF EventsOf
      <4> QED
        BY <3>1, <3>5, <3>6, <4>1 DEF EventsOf
    <3>8. \A v \in Writes : EventsOf(v)
      BY DEF FanInv
    <3>9. outcome[h] # "fnErr" /\ (h # w => outcome[h] # "ok")
      <4>1. Settled(pc[h], outcome[h], InHistory(h)) /\ (InHistory(h) => h = w)
        BY <3>2 DEF OutcomeInv, OrderInv
      <4>2. outcome[h] # "fnErr"
        BY <3>2, <3>8 DEF EventsOf
      <4> QED
        BY <4>1, <4>2 DEF Settled
    <3>10. \A v \in Writes : v # w =>
              /\ outcome[v] = "ok" => Events(v, published') = Events(v, published)
              /\ outcome[v] = "fnErr" =>
                    /\ ~Elem(v, queue') /\ ~Elem(v, published')
                    /\ \A u \in Writes : ~Elem(v, batch'[u])
      BY <3>1, <3>2, <3>4, <3>5, <3>8, <3>9 DEF EventsOf
    <3> QED
      BY <2>2, <3>1, <3>7, <3>10, FanStep DEF LockPCs
  <2>8. CASE Finish(w)
    <3>1. /\ pc[w] = "publish" /\ batch[w] = << >> /\ Goto(w, "release")
          /\ outcome' = [outcome EXCEPT ![w] = "ok"] /\ UNCHANGED <<queue, batch, published, recorded>>
      BY <2>8 DEF Finish, Leave
    <3>2. /\ pc'[w] = "release" /\ outcome'[w] = "ok"
          /\ \A v \in Writes : v # w => pc'[v] = pc[v] /\ outcome'[v] = outcome[v]
      BY <2>1, <3>1 DEF Goto, TypeOK
    <3>3. Events(w, published) = recorded[w]
      <4>1. Events(w, batch[w]) = 0
        BY <3>1, EmptyEvents
      <4>2. Events(w, published) \in Nat
        BY <2>1, EventsType
      <4>3. Events(w, batch[w]) + Events(w, published) = recorded[w]
        BY <2>1, <3>1 DEF EventsOf
      <4> QED
        BY <4>1, <4>2, <4>3
    <3>4. EventsOf(w)'
      BY <3>1, <3>2, <3>3 DEF EventsOf
    <3> QED
      BY <3>1, <3>2, <3>4, FanMove
  <2> QED
    BY <1>1, <2>3, <2>4, <2>5, <2>6, <2>7, <2>8 DEF Write
<1>2. ASSUME \/ \E w \in Writes : CancelCtx(w)
             \/ Close
             \/ \E r \in Readers : ReaderStarts(r) \/ ReaderEnds(r)
             \/ UNCHANGED vars
      PROVE  FanInv'
  <2>1. UNCHANGED <<pc, recorded, queue, batch, outcome, published>>
    BY <1>2 DEF CancelCtx, Close, CloseBegins, CloseTakesSlot, ReaderStarts, ReaderEnds, vars
  <2> QED
    BY <2>1 DEF FanInv, EventsOf
<1> QED
  BY <1>1, <1>2 DEF Next

\* A write that returned nil has published each of its events exactly once; one whose fn
\* failed has published none, and none of its events is left for a later flush.
THEOREM FanOutAgrees == Spec => []FanOutMatchesOutcome
<1>1. Init => OrderInv /\ FanInv
  <2> SUFFICES ASSUME Init PROVE OrderInv /\ FanInv
    OBVIOUS
  <2>1. OrderInv
    BY EmptyElem DEF Init, OrderInv
  <2>2. FanInv
    BY DEF Init, FanInv, EventsOf
  <2> QED
    BY <2>1, <2>2
<1>2. IInv /\ FanInv => FanOutMatchesOutcome
  <2> SUFFICES ASSUME IInv, FanInv, NEW w \in Writes, outcome[w] = "fnErr"
               PROVE  Events(w, published) = 0
    BY DEF FanInv, EventsOf, FanOutMatchesOutcome
  <2>1. published \in Seq(Writes) /\ ~Elem(w, published)
    BY DEF IInv, TypeOK, FanInv, EventsOf
  <2> QED
    BY <2>1, EventsType
<1> QED
  BY <1>1, <1>2, OrderInvStep, FanInvStep, Invariance, OutcomesAgree, PTL DEF Spec

-----------------------------------------------------------------------------
(***************************************************************************)
(* What the committed rows become downstream of the writer: EventStream,   *)
(* for any sets of entries and presence events, any channel capacity, any  *)
(* replay cap and any number of dropped connections.  Its state is         *)
(* FeedState's, of which StoreWriter has nothing.                          *)
(***************************************************************************)
Stream == INSTANCE EventStream

\* An entry is about to be committed, or holds the write lock while it is fanned out.
Holds(e) == at[e] = "tx" \/ (e \in Recorded /\ at[e] \in {"publish", "send"})

\* Every id is minted once, when its producer starts.
Minted ==
    /\ \A s \in Stream!Sources : at[s] = "idle" <=> id[s] = 0
    /\ \A s, t \in Stream!Sources : id[s] = id[t] /\ id[s] # 0 => s = t
    /\ IsFiniteSet(log) /\ 0 \notin log /\ 0 \notin overtaken

\* While an entry holds the lock no other entry and no row has a larger id.
LockInv ==
    \A e \in Stream!Entries : Holds(e) =>
        /\ lock
        /\ \A f \in Stream!Entries : id[f] <= id[e]
        /\ \A r \in log : r <= id[e]

\* Rows, committed or about to be, that the stream owes the client.
Owed == (log \cup {id[e] : e \in {x \in Stream!Entries : at[x] = "tx"}}) \ base

Known(r) == r \in seen \cup overtaken
OnWire(r) == \E k \in 1..Len(wire) : wire[k] = r
\* A row that the client knows, or will before anything that is still in the channel.
Coming(r) ==
    \/ Known(r) \/ OnWire(r)
    \/ r \in log /\ OnWire(Stream!Gap)
    \/ r \in log /\ conn = "armed" /\ resume # 0 /\ r > resume

\* A row whose event will still be sent on this connection.
ToSend(r) ==
    \E e \in Stream!Entries : id[e] = r /\ (at[e] = "publish" \/ (at[e] = "send" /\ target[e] = epoch))

ConnInv ==
    /\ cursor # 0 => cursor \in seen
    /\ conn = "armed" => wire = << >> /\ resume = cursor
    /\ conn = "down" => wire = << >> /\ chan = << >>
    /\ conn # "down" => epoch # 0

\* What the cursor, a frame on the wire and a frame in the channel may leave behind.
CursorInv == \A r \in Owed : r < cursor => Known(r)
WireInv == \A i \in 1..Len(wire), r \in Owed : r < wire[i] => Known(r) \/ \E k \in 1..(i - 1) : wire[k] = r
ChanInv == \A i \in 1..Len(chan), r \in Owed : r < chan[i] => Coming(r) \/ \E k \in 1..(i - 1) : chan[k] = r
\* An open subscriber gets what was not there when it connected.
OpenInv ==
    conn # "down" /\ open =>
        \A r \in log \ base : Coming(r) \/ ToSend(r) \/ \E k \in 1..Len(chan) : chan[k] = r

FeedInv == ConnInv /\ CursorInv /\ WireInv /\ ChanInv /\ OpenInv

StreamConstants ==
    /\ Recorded \cap Alone = {} /\ Stream!Entries \cap Beats = {}
    /\ Buffer \in Nat \ {0} /\ MaxReplay \in Nat \ {0} /\ MaxDrops \in Nat

StreamInv == StreamConstants /\ Stream!TypeOK /\ Minted /\ LockInv /\ Stream!RecordedOvertakenByPresenceOnly /\ FeedInv

-----------------------------------------------------------------------------
(* Replay *)

\* The instance brings a copy of FiniteSets: it counts alike.
LEMMA SameCardinality == ASSUME NEW S PROVE Stream!Cardinality(S) = Cardinality(S)
BY DEF Stream!Cardinality, Cardinality

\* A replay is the missed rows in rising order, or the first of them and a gap.
LEMMA ReplayFacts ==
    ASSUME NEW S, S \subseteq Nat, IsFiniteSet(S), NEW s \in Stream!OldestFirst(S), MaxReplay \in Nat
    PROVE  LET w == Stream!ReplayAfter(s) IN
           /\ w \in Seq(S \cup {Stream!Gap})
           /\ \A i \in 1..Len(w), r \in S : r < w[i] => \E k \in 1..(i - 1) : w[k] = r
           /\ (\A r \in S : \E k \in 1..Len(w) : w[k] = r) \/ \E k \in 1..Len(w) : w[k] = Stream!Gap
<1>1. Cardinality(S) \in Nat
  BY FS_CardinalityType
<1>2. /\ s \in Seq(S) /\ Len(s) = Cardinality(S)
      /\ \A i, k \in 1..Len(s) : i < k => s[i] < s[k]
      /\ \A r \in S : \E i \in 1..Len(s) : s[i] = r
      /\ \A i \in 1..Len(s) : s[i] \in S
  <2>1. /\ s \in [1..Cardinality(S) -> S]
        /\ \A i, k \in DOMAIN s : i < k => s[i] < s[k]
        /\ \A r \in S : \E i \in DOMAIN s : s[i] = r
    BY SameCardinality, Zenon DEF Stream!OldestFirst
  <2>2. s \in Seq(S) /\ Len(s) = Cardinality(S) /\ DOMAIN s = 1..Len(s)
    BY <1>1, <2>1
  <2> QED
    BY <2>1, <2>2
<1>3. \A i \in 1..Len(s), r \in S : r < s[i] => \E k \in 1..(i - 1) : s[k] = r
  <2> SUFFICES ASSUME NEW i \in 1..Len(s), NEW r \in S, r < s[i] PROVE \E k \in 1..(i - 1) : s[k] = r
    OBVIOUS
  <2>1. PICK k \in 1..Len(s) : s[k] = r
    BY <1>2
  <2>2. k < i
    <3>1. s[i] \in Nat /\ r \in Nat /\ s[k] = r
      BY <1>2, <2>1
    <3>2. i \in Nat /\ k \in Nat /\ (i < k => s[i] < s[k])
      BY <1>1, <1>2
    <3>3. i # k
      BY <3>1
    <3> QED
      BY <3>1, <3>2, <3>3
  <2> QED
    BY <1>1, <1>2, <2>1, <2>2
<1>4. CASE Len(s) > MaxReplay
  <2> DEFINE p == SubSeq(s, 1, MaxReplay)
             w == p \o <<Stream!Gap>>
  <2>1. p \in Seq(S) /\ Len(p) = MaxReplay /\ \A i \in 1..MaxReplay : p[i] = s[i]
    BY <1>1, <1>2, <1>4
  <2>2. /\ w \in Seq(S \cup {Stream!Gap}) /\ Len(w) = MaxReplay + 1 /\ w[MaxReplay + 1] = Stream!Gap
        /\ \A i \in 1..MaxReplay : w[i] = s[i]
    <3>1. p \in Seq(S \cup {Stream!Gap}) /\ <<Stream!Gap>> \in Seq(S \cup {Stream!Gap}) /\ Len(<<Stream!Gap>>) = 1 /\ <<Stream!Gap>>[1] = Stream!Gap
      BY <2>1
    <3> HIDE DEF p
    <3>2. w \in Seq(S \cup {Stream!Gap}) /\ Len(w) = MaxReplay + 1 /\ \A i \in 1..MaxReplay : w[i] = p[i]
      BY <2>1, <3>1
    <3>3. w[MaxReplay + 1] = Stream!Gap
      BY <2>1, <3>1
    <3> QED
      BY <2>1, <3>2, <3>3
  <2>3. Stream!ReplayAfter(s) = w
    BY <1>4 DEF Stream!ReplayAfter
  <2> HIDE DEF p, w
  <2>4. \A i \in 1..Len(w), r \in S : r < w[i] => \E k \in 1..(i - 1) : w[k] = r
    <3> SUFFICES ASSUME NEW i \in 1..Len(w), NEW r \in S, r < w[i] PROVE \E k \in 1..(i - 1) : w[k] = r
      OBVIOUS
    <3>1. i # MaxReplay + 1
      BY <2>2 DEF Stream!Gap
    <3>2. i \in 1..MaxReplay /\ i \in 1..Len(s)
      BY <1>1, <1>2, <1>4, <2>2, <3>1
    <3>3. PICK k \in 1..(i - 1) : s[k] = r
      BY <1>3, <2>2, <3>2
    <3> QED
      BY <2>2, <3>2, <3>3
  <2> QED
    BY <2>2, <2>3, <2>4
<1>5. CASE ~(Len(s) > MaxReplay)
  BY <1>2, <1>3, <1>5 DEF Stream!ReplayAfter
<1> QED
  BY <1>4, <1>5

-----------------------------------------------------------------------------
(* Producers *)

\* One producer moves; a larger clock admits every id that was one before.
LEMMA ProducerMoves ==
    ASSUME Stream!TypeOK, NEW s \in Stream!Sources, NEW l \in Stream!PCs, Stream!Goto(s, l)
    PROVE  /\ at' \in [Stream!Sources -> Stream!PCs] /\ at'[s] = l
           /\ \A t \in Stream!Sources : t # s => at'[t] = at[t]
BY DEF Stream!TypeOK, Stream!Goto

LEMMA MintType ==
    ASSUME Stream!TypeOK, NEW s \in Stream!Sources, Stream!Mint(s)
    PROVE  /\ clock' \in Nat /\ clock' = clock + 1 /\ Stream!Ids \subseteq Stream!Ids'
           /\ id' \in [Stream!Sources -> Stream!Ids'] /\ id'[s] = clock + 1
           /\ \A t \in Stream!Sources : t # s => id'[t] = id[t]
           /\ \A t \in Stream!Sources : id[t] \in Nat /\ id[t] <= clock
<1>1. clock \in Nat /\ clock' = clock + 1 /\ id' = [id EXCEPT ![s] = clock + 1] /\ id \in [Stream!Sources -> 0..clock]
  BY DEF Stream!TypeOK, Stream!Mint, Stream!Ids
<1> QED
  BY <1>1 DEF Stream!Ids

LEMMA StreamTypeStep ==
    ASSUME StreamConstants, Stream!TypeOK, [Stream!Next]_Stream!vars, IsFiniteSet(log)
    PROVE  Stream!TypeOK' /\ clock <= clock'
<1> USE DEF Stream!streamVars, Stream!clientVars, Stream!producerVars
<1>0. /\ clock \in Nat /\ Stream!Entries \subseteq Stream!Sources /\ Beats \subseteq Stream!Sources /\ Recorded \subseteq Stream!Sources
      /\ \A l : l \in {"tx", "publish", "send", "done", "rolledback"} => l \in Stream!PCs
  BY DEF Stream!TypeOK, Stream!Sources, Stream!Entries, Stream!PCs
<1>00. UNCHANGED clock => Stream!Ids' = Stream!Ids /\ clock <= clock'
  BY <1>0 DEF Stream!Ids
<1>1. ASSUME NEW s \in Stream!Sources, Stream!Mint(s), NEW l \in Stream!PCs, Stream!Goto(s, l), lock' \in BOOLEAN,
             UNCHANGED <<target, log, Stream!streamVars, Stream!clientVars, overtaken>>
      PROVE  Stream!TypeOK' /\ clock <= clock'
  <2>1. /\ clock' \in Nat /\ clock' = clock + 1 /\ id' \in [Stream!Sources -> Stream!Ids'] /\ at' \in [Stream!Sources -> Stream!PCs]
    BY <1>1, MintType, ProducerMoves
  <2>2. Stream!Ids \subseteq Stream!Ids'
    BY <1>1, MintType
  <2>3. chan' \in Seq(Stream!Ids') /\ wire' \in Seq(Stream!Ids') /\ Len(chan') <= Buffer
    <3>1. chan \in Seq(Stream!Ids) /\ wire \in Seq(Stream!Ids) /\ Len(chan) <= Buffer
      BY DEF Stream!TypeOK
    <3>2. \A s1 \in Seq(Stream!Ids) : s1 \in Seq(Stream!Ids')
      BY <2>2
    <3> QED
      BY <1>1, <3>1, <3>2
  <2> QED
    BY <1>0, <1>1, <2>1, <2>2, <2>3 DEF Stream!TypeOK
<1>2. ASSUME NEW e \in Stream!Entries, Stream!Insert(e) \/ Stream!Rollback(e) \/ Stream!CommitRow(e) PROVE Stream!TypeOK' /\ clock <= clock'
  <2>1. CASE Stream!Insert(e)
    BY <1>0, <1>1, <1>2, <2>1 DEF Stream!Insert
  <2>2. CASE Stream!Rollback(e)
    <3>1. at' \in [Stream!Sources -> Stream!PCs]
      BY <1>0, <1>2, <2>2, ProducerMoves DEF Stream!Rollback
    <3> QED
      BY <1>0, <1>00, <2>2, <3>1 DEF Stream!Rollback, Stream!TypeOK
  <2>3. CASE Stream!CommitRow(e)
    <3>1. at' \in [Stream!Sources -> Stream!PCs]
      BY <1>0, <1>2, <2>3, ProducerMoves DEF Stream!CommitRow
    <3>2. log' \subseteq Stream!Ids /\ lock' \in BOOLEAN /\ UNCHANGED clock
      BY <1>0, <1>00, <2>3 DEF Stream!CommitRow, Stream!TypeOK
    <3> QED
      BY <1>0, <1>00, <2>3, <3>1, <3>2 DEF Stream!CommitRow, Stream!TypeOK
  <2> QED
    BY <1>2, <2>1, <2>2, <2>3
<1>3. ASSUME NEW b \in Beats, Stream!Beat(b) PROVE Stream!TypeOK' /\ clock <= clock'
  <2>1. lock' \in BOOLEAN
    BY <1>3 DEF Stream!Beat, Stream!TypeOK
  <2> QED
    BY <1>0, <1>1, <1>3, <2>1 DEF Stream!Beat
<1>4. ASSUME NEW s \in Stream!Sources, Stream!Snapshot(s) PROVE Stream!TypeOK' /\ clock <= clock'
  <2>1. at' \in [Stream!Sources -> Stream!PCs]
    BY <1>0, <1>4, ProducerMoves DEF Stream!Snapshot
  <2>2. target' \in [Stream!Sources -> Nat]
    BY <1>4 DEF Stream!Snapshot, Stream!TypeOK
  <2> QED
    BY <1>0, <1>00, <1>4, <2>1, <2>2 DEF Stream!Snapshot, Stream!TypeOK
<1>5. ASSUME NEW s \in Stream!Sources, Stream!TrySend(s) PROVE Stream!TypeOK' /\ clock <= clock'
  <2>1. at' \in [Stream!Sources -> Stream!PCs]
    BY <1>0, <1>5, ProducerMoves DEF Stream!TrySend
  <2>2. id[s] \in Stream!Ids /\ chan \in Seq(Stream!Ids) /\ Len(chan) <= Buffer
    BY DEF Stream!TypeOK
  <2>3. chan' \in Seq(Stream!Ids) /\ Len(chan') <= Buffer /\ open' \in BOOLEAN
    <3>1. CASE chan' = Append(chan, id[s]) /\ Len(chan) < Buffer /\ open' = open
      <4>1. chan' \in Seq(Stream!Ids) /\ Len(chan') = Len(chan) + 1 /\ Len(chan) \in Nat
        BY <2>2, <3>1
      <4> QED
        BY <3>1, <4>1 DEF Stream!TypeOK, StreamConstants
    <3>2. CASE chan' = chan /\ (open' = open \/ open' = FALSE)
      BY <2>2, <3>2 DEF Stream!TypeOK
    <3> QED
      BY <1>5, <3>1, <3>2 DEF Stream!TrySend
  <2>4. overtaken' \subseteq Stream!Ids
    BY <1>0, <1>5 DEF Stream!TrySend, Stream!TypeOK, Stream!Unsent
  <2>5. lock' \in BOOLEAN /\ UNCHANGED clock
    BY <1>5 DEF Stream!TrySend, Stream!TypeOK
  <2> QED
    BY <1>0, <1>00, <1>5, <2>1, <2>3, <2>4, <2>5 DEF Stream!TrySend, Stream!TypeOK
<1>6. CASE Stream!Connect
  <2>1. epoch' \in Nat /\ resume' \in Stream!Ids /\ base' \subseteq Stream!Ids /\ UNCHANGED clock
    BY <1>6 DEF Stream!Connect, Stream!TypeOK
  <2>2. chan' = << >> /\ wire' = << >> /\ << >> \in Seq(Stream!Ids) /\ Len(<< >>) = 0
    BY <1>6 DEF Stream!Connect
  <2> QED
    BY <1>0, <1>00, <1>6, <2>1, <2>2 DEF Stream!Connect, Stream!TypeOK, StreamConstants
<1>7. CASE Stream!ReplayThenTail
  <2>1. wire' \in Seq(Stream!Ids)
    <3>1. << >> \in Seq(Stream!Ids) /\ <<Stream!Gap>> \in Seq(Stream!Ids) /\ Stream!Gap \in Stream!Ids
      BY <1>0 DEF Stream!Ids, Stream!Gap
    <3>2. Stream!Missed \subseteq Stream!Ids /\ IsFiniteSet(Stream!Missed) /\ Stream!Missed \subseteq Nat
      <4>1. Stream!Missed \subseteq log /\ log \subseteq Stream!Ids /\ Stream!Ids \subseteq Nat
        BY <1>0 DEF Stream!Missed, Stream!TypeOK, Stream!Ids
      <4>2. IsFiniteSet(Stream!Missed)
        BY <4>1, FS_Subset, Zenon
      <4> QED
        BY <4>1, <4>2
    <3>3. ASSUME NEW rows \in Stream!OldestFirst(Stream!Missed) PROVE Stream!ReplayAfter(rows) \in Seq(Stream!Ids)
      <4>1. Stream!ReplayAfter(rows) \in Seq(Stream!Missed \cup {Stream!Gap})
        BY <3>2, <3>3, ReplayFacts DEF StreamConstants
      <4>2. Stream!Missed \cup {Stream!Gap} \subseteq Stream!Ids
        BY <3>1, <3>2
      <4>3. \A S, T : S \subseteq T => \A q \in Seq(S) : q \in Seq(T)
        OBVIOUS
      <4> QED
        BY <4>1, <4>2, <4>3
    <3> QED
      BY <1>7, <3>1, <3>3 DEF Stream!ReplayThenTail
  <2> QED
    BY <1>0, <1>00, <1>7, <2>1 DEF Stream!ReplayThenTail, Stream!TypeOK
<1>8. CASE Stream!Tail1
  <2>1. chan \in Seq(Stream!Ids) /\ chan # << >> /\ Len(chan) <= Buffer
    BY <1>8 DEF Stream!Tail1, Stream!TypeOK
  <2>2. chan' \in Seq(Stream!Ids) /\ Len(chan') = Len(chan) - 1 /\ wire' \in Seq(Stream!Ids) /\ Len(chan) \in Nat
    BY <1>8, <2>1 DEF Stream!Tail1
  <2>3. Len(chan') <= Buffer /\ UNCHANGED clock
    BY <1>8, <2>1, <2>2 DEF StreamConstants, Stream!Tail1
  <2> QED
    BY <1>0, <1>00, <1>8, <2>2, <2>3 DEF Stream!Tail1, Stream!TypeOK
<1>9. CASE Stream!StreamEnds
  BY <1>0, <1>00, <1>9 DEF Stream!StreamEnds, Stream!TypeOK
<1>10. CASE Stream!Drop
  <2>1. chan' = << >> /\ wire' = << >> /\ << >> \in Seq(Stream!Ids) /\ Len(<< >>) = 0
    BY <1>10 DEF Stream!Drop
  <2>2. drops' \in 0..MaxDrops /\ UNCHANGED clock
    BY <1>10 DEF Stream!Drop, Stream!TypeOK, StreamConstants
  <2>3. 0 <= Buffer /\ Stream!Ids' = Stream!Ids /\ clock <= clock'
    BY <1>00, <2>2 DEF StreamConstants
  <2> QED
    BY <1>10, <2>1, <2>2, <2>3 DEF Stream!Drop, Stream!TypeOK
<1>11. CASE Stream!Receive
  <2>1. wire \in Seq(Stream!Ids) /\ wire # << >>
    BY <1>11 DEF Stream!Receive, Stream!TypeOK
  <2>2. wire' \in Seq(Stream!Ids) /\ Head(wire) \in Stream!Ids
    BY <1>11, <2>1 DEF Stream!Receive
  <2>3. seen' \subseteq Stream!Ids /\ cursor' \in Stream!Ids /\ UNCHANGED clock
    BY <1>11, <2>2 DEF Stream!Receive, Stream!TypeOK
  <2> QED
    BY <1>0, <1>00, <1>11, <2>2, <2>3 DEF Stream!Receive, Stream!TypeOK
<1>12. CASE UNCHANGED Stream!vars
  BY <1>0, <1>00, <1>12 DEF Stream!vars, Stream!TypeOK
<1> QED
  BY <1>2, <1>3, <1>4, <1>5, <1>6, <1>7, <1>8, <1>9, <1>10, <1>11, <1>12
     DEF Stream!Next, Stream!Produce, Stream!Stream, Stream!Publisher

-----------------------------------------------------------------------------
(* Ids and the write lock *)

LEMMA IdFacts ==
    ASSUME StreamConstants, Stream!TypeOK, Minted
    PROVE  /\ clock \in Nat /\ cursor \in Nat /\ resume \in Nat
           /\ \A s \in Stream!Sources : id[s] \in Nat /\ id[s] <= clock
           /\ \A r \in log : r \in Nat /\ r > 0 /\ r <= clock
           /\ \A r \in overtaken : r \in Nat /\ r > 0 /\ r <= clock
           /\ Stream!Entries \subseteq Stream!Sources /\ Beats \subseteq Stream!Sources /\ Recorded \subseteq Stream!Entries
           /\ \A b \in Beats : b \notin Stream!Entries
<1>1. clock \in Nat /\ cursor \in Nat /\ resume \in Nat
  BY DEF Stream!TypeOK, Stream!Ids
<1>2. \A s \in Stream!Sources : id[s] \in Nat /\ id[s] <= clock
  BY <1>1 DEF Stream!TypeOK, Stream!Ids
<1>3. (\A r \in log : r \in Nat /\ r > 0 /\ r <= clock) /\ (\A r \in overtaken : r \in Nat /\ r > 0 /\ r <= clock)
  BY <1>1 DEF Stream!TypeOK, Stream!Ids, Minted
<1> QED
  BY <1>1, <1>2, <1>3 DEF Stream!Entries, Stream!Sources, StreamConstants

LEMMA OneLockHolder ==
    ASSUME StreamConstants, Stream!TypeOK, Minted, LockInv, NEW e \in Stream!Entries, NEW f \in Stream!Entries, Holds(e), Holds(f)
    PROVE  e = f
<1>1. id[e] \in Nat /\ id[f] \in Nat /\ e \in Stream!Sources /\ f \in Stream!Sources
  BY IdFacts
<1>2. id[e] <= id[f] /\ id[f] <= id[e]
  BY DEF LockInv
<1>3. id[e] # 0
  BY <1>1 DEF Minted, Holds
<1> QED
  BY <1>1, <1>2, <1>3 DEF Minted

\* Minting a fresh id keeps ids unique; the producer leaves "idle" for good.
LEMMA MintStep ==
    ASSUME StreamConstants, Stream!TypeOK, Minted, NEW s \in Stream!Sources, NEW l \in Stream!PCs, l # "idle", Stream!Mint(s), Stream!Goto(s, l), UNCHANGED <<log, overtaken>>
    PROVE  Minted'
<1>1. /\ clock \in Nat /\ id'[s] = clock + 1 /\ \A t \in Stream!Sources : t # s => id'[t] = id[t]
      /\ \A t \in Stream!Sources : id[t] \in Nat /\ id[t] <= clock
  BY MintType, IdFacts
<1>2. at'[s] = l /\ \A t \in Stream!Sources : t # s => at'[t] = at[t]
  BY ProducerMoves
<1>3. \A t \in Stream!Sources : at'[t] = "idle" <=> id'[t] = 0
  BY <1>1, <1>2 DEF Minted
<1>4. \A t, u \in Stream!Sources : id'[t] = id'[u] /\ id'[t] # 0 => t = u
  <2> SUFFICES ASSUME NEW t \in Stream!Sources, NEW u \in Stream!Sources, id'[t] = id'[u], id'[t] # 0, t # u PROVE FALSE
    OBVIOUS
  <2>1. CASE t = s
    BY <1>1, <2>1
  <2>2. CASE u = s
    BY <1>1, <2>2
  <2>3. CASE t # s /\ u # s
    BY <1>1, <2>3 DEF Minted
  <2> QED
    BY <2>1, <2>2, <2>3
<1> QED
  BY <1>3, <1>4 DEF Minted

LEMMA ProducerMovesOn ==
    ASSUME StreamConstants, Stream!TypeOK, Minted, NEW s \in Stream!Sources, NEW l \in Stream!PCs, l # "idle", at[s] # "idle", Stream!Goto(s, l), UNCHANGED id,
           IsFiniteSet(log'), 0 \notin log', 0 \notin overtaken'
    PROVE  Minted'
<1>1. at'[s] = l /\ \A t \in Stream!Sources : t # s => at'[t] = at[t]
  BY ProducerMoves
<1> QED
  BY <1>1 DEF Minted

LEMMA ProduceStep ==
    ASSUME StreamConstants, Stream!TypeOK, Minted, LockInv, Stream!RecordedOvertakenByPresenceOnly, Stream!Produce
    PROVE  Minted' /\ LockInv' /\ Stream!RecordedOvertakenByPresenceOnly'
<1>0. \A l : l \in {"tx", "publish", "send", "done", "rolledback"} => l \in Stream!PCs /\ l # "idle"
  BY DEF Stream!PCs
<1>1. ASSUME NEW e \in Stream!Entries, Stream!Insert(e)
      PROVE  Minted' /\ LockInv' /\ Stream!RecordedOvertakenByPresenceOnly'
  <2>1. /\ e \in Stream!Sources /\ at[e] = "idle" /\ ~lock /\ Stream!Mint(e) /\ Stream!Goto(e, "tx") /\ lock'
        /\ log' = log /\ overtaken' = overtaken
    BY <1>1, IdFacts DEF Stream!Insert
  <2>2. Minted'
    BY <1>0, <2>1, MintStep
  <2>3. /\ clock \in Nat /\ id'[e] = clock + 1 /\ \A t \in Stream!Sources : t # e => id'[t] = id[t]
        /\ \A t \in Stream!Sources : id[t] \in Nat /\ id[t] <= clock
        /\ at'[e] = "tx" /\ \A t \in Stream!Sources : t # e => at'[t] = at[t]
    BY <1>0, <2>1, MintType, ProducerMoves, IdFacts
  <2>4. LockInv'
    <3> SUFFICES ASSUME NEW f \in Stream!Entries, Holds(f)'
                 PROVE  lock' /\ (\A g \in Stream!Entries : id'[g] <= id'[f]) /\ \A r \in log' : r <= id'[f]
      BY DEF LockInv
    <3>1. f = e
      <4> SUFFICES ASSUME f # e PROVE FALSE
        OBVIOUS
      <4>1. Holds(f)
        BY <2>3, IdFacts DEF Holds
      <4> QED
        BY <2>1, <4>1 DEF LockInv
    <3>2. \A r \in log : r \in Nat /\ r <= clock
      BY IdFacts
    <3>3. \A g \in Stream!Entries : g \in Stream!Sources /\ (g = e \/ id'[g] <= clock)
      BY <2>3, IdFacts
    <3>4. \A g \in Stream!Entries : g \in Stream!Sources /\ id'[g] \in Nat /\ id'[g] <= clock + 1
      BY <2>3, <3>3
    <3> QED
      BY <2>1, <2>3, <3>1, <3>2, <3>4
  <2>5. Stream!RecordedOvertakenByPresenceOnly'
    <3> SUFFICES ASSUME NEW f \in Recorded, id'[f] \in overtaken
                 PROVE  \E b \in Beats : id'[b] > id'[f] /\ at'[b] = "done"
      BY <2>1 DEF Stream!RecordedOvertakenByPresenceOnly
    <3>1. f # e /\ f \in Stream!Sources
      BY <2>3, IdFacts
    <3>2. PICK b \in Beats : id[b] > id[f] /\ at[b] = "done"
      BY <2>3, <3>1 DEF Stream!RecordedOvertakenByPresenceOnly
    <3>3. b \in Stream!Sources /\ b # e
      BY <2>1, <3>2, IdFacts
    <3> QED
      BY <2>3, <3>1, <3>2, <3>3
  <2> QED
    BY <2>2, <2>4, <2>5
<1>2. ASSUME NEW e \in Stream!Entries, Stream!Rollback(e) \/ Stream!CommitRow(e)
      PROVE  Minted' /\ LockInv' /\ Stream!RecordedOvertakenByPresenceOnly'
  <2>0. e \in Stream!Sources /\ at[e] = "tx" /\ UNCHANGED <<id, overtaken>> /\ Holds(e)
    BY <1>2, IdFacts DEF Stream!Rollback, Stream!CommitRow, Holds
  <2>1. id[e] # 0
    BY <2>0 DEF Minted
  <2>2. PICK l \in {"publish", "rolledback"} : Stream!Goto(e, l) /\ (l = "publish" => lock' = (e \in Recorded))
    BY <1>2 DEF Stream!Rollback, Stream!CommitRow
  <2>3. log' = log \/ log' = log \cup {id[e]}
    BY <1>2 DEF Stream!Rollback, Stream!CommitRow
  <2>4. at'[e] = l /\ \A t \in Stream!Sources : t # e => at'[t] = at[t]
    BY <1>0, <2>0, <2>2, ProducerMoves
  <2>5. Minted'
    <3>1. IsFiniteSet(log')
      BY <2>3, FS_AddElement DEF Minted
    <3>2. 0 \notin log' /\ 0 \notin overtaken'
      BY <2>0, <2>1, <2>3 DEF Minted
    <3> QED
      BY <1>0, <2>0, <2>2, <3>1, <3>2, ProducerMovesOn
  <2>6. LockInv'
    <3> SUFFICES ASSUME NEW f \in Stream!Entries, Holds(f)'
                 PROVE  lock' /\ (\A g \in Stream!Entries : id'[g] <= id'[f]) /\ \A r \in log' : r <= id'[f]
      BY DEF LockInv
    <3>1. f = e
      <4> SUFFICES ASSUME f # e PROVE FALSE
        OBVIOUS
      <4>1. Holds(f)
        BY <2>4, IdFacts DEF Holds
      <4> QED
        BY <2>0, <4>1, OneLockHolder
    <3>2. l = "publish" /\ e \in Recorded
      BY <2>2, <2>4, <3>1 DEF Holds
    <3>3. id[e] \in Nat /\ (\A g \in Stream!Entries : id[g] <= id[e]) /\ \A r \in log : r <= id[e]
      BY <2>0, IdFacts DEF LockInv
    <3> QED
      BY <2>0, <2>2, <2>3, <3>1, <3>2, <3>3
  <2>7. Stream!RecordedOvertakenByPresenceOnly'
    <3> SUFFICES ASSUME NEW f \in Recorded, id[f] \in overtaken
                 PROVE  \E b \in Beats : id[b] > id[f] /\ at'[b] = "done"
      BY <2>0 DEF Stream!RecordedOvertakenByPresenceOnly
    <3>1. PICK b \in Beats : id[b] > id[f] /\ at[b] = "done"
      BY DEF Stream!RecordedOvertakenByPresenceOnly
    <3> QED
      BY <2>0, <2>4, <3>1, IdFacts
  <2> QED
    BY <2>5, <2>6, <2>7
<1>3. ASSUME NEW b \in Beats, Stream!Beat(b)
      PROVE  Minted' /\ LockInv' /\ Stream!RecordedOvertakenByPresenceOnly'
  <2>1. /\ b \in Stream!Sources /\ b \notin Stream!Entries /\ Stream!Mint(b) /\ Stream!Goto(b, "publish")
        /\ log' = log /\ overtaken' = overtaken /\ lock' = lock /\ at[b] = "idle"
    BY <1>3, IdFacts DEF Stream!Beat
  <2>2. Minted'
    BY <1>0, <2>1, MintStep
  <2>3. /\ clock \in Nat /\ id'[b] = clock + 1 /\ \A t \in Stream!Sources : t # b => id'[t] = id[t]
        /\ \A t \in Stream!Sources : id[t] \in Nat /\ id[t] <= clock
        /\ at'[b] = "publish" /\ \A t \in Stream!Sources : t # b => at'[t] = at[t]
    BY <1>0, <2>1, MintType, ProducerMoves, IdFacts
  <2>4. \A e \in Stream!Entries : e \in Stream!Sources /\ e # b /\ id'[e] = id[e] /\ at'[e] = at[e]
    BY <2>1, <2>3, IdFacts
  <2>5. LockInv'
    BY <2>1, <2>4 DEF LockInv, Holds
  <2>6. Stream!RecordedOvertakenByPresenceOnly'
    <3> SUFFICES ASSUME NEW f \in Recorded, id[f] \in overtaken
                 PROVE  \E c \in Beats : id'[c] > id[f] /\ at'[c] = "done"
      BY <2>1, <2>4, IdFacts DEF Stream!RecordedOvertakenByPresenceOnly
    <3>1. PICK c \in Beats : id[c] > id[f] /\ at[c] = "done"
      BY DEF Stream!RecordedOvertakenByPresenceOnly
    <3>2. c # b /\ c \in Stream!Sources
      BY <2>1, <3>1, IdFacts
    <3> QED
      BY <2>3, <3>1, <3>2
  <2> QED
    BY <2>2, <2>5, <2>6
<1>4. ASSUME NEW s \in Stream!Sources, Stream!Snapshot(s)
      PROVE  Minted' /\ LockInv' /\ Stream!RecordedOvertakenByPresenceOnly'
  <2>1. at[s] = "publish" /\ Stream!Goto(s, "send") /\ UNCHANGED <<id, lock, log, overtaken>>
    BY <1>4 DEF Stream!Snapshot
  <2>2. Minted'
    BY <1>0, <2>1, ProducerMovesOn DEF Minted
  <2>3. at'[s] = "send" /\ \A t \in Stream!Sources : t # s => at'[t] = at[t]
    BY <1>0, <2>1, ProducerMoves
  <2>4. LockInv'
    <3>1. \A e \in Stream!Entries : Holds(e)' => Holds(e)
      BY <2>1, <2>3, IdFacts DEF Holds
    <3> QED
      BY <2>1, <3>1 DEF LockInv
  <2>5. Stream!RecordedOvertakenByPresenceOnly'
    BY <2>1, <2>3, IdFacts DEF Stream!RecordedOvertakenByPresenceOnly
  <2> QED
    BY <2>2, <2>4, <2>5
<1>5. ASSUME NEW s \in Stream!Sources, Stream!TrySend(s)
      PROVE  Minted' /\ LockInv' /\ Stream!RecordedOvertakenByPresenceOnly'
  <2>1. at[s] = "send" /\ Stream!Goto(s, "done") /\ UNCHANGED <<id, log>>
    BY <1>5 DEF Stream!TrySend
  <2>2. lock' = lock \/ s \in Recorded
    BY <1>5 DEF Stream!TrySend
  <2>3. at'[s] = "done" /\ \A t \in Stream!Sources : t # s => at'[t] = at[t]
    BY <1>0, <2>1, ProducerMoves
  <2>4. \A r \in overtaken' : r \in overtaken \/ \E x \in Stream!Unsent : id[x] < id[s] /\ r = id[x]
    BY <1>5 DEF Stream!TrySend
  <2>5. \A x \in Stream!Unsent : x \in Stream!Sources /\ x \in Stream!Entries /\ id[x] # 0
    BY IdFacts DEF Stream!Unsent, Minted
  <2>6. Minted'
    <3>1. 0 \notin overtaken'
      BY <2>4, <2>5 DEF Minted
    <3> QED
      BY <1>0, <2>1, <3>1, ProducerMovesOn DEF Minted
  <2>7. LockInv'
    <3>1. \A e \in Stream!Entries : Holds(e)' => Holds(e) /\ e # s
      BY <2>1, <2>3, IdFacts DEF Holds
    <3>2. ASSUME NEW e \in Stream!Entries, Holds(e)' PROVE lock'
      <4>1. s \notin Recorded
        <5> SUFFICES ASSUME s \in Recorded PROVE FALSE
          OBVIOUS
        <5>1. s \in Stream!Entries /\ Holds(s)
          BY <2>1, IdFacts DEF Holds
        <5> QED
          BY <3>1, <3>2, <5>1, OneLockHolder
      <4> QED
        BY <2>2, <3>1, <3>2, <4>1 DEF LockInv
    <3> QED
      BY <2>1, <3>1, <3>2 DEF LockInv
  <2>8. Stream!RecordedOvertakenByPresenceOnly'
    <3> SUFFICES ASSUME NEW f \in Recorded, id[f] \in overtaken'
                 PROVE  \E b \in Beats : id[b] > id[f] /\ at'[b] = "done"
      BY <2>1 DEF Stream!RecordedOvertakenByPresenceOnly
    <3>1. CASE id[f] \in overtaken
      <4>1. PICK b \in Beats : id[b] > id[f] /\ at[b] = "done"
        BY <3>1 DEF Stream!RecordedOvertakenByPresenceOnly
      <4> QED
        BY <2>3, <4>1, IdFacts
    <3>2. CASE id[f] \notin overtaken
      <4>1. PICK x \in Stream!Unsent : id[x] < id[s] /\ id[f] = id[x]
        BY <2>4, <3>2
      <4>2. x = f /\ f \in Stream!Entries
        BY <2>5, <4>1, IdFacts DEF Minted
      <4>3. Holds(f)
        BY <4>1, <4>2 DEF Stream!Unsent, Holds
      <4>4. \A g \in Stream!Entries : id[g] <= id[f]
        BY <4>2, <4>3 DEF LockInv
      <4>5. id[f] \in Nat /\ id[s] \in Nat
        BY <4>2, IdFacts
      <4>6. s \in Beats
        BY <4>1, <4>4, <4>5 DEF Stream!Sources
      <4> QED
        BY <2>3, <4>1, <4>5, <4>6
    <3> QED
      BY <3>1, <3>2
  <2> QED
    BY <2>6, <2>7, <2>8
<1> QED
  BY <1>1, <1>2, <1>3, <1>4, <1>5 DEF Stream!Produce, Stream!Publisher

-----------------------------------------------------------------------------
(* What the stream owes: steps of the producers *)

LEMMA OwedFacts ==
    ASSUME StreamConstants, Stream!TypeOK, Minted
    PROVE  /\ \A r \in Owed : r \in Nat /\ r > 0 /\ r <= clock /\ r \notin base
           /\ \A r \in Owed : r \in log \/ \E e \in Stream!Entries : at[e] = "tx" /\ id[e] = r
           /\ \A r \in log : r \notin base => r \in Owed
<1>1. \A r \in Owed : /\ r \notin base
                      /\ r \in log \/ \E e \in Stream!Entries : at[e] = "tx" /\ id[e] = r
  BY DEF Owed
<1>2. \A e \in Stream!Entries : at[e] = "tx" => id[e] \in Nat /\ id[e] > 0 /\ id[e] <= clock
  <2> SUFFICES ASSUME NEW e \in Stream!Entries, at[e] = "tx" PROVE id[e] \in Nat /\ id[e] > 0 /\ id[e] <= clock
    OBVIOUS
  <2>1. e \in Stream!Sources /\ id[e] \in Nat /\ id[e] <= clock
    BY IdFacts
  <2>2. id[e] # 0
    BY <2>1 DEF Minted
  <2> QED
    BY <2>1, <2>2
<1>3. \A r \in log : r \in Nat /\ r > 0 /\ r <= clock
  BY IdFacts
<1>4. \A r \in log : r \notin base => r \in Owed
  BY DEF Owed
<1> QED
  BY <1>1, <1>2, <1>3, <1>4

\* Frames on the wire and in the channel are ids.
LEMMA FrameFacts ==
    ASSUME StreamConstants, Stream!TypeOK
    PROVE  /\ Len(wire) \in Nat /\ \A i \in 1..Len(wire) : wire[i] \in Nat /\ wire[i] <= clock
           /\ Len(chan) \in Nat /\ \A i \in 1..Len(chan) : chan[i] \in Nat /\ chan[i] <= clock
           /\ cursor \in Nat /\ cursor <= clock /\ clock \in Nat
<1>1. wire \in Seq(Stream!Ids) /\ chan \in Seq(Stream!Ids) /\ clock \in Nat /\ cursor \in Stream!Ids
  BY DEF Stream!TypeOK
<1>2. \A n \in Stream!Ids : n \in Nat /\ n <= clock
  BY <1>1 DEF Stream!Ids
<1>3. Len(wire) \in Nat /\ Len(chan) \in Nat
  BY <1>1
<1>4. (\A i \in 1..Len(wire) : wire[i] \in Stream!Ids) /\ (\A i \in 1..Len(chan) : chan[i] \in Stream!Ids)
  BY <1>1
<1> QED
  BY <1>1, <1>2, <1>3, <1>4

\* More rows and more overtaken rows change nothing for the client, as long as
\* a row it is owed is an old one or newer than every frame.
LEMMA Grow ==
    ASSUME StreamConstants, Stream!TypeOK, Minted, FeedInv,
           UNCHANGED <<conn, epoch, wire, resume, cursor, base, seen>>,
           log \subseteq log', overtaken \subseteq overtaken',
           \A r \in Owed' : r \in Owed \/ (r \in Nat /\ r > clock)
    PROVE  /\ CursorInv' /\ WireInv' /\ \A r : Coming(r) => Coming(r)'
           /\ (conn = "down" => chan' = << >>) => ConnInv'
<1> USE DEF FeedInv
<1>1. /\ Len(wire) \in Nat /\ \A i \in 1..Len(wire) : wire[i] \in Nat /\ wire[i] <= clock
      /\ cursor \in Nat /\ cursor <= clock /\ clock \in Nat
  BY FrameFacts
<1>2. \A r \in Owed : r \in Nat
  BY OwedFacts
<1>3. \A r : Known(r) => Known(r)'
  BY DEF Known
<1>4. CursorInv'
  <2> SUFFICES ASSUME NEW r \in Owed', r < cursor PROVE Known(r)'
    BY DEF CursorInv
  <2>1. r \in Owed
    BY <1>1
  <2> QED
    BY <1>3, <2>1 DEF CursorInv
<1>5. WireInv'
  <2> SUFFICES ASSUME NEW i \in 1..Len(wire), NEW r \in Owed', r < wire[i]
               PROVE  Known(r)' \/ \E k \in 1..(i - 1) : wire[k] = r
    BY DEF WireInv
  <2>1. r \in Owed
    BY <1>1
  <2> QED
    BY <1>3, <2>1 DEF WireInv
<1>6. ASSUME NEW r, Coming(r) PROVE Coming(r)'
  BY <1>3, <1>6 DEF Coming, OnWire
<1>7. (conn = "down" => chan' = << >>) => ConnInv'
  BY DEF ConnInv
<1> QED
  BY <1>4, <1>5, <1>6, <1>7

\* A producer's step that sends nothing.
LEMMA FeedFrame ==
    ASSUME StreamConstants, Stream!TypeOK, Minted, FeedInv,
           UNCHANGED <<Stream!streamVars, Stream!clientVars, overtaken>>,
           log \subseteq log',
           \A r \in Owed' : r \in Owed \/ (r \in Nat /\ r > clock),
           conn # "down" /\ open =>
               \A r \in log' \ base : (r \in log /\ ~ToSend(r)) \/ ToSend(r)'
    PROVE  FeedInv'
<1>0. UNCHANGED <<conn, epoch, drops, chan, open, wire, resume, cursor, base, seen>>
  BY DEF Stream!streamVars, Stream!clientVars
<1>1. CursorInv' /\ WireInv' /\ ConnInv' /\ \A r : Coming(r) => Coming(r)'
  <2>1. conn = "down" => chan' = << >>
    BY <1>0 DEF FeedInv, ConnInv
  <2> QED
    BY <1>0, <2>1, Grow
<1>2. /\ Len(chan) \in Nat /\ \A i \in 1..Len(chan) : chan[i] \in Nat /\ chan[i] <= clock
      /\ clock \in Nat
  BY FrameFacts
<1>3. ChanInv'
  <2> SUFFICES ASSUME NEW i \in 1..Len(chan), NEW r \in Owed', r < chan[i]
               PROVE  Coming(r)' \/ \E k \in 1..(i - 1) : chan[k] = r
    BY <1>0 DEF ChanInv
  <2>1. \A q \in Owed : q \in Nat
    BY OwedFacts
  <2>2. r \in Owed
    BY <1>2
  <2> QED
    BY <1>1, <2>2 DEF FeedInv, ChanInv
<1>4. OpenInv'
  <2> SUFFICES ASSUME conn # "down", open, NEW r \in log' \ base
               PROVE  Coming(r)' \/ ToSend(r)' \/ \E k \in 1..Len(chan) : chan[k] = r
    BY <1>0 DEF OpenInv
  <2>1. CASE ToSend(r)'
    BY <2>1
  <2>2. CASE r \in log /\ ~ToSend(r)
    BY <1>1, <2>2 DEF FeedInv, OpenInv
  <2> QED
    BY <2>1, <2>2
<1> QED
  BY <1>1, <1>3, <1>4 DEF FeedInv

LEMMA FeedProduce ==
    ASSUME StreamConstants, Stream!TypeOK, Minted, FeedInv, Stream!Produce
    PROVE  FeedInv'
<1>0. \A l : l \in {"tx", "publish", "send", "done", "rolledback"} => l \in Stream!PCs /\ l # "idle"
  BY DEF Stream!PCs
<1>1. ASSUME NEW e \in Stream!Entries, Stream!Insert(e) PROVE FeedInv'
  <2>1. /\ e \in Stream!Sources /\ at[e] = "idle" /\ Stream!Mint(e) /\ Stream!Goto(e, "tx")
        /\ UNCHANGED <<target, log, Stream!streamVars, Stream!clientVars, overtaken>>
    BY <1>1, IdFacts DEF Stream!Insert
  <2>2. /\ clock \in Nat /\ id'[e] = clock + 1 /\ \A t \in Stream!Sources : t # e => id'[t] = id[t]
        /\ at'[e] = "tx" /\ \A t \in Stream!Sources : t # e => at'[t] = at[t]
    BY <1>0, <2>1, MintType, ProducerMoves, IdFacts
  <2>3. \A r \in Owed' : r \in Owed \/ (r \in Nat /\ r > clock)
    <3> SUFFICES ASSUME NEW r \in Owed', r \notin Owed PROVE r \in Nat /\ r > clock
      OBVIOUS
    <3>1. base' = base /\ log' = log
      BY <2>1 DEF Stream!clientVars
    <3>2. PICK f \in Stream!Entries : r = id'[f] /\ at'[f] = "tx" /\ r \notin base
      BY <3>1 DEF Owed
    <3>3. f = e
      BY <2>2, <3>2, IdFacts DEF Owed
    <3> QED
      BY <2>2, <3>2, <3>3
  <2>4. \A r : ToSend(r) => ToSend(r)'
    <3> SUFFICES ASSUME NEW r, ToSend(r) PROVE ToSend(r)'
      OBVIOUS
    <3>1. epoch' = epoch /\ target' = target
      BY <2>1 DEF Stream!streamVars
    <3> QED
      BY <2>1, <2>2, <3>1, IdFacts DEF ToSend
  <2> QED
    BY <2>1, <2>3, <2>4, FeedFrame
<1>2. ASSUME NEW e \in Stream!Entries, Stream!Rollback(e) \/ Stream!CommitRow(e) PROVE FeedInv'
  <2>1. /\ e \in Stream!Sources /\ at[e] = "tx"
        /\ UNCHANGED <<clock, id, target, Stream!streamVars, Stream!clientVars, overtaken>>
    BY <1>2, IdFacts DEF Stream!Rollback, Stream!CommitRow
  <2>2. PICK l \in {"publish", "rolledback"} :
            Stream!Goto(e, l) /\ log' = IF l = "publish" THEN log \cup {id[e]} ELSE log
    BY <1>2 DEF Stream!Rollback, Stream!CommitRow
  <2>3. at'[e] = l /\ \A t \in Stream!Sources : t # e => at'[t] = at[t]
    BY <1>0, <2>1, <2>2, ProducerMoves
  <2>4. log \subseteq log' /\ UNCHANGED <<base, epoch>>
    BY <2>1, <2>2 DEF Stream!clientVars, Stream!streamVars
  <2>5. \A r \in Owed' : r \in Owed
    <3> SUFFICES ASSUME NEW r \in Owed' PROVE r \in Owed
      OBVIOUS
    <3>1. CASE r \in log' 
      BY <2>1, <2>2, <2>4, <3>1 DEF Owed
    <3>2. CASE r \notin log'
      <4>1. PICK f \in Stream!Entries : r = id[f] /\ at'[f] = "tx" /\ r \notin base
        BY <2>1, <2>4, <3>2 DEF Owed
      <4>2. at[f] = "tx"
        BY <2>1, <2>3, <4>1, IdFacts
      <4> QED
        BY <4>1, <4>2 DEF Owed
    <3> QED
      BY <3>1, <3>2
  <2>6. \A r : ToSend(r) => ToSend(r)'
    <3> SUFFICES ASSUME NEW r, ToSend(r) PROVE ToSend(r)'
      OBVIOUS
    <3> QED
      BY <2>1, <2>3, <2>4, IdFacts DEF ToSend
  <2>7. \A r \in log' : r \in log \/ ToSend(r)'
    <3> SUFFICES ASSUME NEW r \in log', r \notin log PROVE ToSend(r)'
      OBVIOUS
    <3>1. l = "publish" /\ r = id[e]
      BY <2>2
    <3> QED
      BY <2>1, <2>3, <3>1 DEF ToSend
  <2> QED
    BY <2>1, <2>4, <2>5, <2>6, <2>7, FeedFrame
<1>3. ASSUME NEW b \in Beats, Stream!Beat(b) PROVE FeedInv'
  <2>1. /\ b \in Stream!Sources /\ b \notin Stream!Entries /\ Stream!Mint(b) /\ Stream!Goto(b, "publish")
        /\ UNCHANGED <<target, log, Stream!streamVars, Stream!clientVars, overtaken>>
    BY <1>3, IdFacts DEF Stream!Beat
  <2>2. \A e \in Stream!Entries : id'[e] = id[e] /\ at'[e] = at[e]
    BY <1>0, <2>1, MintType, ProducerMoves, IdFacts
  <2>3. UNCHANGED <<base, epoch>>
    BY <2>1 DEF Stream!clientVars, Stream!streamVars
  <2>4. Owed' = Owed
    BY <2>1, <2>2, <2>3 DEF Owed
  <2>5. \A r : ToSend(r) => ToSend(r)'
    BY <2>1, <2>2, <2>3 DEF ToSend
  <2> QED
    BY <2>1, <2>4, <2>5, FeedFrame
<1>4. ASSUME NEW s \in Stream!Sources, Stream!Snapshot(s) PROVE FeedInv'
  <2>1. /\ at[s] = "publish" /\ Stream!Goto(s, "send")
        /\ UNCHANGED <<clock, id, log, Stream!streamVars, Stream!clientVars, overtaken>>
        /\ target' = [target EXCEPT ![s] = IF conn = "down" \/ ~open THEN 0 ELSE epoch]
    BY <1>4 DEF Stream!Snapshot
  <2>2. at'[s] = "send" /\ \A t \in Stream!Sources : t # s => at'[t] = at[t]
    BY <1>0, <2>1, ProducerMoves
  <2>3. UNCHANGED <<base, epoch>>
    BY <2>1 DEF Stream!clientVars, Stream!streamVars
  <2>4. \A e \in Stream!Entries : at'[e] = "tx" => at[e] = "tx"
    BY <2>2, IdFacts
  <2>5. \A r \in Owed' : r \in Owed
    BY <2>1, <2>3, <2>4 DEF Owed
  <2>6. ASSUME conn # "down", open, NEW r, ToSend(r) PROVE ToSend(r)'
    <3>1. PICK e \in Stream!Entries : id[e] = r /\ (at[e] = "publish" \/ (at[e] = "send" /\ target[e] = epoch))
      BY <2>6 DEF ToSend
    <3>2. e \in Stream!Sources
      BY IdFacts
    <3>3. target \in [Stream!Sources -> Nat]
      BY DEF Stream!TypeOK
    <3>4. CASE e = s
      <4>1. target'[e] = epoch /\ at'[e] = "send"
        BY <2>1, <2>2, <2>6, <3>2, <3>3, <3>4
      <4> QED
        BY <2>1, <2>3, <3>1, <4>1 DEF ToSend
    <3>5. CASE e # s
      <4>1. target'[e] = target[e] /\ at'[e] = at[e]
        BY <2>1, <2>2, <3>2, <3>3, <3>5
      <4> QED
        BY <2>1, <2>3, <3>1, <4>1 DEF ToSend
    <3> QED
      BY <3>4, <3>5
  <2> QED
    BY <2>1, <2>5, <2>6, FeedFrame
<1>5. ASSUME NEW s \in Stream!Sources, Stream!TrySend(s) PROVE FeedInv'
  <2>1. /\ at[s] = "send" /\ Stream!Goto(s, "done")
        /\ UNCHANGED <<clock, id, target, log, conn, epoch, drops, wire, resume, cursor, base, seen>>
    BY <1>5 DEF Stream!TrySend, Stream!clientVars
  <2>2. at'[s] = "done" /\ \A t \in Stream!Sources : t # s => at'[t] = at[t]
    BY <1>0, <2>1, ProducerMoves
  <2>3. \A e \in Stream!Entries : at'[e] = "tx" <=> at[e] = "tx"
    BY <2>1, <2>2, IdFacts
  <2>4. Owed' = Owed
    BY <2>1, <2>3 DEF Owed
  <2>5. overtaken \subseteq overtaken'
    BY <1>5 DEF Stream!TrySend
  <2>6. CASE ~Stream!Sent(s)
    <3>1. UNCHANGED <<chan, open, overtaken>>
      BY <1>5, <2>6 DEF Stream!TrySend
    <3>2. ASSUME conn # "down", open, NEW r, ToSend(r) PROVE ToSend(r)'
      <4>1. PICK e \in Stream!Entries : id[e] = r /\ (at[e] = "publish" \/ (at[e] = "send" /\ target[e] = epoch))
        BY <3>2 DEF ToSend
      <4>2. epoch # 0
        BY <3>2 DEF FeedInv, ConnInv
      <4>3. e # s
        BY <2>1, <2>6, <3>2, <4>1, <4>2 DEF Stream!Sent
      <4> QED
        BY <2>1, <2>2, <4>1, <4>3, IdFacts DEF ToSend
    <3>3. UNCHANGED <<Stream!streamVars, Stream!clientVars, overtaken>>
      BY <2>1, <3>1 DEF Stream!streamVars, Stream!clientVars
    <3> QED
      BY <2>1, <2>4, <3>2, <3>3, FeedFrame
  <2>7. CASE Stream!Sent(s)
    <3>0. conn # "down" /\ open
      BY <2>7 DEF Stream!Sent
    <3>1. \A x \in Stream!Entries : at[x] \in {"tx", "publish", "send"} /\ id[x] < id[s] => id[x] \in overtaken'
      BY <1>5, <2>7 DEF Stream!TrySend, Stream!Unsent
    <3>2. CursorInv' /\ WireInv' /\ ConnInv' /\ \A r : Coming(r) => Coming(r)'
      <4>1. log \subseteq log' /\ (conn = "down" => chan' = << >>) /\ \A r \in Owed' : r \in Owed \/ (r \in Nat /\ r > clock)
        BY <2>1, <2>4, <3>0
      <4> QED
        BY <2>1, <2>5, <4>1, Grow
    <3>3. Len(chan) \in Nat /\ chan \in Seq(Stream!Ids) /\ id[s] \in Stream!Ids
      BY DEF Stream!TypeOK
    <3>4. CASE Len(chan) < Buffer
      <4>1. chan' = Append(chan, id[s]) /\ open' = open
        BY <1>5, <2>7, <3>4 DEF Stream!TrySend
      <4>2. /\ Len(chan') = Len(chan) + 1 /\ chan'[Len(chan) + 1] = id[s]
            /\ \A i \in 1..Len(chan) : chan'[i] = chan[i]
        BY <3>3, <4>1
      <4>3. ChanInv'
        <5> SUFFICES ASSUME NEW i \in 1..(Len(chan) + 1), NEW r \in Owed, r < chan'[i]
                     PROVE  Coming(r)' \/ \E k \in 1..(i - 1) : chan'[k] = r
          BY <2>4, <4>2 DEF ChanInv
        <5>1. CASE i \in 1..Len(chan)
          <6>1. Coming(r) \/ \E k \in 1..(i - 1) : chan[k] = r
            BY <4>2, <5>1 DEF FeedInv, ChanInv
          <6>2. \A k \in 1..(i - 1) : k \in 1..Len(chan)
            BY <3>3, <5>1
          <6> QED
            BY <3>2, <4>2, <6>1, <6>2
        <5>2. CASE i = Len(chan) + 1
          <6>1. r < id[s] /\ 1..(i - 1) = 1..Len(chan)
            BY <3>3, <4>2, <5>2
          <6>2. CASE \E e \in Stream!Entries : id[e] = r /\ at[e] \in {"tx", "publish", "send"}
            BY <3>1, <6>1, <6>2 DEF Coming, Known
          <6>3. CASE ~\E e \in Stream!Entries : id[e] = r /\ at[e] \in {"tx", "publish", "send"}
            <7>1. r \in log \ base
              BY <6>3, OwedFacts
            <7>2. Coming(r) \/ \E k \in 1..Len(chan) : chan[k] = r
              BY <3>0, <6>3, <7>1 DEF FeedInv, OpenInv, ToSend
            <7> QED
              BY <3>2, <4>2, <6>1, <7>2
          <6> QED
            BY <6>2, <6>3
        <5> QED
          BY <3>3, <5>1, <5>2
      <4>4. OpenInv'
        <5> SUFFICES ASSUME NEW r \in log \ base
                     PROVE  Coming(r)' \/ ToSend(r)' \/ \E k \in 1..(Len(chan) + 1) : chan'[k] = r
          BY <2>1, <4>2 DEF OpenInv
        <5>0. Len(chan) + 1 \in 1..(Len(chan) + 1) /\ \A k \in 1..Len(chan) : k \in 1..(Len(chan) + 1)
          BY <3>3
        <5>1. CASE ToSend(r)
          <6>1. PICK e \in Stream!Entries : id[e] = r /\ (at[e] = "publish" \/ (at[e] = "send" /\ target[e] = epoch))
            BY <5>1 DEF ToSend
          <6>2. CASE e = s
            BY <4>2, <5>0, <6>1, <6>2
          <6>3. CASE e # s
            BY <2>1, <2>2, <6>1, <6>3, IdFacts DEF ToSend
          <6> QED
            BY <6>2, <6>3
        <5>2. CASE ~ToSend(r)
          <6>1. Coming(r) \/ \E k \in 1..Len(chan) : chan[k] = r
            BY <3>0, <5>2 DEF FeedInv, OpenInv
          <6> QED
            BY <3>2, <4>2, <5>0, <6>1
        <5> QED
          BY <5>1, <5>2
      <4> QED
        BY <3>2, <4>3, <4>4 DEF FeedInv
    <3>5. CASE ~(Len(chan) < Buffer)
      <4>1. chan' = chan /\ open' = FALSE
        BY <1>5, <2>7, <3>5 DEF Stream!TrySend
      <4>2. ChanInv'
        BY <2>4, <3>2, <4>1 DEF FeedInv, ChanInv
      <4>3. OpenInv'
        BY <4>1 DEF OpenInv
      <4> QED
        BY <3>2, <4>2, <4>3 DEF FeedInv
    <3> QED
      BY <3>4, <3>5
  <2> QED
    BY <2>6, <2>7
<1> QED
  BY <1>1, <1>2, <1>3, <1>4, <1>5 DEF Stream!Produce, Stream!Publisher

-----------------------------------------------------------------------------
(* What the stream owes: steps of the server and of the client *)

LEMMA FeedConnect ==
    ASSUME StreamConstants, Stream!TypeOK, Minted, FeedInv, Stream!Connect
    PROVE  FeedInv'
<1>1. /\ conn' = "armed" /\ chan' = << >> /\ open' = TRUE /\ wire' = << >> /\ resume' = cursor
      /\ epoch' = epoch + 1 /\ base' = IF cursor = 0 THEN log ELSE base
      /\ UNCHANGED <<id, at, log, cursor, seen, overtaken>>
  BY DEF Stream!Connect, Stream!producerVars
<1>2. Len(<< >>) = 0 /\ 1..0 = {} /\ epoch' # 0 /\ cursor \in Nat
  BY <1>1, FrameFacts DEF Stream!TypeOK
<1>3. ConnInv'
  BY <1>1, <1>2 DEF FeedInv, ConnInv
<1>4. CursorInv'
  <2>1. CASE cursor = 0
    <3> SUFFICES ASSUME NEW r \in Owed', r < 0 PROVE FALSE
      BY <1>1, <2>1 DEF CursorInv
    <3>1. r \in log \/ \E e \in Stream!Entries : at[e] = "tx" /\ id[e] = r
      BY <1>1 DEF Owed
    <3>2. r \in Nat
      BY <3>1, IdFacts
    <3> QED
      BY <3>2
  <2>2. CASE cursor # 0
    <3>1. Owed' = Owed
      BY <1>1, <2>2 DEF Owed
    <3> QED
      BY <1>1, <3>1 DEF FeedInv, CursorInv, Known
  <2> QED
    BY <2>1, <2>2
<1>5. WireInv' /\ ChanInv'
  BY <1>1, <1>2 DEF WireInv, ChanInv
<1>6. OpenInv'
  <2> SUFFICES ASSUME NEW r \in log \ base' PROVE Coming(r)'
    BY <1>1 DEF OpenInv
  <2>1. cursor # 0 /\ r \in log \ base
    BY <1>1
  <2>2. r \in Nat /\ r \in Owed
    BY <2>1, IdFacts, OwedFacts
  <2>3. CASE r < cursor
    BY <1>1, <2>2, <2>3 DEF FeedInv, CursorInv, Coming, Known
  <2>4. CASE r = cursor
    BY <1>1, <2>1, <2>4 DEF FeedInv, ConnInv, Coming, Known
  <2>5. CASE r > cursor
    BY <1>1, <2>1, <2>5 DEF Coming
  <2> QED
    BY <1>2, <2>2, <2>3, <2>4, <2>5
<1> QED
  BY <1>3, <1>4, <1>5, <1>6 DEF FeedInv

\* The rows, the client and the channel stay; the wire is replaced by one that
\* keeps what was coming.
LEMMA Rewire ==
    ASSUME StreamConstants, Stream!TypeOK, Minted, FeedInv, WireInv', ConnInv',
           UNCHANGED <<id, at, target, log, epoch, chan, open, cursor, base, seen, overtaken>>,
           conn # "down",
           \A r : Coming(r) => Coming(r)'
    PROVE  FeedInv'
<1>1. Owed' = Owed
  BY DEF Owed
<1>2. CursorInv'
  BY <1>1 DEF FeedInv, CursorInv, Known
<1>3. ChanInv'
  BY <1>1 DEF FeedInv, ChanInv
<1>4. \A r : ToSend(r) => ToSend(r)'
  BY DEF ToSend
<1>5. OpenInv'
  BY <1>4 DEF FeedInv, OpenInv
<1> QED
  BY <1>2, <1>3, <1>5 DEF FeedInv

LEMMA FeedReplay ==
    ASSUME StreamConstants, Stream!TypeOK, Minted, LockInv, FeedInv, Stream!ReplayThenTail
    PROVE  FeedInv'
<1>1. /\ conn = "armed" /\ conn' = "live" /\ wire = << >> /\ resume = cursor
      /\ UNCHANGED <<id, at, target, log, epoch, chan, open, resume, cursor, base, seen, overtaken>>
  BY DEF Stream!ReplayThenTail, Stream!producerVars, Stream!clientVars, FeedInv, ConnInv
<1>2. ConnInv'
  BY <1>1 DEF FeedInv, ConnInv
<1>3. Owed' = Owed
  BY <1>1 DEF Owed
<1>4. \A r : Known(r)' <=> Known(r)
  BY <1>1 DEF Known
<1>5. \A r : ~OnWire(r)
  <2>1. Len(<< >>) = 0 /\ 1..0 = {}
    OBVIOUS
  <2> QED
    BY <1>1, <2>1 DEF OnWire
<1>6. CASE resume = 0 /\ wire' = << >>
  <2>1. Len(<< >>) = 0 /\ 1..0 = {}
    OBVIOUS
  <2>2. WireInv'
    BY <1>6, <2>1 DEF WireInv
  <2>3. \A r : Coming(r) => Coming(r)'
    BY <1>4, <1>5, <1>6 DEF Coming
  <2> QED
    BY <1>1, <1>2, <2>2, <2>3, Rewire
<1>7. CASE wire' = <<Stream!Gap>>
  <2>1. Len(<<Stream!Gap>>) = 1 /\ 1..1 = {1} /\ <<Stream!Gap>>[1] = Stream!Gap
    OBVIOUS
  <2>2. WireInv'
    <3> SUFFICES ASSUME NEW r \in Owed, r < Stream!Gap PROVE FALSE
      BY <1>3, <1>7, <2>1 DEF WireInv
    <3>1. r \in Nat
      BY OwedFacts
    <3> QED
      BY <3>1 DEF Stream!Gap
  <2>3. OnWire(Stream!Gap)'
    BY <1>7, <2>1 DEF OnWire
  <2>4. \A r : Coming(r) => Coming(r)'
    BY <1>1, <1>4, <1>5, <2>3 DEF Coming
  <2> QED
    BY <1>1, <1>2, <2>2, <2>4, Rewire
<1>8. ASSUME resume # 0, NEW rows \in Stream!OldestFirst(Stream!Missed), wire' = Stream!ReplayAfter(rows) PROVE FeedInv'
  <2>1. \A r \in Stream!Missed : r \in log /\ r \in Nat /\ r > resume
    BY IdFacts DEF Stream!Missed
  <2>2. IsFiniteSet(Stream!Missed)
    <3>1. IsFiniteSet(log) /\ Stream!Missed \subseteq log
      BY <2>1 DEF Minted
    <3> QED
      BY <3>1, FS_Subset, Zenon
  <2>3. /\ wire' \in Seq(Stream!Missed \cup {Stream!Gap})
        /\ \A i \in 1..Len(wire'), r \in Stream!Missed : r < wire'[i] => \E k \in 1..(i - 1) : wire'[k] = r
        /\ (\A r \in Stream!Missed : \E k \in 1..Len(wire') : wire'[k] = r) \/ \E k \in 1..Len(wire') : wire'[k] = Stream!Gap
    <3>1. Stream!Missed \subseteq Nat /\ MaxReplay \in Nat
      BY <2>1 DEF StreamConstants
    <3>2. LET w == Stream!ReplayAfter(rows) IN
          /\ w \in Seq(Stream!Missed \cup {Stream!Gap})
          /\ \A i \in 1..Len(w), r \in Stream!Missed : r < w[i] => \E k \in 1..(i - 1) : w[k] = r
          /\ (\A r \in Stream!Missed : \E k \in 1..Len(w) : w[k] = r) \/ \E k \in 1..Len(w) : w[k] = Stream!Gap
      BY <1>8, <2>2, <3>1, ReplayFacts, Zenon
    <3> QED
      BY <1>8, <3>2, Zenon
  <2>4. \A i \in 1..Len(wire') : wire'[i] \in Stream!Missed \cup {Stream!Gap}
    BY <2>3
  <2>5. WireInv'
    <3> SUFFICES ASSUME NEW i \in 1..Len(wire'), NEW r \in Owed, r < wire'[i]
                 PROVE  Known(r) \/ \E k \in 1..(i - 1) : wire'[k] = r
      BY <1>3, <1>4 DEF WireInv
    <3>1. r \in Nat /\ r > 0 /\ cursor \in Nat
      BY OwedFacts, IdFacts
    <3>2. wire'[i] \in log
      <4>1. wire'[i] # Stream!Gap
        BY <3>1 DEF Stream!Gap
      <4> QED
        BY <2>1, <2>4, <4>1
    <3>3. r \in log
      <4> SUFFICES ASSUME r \notin log PROVE FALSE
        OBVIOUS
      <4>1. PICK e \in Stream!Entries : at[e] = "tx" /\ id[e] = r
        BY OwedFacts
      <4>2. wire'[i] <= r
        BY <3>2, <4>1 DEF LockInv, Holds
      <4>3. wire'[i] \in Nat
        BY <3>2, IdFacts
      <4> QED
        BY <3>1, <4>2, <4>3
    <3>4. CASE r < cursor
      BY <3>4 DEF FeedInv, CursorInv
    <3>5. CASE r = cursor
      BY <3>1, <3>5 DEF FeedInv, ConnInv, Known
    <3>6. CASE r > cursor
      <4>1. r \in Stream!Missed
        BY <1>1, <3>3, <3>6 DEF Stream!Missed
      <4> QED
        BY <2>3, <4>1
    <3> QED
      BY <3>1, <3>4, <3>5, <3>6
  <2>6. ASSUME NEW r, Coming(r) PROVE Coming(r)'
    <3>1. CASE Known(r)
      BY <1>4, <3>1 DEF Coming
    <3>2. CASE ~Known(r)
      <4>1. r \in Stream!Missed /\ r \in log'
        BY <1>1, <1>5, <2>6, <3>2 DEF Coming, Stream!Missed
      <4>2. OnWire(r)' \/ OnWire(Stream!Gap)'
        BY <2>3, <4>1 DEF OnWire
      <4> QED
        BY <4>1, <4>2 DEF Coming
    <3> QED
      BY <3>1, <3>2
  <2> QED
    BY <1>1, <1>2, <2>5, <2>6, Rewire
<1> QED
  BY <1>6, <1>7, <1>8 DEF Stream!ReplayThenTail

LEMMA FeedTail ==
    ASSUME StreamConstants, Stream!TypeOK, Minted, FeedInv, Stream!Tail1
    PROVE  FeedInv'
<1>1. /\ conn = "live" /\ chan # << >> /\ wire = << >> /\ wire' = <<Head(chan)>> /\ chan' = Tail(chan)
      /\ UNCHANGED <<id, at, target, log, conn, epoch, open, resume, cursor, base, seen, overtaken>>
  BY DEF Stream!Tail1, Stream!producerVars, Stream!clientVars
<1>2. Len(<< >>) = 0 /\ 1..0 = {} /\ 1..1 = {1}
  OBVIOUS
<1>3. Len(wire') = 1 /\ wire'[1] = chan[1]
  <2>1. chan \in Seq(Stream!Ids)
    BY DEF Stream!TypeOK
  <2>2. Head(chan) = chan[1]
    BY <1>1, <2>1
  <2> QED
    BY <1>1, <2>2
<1>4. /\ Len(chan) \in Nat /\ Len(chan) > 0 /\ Len(chan') = Len(chan) - 1
      /\ \A i \in 1..(Len(chan) - 1) : chan'[i] = chan[i + 1]
  <2>1. chan \in Seq(Stream!Ids)
    BY DEF Stream!TypeOK
  <2> QED
    BY <1>1, <2>1
<1>5. Owed' = Owed /\ (\A r : ToSend(r)' <=> ToSend(r)) /\ \A r : Known(r)' <=> Known(r)
  BY <1>1 DEF Owed, ToSend, Known
<1>6. \A r : Coming(r) => Known(r)
  BY <1>1, <1>2 DEF Coming, OnWire
<1>7. \A r : Known(r) \/ r = chan[1] => Coming(r)'
  BY <1>2, <1>3, <1>5 DEF Coming, OnWire
<1>8. ConnInv' /\ CursorInv'
  BY <1>1, <1>5 DEF FeedInv, ConnInv, CursorInv
<1>9. WireInv'
  <2> SUFFICES ASSUME NEW r \in Owed, r < chan[1] PROVE Known(r)
    BY <1>2, <1>3, <1>5 DEF WireInv
  <2>1. 1 \in 1..Len(chan) /\ 1..(1 - 1) = {}
    BY <1>4
  <2> QED
    BY <1>6, <2>1 DEF FeedInv, ChanInv
<1>10. ASSUME NEW n \in 0..Len(chan), NEW r, \E k \in 1..n : chan[k] = r
       PROVE  Coming(r)' \/ \E k \in 1..(n - 1) : chan'[k] = r
  <2>1. PICK k \in 1..n : chan[k] = r
    BY <1>10
  <2>2. CASE k = 1
    BY <1>7, <2>1, <2>2
  <2>3. CASE k # 1
    <3>1. k - 1 \in 1..(n - 1) /\ k - 1 \in 1..(Len(chan) - 1) /\ (k - 1) + 1 = k
      BY <1>4, <2>1, <2>3
    <3>2. chan'[k - 1] = r
      BY <1>4, <2>1, <3>1
    <3> QED
      BY <3>1, <3>2
  <2> QED
    BY <2>2, <2>3
<1>11. ChanInv'
  <2> SUFFICES ASSUME NEW i \in 1..(Len(chan) - 1), NEW r \in Owed, r < chan'[i]
               PROVE  Coming(r)' \/ \E k \in 1..(i - 1) : chan'[k] = r
    BY <1>4, <1>5 DEF ChanInv
  <2>1. i + 1 \in 1..Len(chan) /\ r < chan[i + 1] /\ (i + 1) - 1 = i /\ i \in 0..Len(chan)
    BY <1>4
  <2>2. Coming(r) \/ \E k \in 1..i : chan[k] = r
    BY <2>1 DEF FeedInv, ChanInv
  <2> QED
    BY <1>6, <1>7, <1>10, <2>1, <2>2
<1>12. OpenInv'
  <2> SUFFICES ASSUME open, NEW r \in log \ base
               PROVE  Coming(r)' \/ ToSend(r)' \/ \E k \in 1..(Len(chan) - 1) : chan'[k] = r
    BY <1>1, <1>4 DEF OpenInv
  <2>1. Coming(r) \/ ToSend(r) \/ \E k \in 1..Len(chan) : chan[k] = r
    BY <1>1 DEF FeedInv, OpenInv
  <2>2. Len(chan) \in 0..Len(chan)
    BY <1>4
  <2> QED
    BY <1>5, <1>6, <1>7, <1>10, <2>1, <2>2
<1> QED
  BY <1>8, <1>9, <1>11, <1>12 DEF FeedInv

LEMMA FeedReceive ==
    ASSUME StreamConstants, Stream!TypeOK, Minted, FeedInv, Stream!Receive
    PROVE  FeedInv'
<1>1. /\ wire # << >> /\ wire' = Tail(wire)
      /\ UNCHANGED <<id, at, target, log, conn, epoch, chan, open, resume, base, overtaken>>
  BY DEF Stream!Receive, Stream!producerVars
<1>2. conn = "live"
  BY <1>1 DEF FeedInv, ConnInv, Stream!TypeOK
<1>3. /\ Len(wire) \in Nat /\ Len(wire) > 0 /\ Len(wire') = Len(wire) - 1 /\ Head(wire) = wire[1]
      /\ \A i \in 1..(Len(wire) - 1) : wire'[i] = wire[i + 1]
  <2>1. wire \in Seq(Stream!Ids)
    BY DEF Stream!TypeOK
  <2> QED
    BY <1>1, <2>1
<1>4. Owed' = Owed /\ \A r : ToSend(r)' <=> ToSend(r)
  BY <1>1 DEF Owed, ToSend
<1>5. seen \subseteq seen' /\ (wire[1] # Stream!Gap => wire[1] \in seen' /\ cursor' = wire[1])
      /\ (wire[1] = Stream!Gap => log \subseteq seen' /\ cursor' = cursor)
  BY <1>3 DEF Stream!Receive
<1>6. \A r : Known(r) => Known(r)'
  BY <1>1, <1>5 DEF Known
<1>7. ASSUME NEW n \in 0..Len(wire), NEW r, r # Stream!Gap \/ wire[1] # Stream!Gap, \E k \in 1..n : wire[k] = r
      PROVE  Known(r)' \/ \E k \in 1..(n - 1) : wire'[k] = r
  <2>1. PICK k \in 1..n : wire[k] = r
    BY <1>7
  <2>2. CASE k = 1
    BY <1>5, <1>7, <2>1, <2>2 DEF Known
  <2>3. CASE k # 1
    <3>1. k - 1 \in 1..(n - 1) /\ k - 1 \in 1..(Len(wire) - 1) /\ (k - 1) + 1 = k
      BY <1>3, <2>1, <2>3
    <3>2. wire'[k - 1] = r
      BY <1>3, <2>1, <3>1
    <3> QED
      BY <3>1, <3>2
  <2> QED
    BY <2>2, <2>3
<1>8. Len(wire) \in 0..Len(wire)
  BY <1>3
<1>9. ASSUME NEW r, r # Stream!Gap, Coming(r) PROVE Coming(r)'
  <2>1. CASE Known(r)
    BY <1>6, <2>1 DEF Coming
  <2>2. CASE OnWire(r)
    BY <1>3, <1>7, <1>8, <1>9, <2>2 DEF Coming, OnWire
  <2>3. CASE r \in log /\ OnWire(Stream!Gap)
    <3>1. CASE wire[1] = Stream!Gap
      BY <1>5, <2>3, <3>1 DEF Coming, Known
    <3>2. CASE wire[1] # Stream!Gap
      <4>1. PICK k \in 1..Len(wire) : wire[k] = Stream!Gap
        BY <2>3 DEF OnWire
      <4>2. k - 1 \in 1..(Len(wire) - 1) /\ (k - 1) + 1 = k
        BY <1>3, <3>2, <4>1
      <4>3. wire'[k - 1] = Stream!Gap
        BY <1>3, <4>1, <4>2
      <4> QED
        BY <1>1, <1>3, <2>3, <4>2, <4>3 DEF Coming, OnWire
    <3> QED
      BY <3>1, <3>2
  <2> QED
    BY <1>2, <1>9, <2>1, <2>2, <2>3 DEF Coming
<1>10. \A r \in Owed : r # Stream!Gap
  BY OwedFacts DEF Stream!Gap
<1>11. ConnInv'
  <2>1. cursor' # 0 => cursor' \in seen'
    BY <1>5 DEF FeedInv, ConnInv
  <2> QED
    BY <1>1, <1>2, <2>1 DEF FeedInv, ConnInv
<1>12. CursorInv'
  <2> SUFFICES ASSUME NEW r \in Owed, r < cursor' PROVE Known(r)'
    BY <1>4 DEF CursorInv
  <2>1. CASE wire[1] = Stream!Gap
    BY <1>5, <1>6, <2>1 DEF FeedInv, CursorInv
  <2>2. CASE wire[1] # Stream!Gap
    <3>1. 1 \in 1..Len(wire) /\ 1..(1 - 1) = {}
      BY <1>3
    <3> QED
      BY <1>5, <1>6, <2>2, <3>1 DEF FeedInv, WireInv
  <2> QED
    BY <2>1, <2>2
<1>13. WireInv'
  <2> SUFFICES ASSUME NEW i \in 1..(Len(wire) - 1), NEW r \in Owed, r < wire'[i]
               PROVE  Known(r)' \/ \E k \in 1..(i - 1) : wire'[k] = r
    BY <1>3, <1>4 DEF WireInv
  <2>1. i + 1 \in 1..Len(wire) /\ r < wire[i + 1] /\ (i + 1) - 1 = i /\ i \in 0..Len(wire)
    BY <1>3
  <2>2. Known(r) \/ \E k \in 1..i : wire[k] = r
    BY <2>1 DEF FeedInv, WireInv
  <2> QED
    BY <1>6, <1>7, <1>10, <2>1, <2>2
<1>14. ChanInv'
  BY <1>1, <1>4, <1>9, <1>10 DEF FeedInv, ChanInv
<1>15. OpenInv'
  <2>1. \A r \in log : r # Stream!Gap
    BY DEF Minted, Stream!Gap
  <2> QED
    BY <1>1, <1>4, <1>9, <2>1 DEF FeedInv, OpenInv
<1> QED
  BY <1>11, <1>12, <1>13, <1>14, <1>15 DEF FeedInv

\* The response ends or the connection drops: nothing is under way any more.
LEMMA FeedDown ==
    ASSUME StreamConstants, Stream!TypeOK, Minted, FeedInv, Stream!StreamEnds \/ Stream!Drop
    PROVE  FeedInv'
<1>1. /\ conn' = "down" /\ wire' = << >> /\ chan' = << >>
      /\ UNCHANGED <<id, at, log, cursor, base, seen, overtaken>>
  BY DEF Stream!StreamEnds, Stream!Drop, Stream!producerVars, Stream!clientVars
<1>2. Len(<< >>) = 0 /\ 1..0 = {}
  OBVIOUS
<1>3. Owed' = Owed
  BY <1>1 DEF Owed
<1>4. ConnInv' /\ CursorInv'
  BY <1>1, <1>3 DEF FeedInv, ConnInv, CursorInv, Known
<1>5. WireInv' /\ ChanInv' /\ OpenInv'
  BY <1>1, <1>2 DEF WireInv, ChanInv, OpenInv
<1> QED
  BY <1>4, <1>5 DEF FeedInv

-----------------------------------------------------------------------------
(* The invariant *)

LEMMA StreamInitInv ==
    ASSUME StreamConstants, Stream!Init
    PROVE  StreamInv
<1>1. /\ cursor \in {0, 1} /\ clock = cursor /\ id = [s \in Stream!Sources |-> 0] /\ at = [s \in Stream!Sources |-> "idle"]
      /\ log = 1..cursor /\ seen = 1..cursor /\ base = {} /\ overtaken = {}
      /\ conn = "down" /\ chan = << >> /\ wire = << >> /\ Stream!Entries \subseteq Stream!Sources /\ Recorded \subseteq Stream!Sources
  BY DEF Stream!Init, Stream!Entries, Stream!Sources
<1>2. Stream!TypeOK
  <2>1. << >> \in Seq(Stream!Ids) /\ Len(<< >>) = 0 /\ 0 <= Buffer /\ 0 \in Stream!Ids /\ 1..cursor \subseteq Stream!Ids /\ cursor \in Stream!Ids /\ 0 \in 0..MaxDrops
    BY <1>1 DEF Stream!Ids, StreamConstants
  <2>2. "idle" \in Stream!PCs
    BY DEF Stream!PCs
  <2>3. id \in [Stream!Sources -> Stream!Ids] /\ at \in [Stream!Sources -> Stream!PCs] /\ target \in [Stream!Sources -> Nat]
    BY <2>1, <2>2 DEF Stream!Init
  <2>4. clock \in Nat /\ chan \in Seq(Stream!Ids) /\ Len(chan) <= Buffer /\ wire \in Seq(Stream!Ids)
    BY <1>1, <2>1
  <2> QED
    BY <1>1, <2>1, <2>3, <2>4 DEF Stream!Init, Stream!TypeOK
<1>3. Minted
  <2>1. IsFiniteSet(1..cursor) /\ 0 \notin 1..cursor
    BY <1>1, FS_Interval
  <2> QED
    BY <1>1, <2>1 DEF Minted
<1>4. LockInv /\ Stream!RecordedOvertakenByPresenceOnly
  BY <1>1 DEF LockInv, Holds, Stream!RecordedOvertakenByPresenceOnly
<1>5. ConnInv
  BY <1>1 DEF ConnInv
<1>6. CursorInv
  BY <1>1 DEF CursorInv, Owed, Known
<1>7. WireInv /\ ChanInv /\ OpenInv
  <2>1. Len(<< >>) = 0 /\ 1..0 = {}
    OBVIOUS
  <2> QED
    BY <1>1, <2>1 DEF WireInv, ChanInv, OpenInv
<1> QED
  BY <1>2, <1>3, <1>4, <1>5, <1>6, <1>7 DEF StreamInv, FeedInv

LEMMA StreamNextInv ==
    ASSUME StreamInv, [Stream!Next]_Stream!vars
    PROVE  StreamInv'
<1>0. StreamConstants /\ Stream!TypeOK /\ Minted /\ LockInv /\ Stream!RecordedOvertakenByPresenceOnly /\ FeedInv /\ StreamConstants'
  BY DEF StreamInv, StreamConstants
<1>1. Stream!TypeOK'
  BY <1>0, StreamTypeStep DEF Minted
<1>2. CASE Stream!Produce
  BY <1>0, <1>1, <1>2, ProduceStep, FeedProduce DEF StreamInv
<1>3. ASSUME UNCHANGED <<Stream!producerVars, overtaken>> PROVE Minted' /\ LockInv' /\ Stream!RecordedOvertakenByPresenceOnly'
  BY <1>0, <1>3 DEF Stream!producerVars, Minted, LockInv, Holds, Stream!RecordedOvertakenByPresenceOnly
<1>4. CASE Stream!Stream \/ Stream!Receive
  <2>1. UNCHANGED <<Stream!producerVars, overtaken>>
    BY <1>4 DEF Stream!Stream, Stream!Connect, Stream!ReplayThenTail, Stream!Tail1, Stream!StreamEnds, Stream!Drop, Stream!Receive
  <2>2. FeedInv'
    BY <1>0, <1>4, FeedConnect, FeedReplay, FeedTail, FeedReceive, FeedDown DEF Stream!Stream
  <2> QED
    BY <1>0, <1>1, <1>3, <2>1, <2>2 DEF StreamInv
<1>5. CASE UNCHANGED Stream!vars
  <2>1. UNCHANGED <<Stream!producerVars, overtaken>>
    BY <1>5 DEF Stream!vars, Stream!producerVars
  <2>2. Owed' = Owed
    BY <1>5 DEF Stream!vars, Owed
  <2>3. FeedInv'
    <3>1. /\ UNCHANGED <<id, at, target, log, conn, epoch, chan, open, wire>>
          /\ UNCHANGED <<cursor, resume, base, seen, overtaken>>
      BY <1>5 DEF Stream!vars
    <3>2. \A r : Known(r)' = Known(r) /\ Coming(r)' = Coming(r) /\ ToSend(r)' = ToSend(r)
      BY <3>1 DEF Known, OnWire, Coming, ToSend
    <3> QED
      BY <1>0, <2>2, <3>1, <3>2 DEF FeedInv, ConnInv, CursorInv, WireInv, ChanInv, OpenInv
  <2> QED
    BY <1>0, <1>1, <1>3, <2>1, <2>3 DEF StreamInv
<1> QED
  BY <1>2, <1>4, <1>5 DEF Stream!Next

\* The assumptions of FeedState are the invariant's.
LEMMA StreamConstantsHold == StreamConstants
BY BoundsAssumption, KindsAssumption DEF StreamConstants, Entries, Stream!Entries

\* The inductive invariant: ids are minted under the lock in order, the cursor
\* has left behind only rows the client knows, and every row a frame under way
\* would leave behind is known by then.
THEOREM StreamInvariance == Stream!Spec => []StreamInv
<1>1. Stream!Init => StreamInv
  BY StreamInitInv, StreamConstantsHold
<1>2. StreamInv /\ [Stream!Next]_Stream!vars => StreamInv'
  BY StreamNextInv
<1>3. Stream!Spec => Stream!Init /\ [][Stream!Next]_Stream!vars
  BY DEF Stream!Spec
<1> QED
  BY <1>1, <1>2, <1>3, PTL

\* The producers, the subscriber and the client keep well-formed state: every id
\* stored, sent or received was minted, and the channel never exceeds
\* Options.Buffer (hub.go trySend), in every instance.
THEOREM StreamTypeCorrect == Stream!Spec => []Stream!TypeOK
<1>1. StreamInv => Stream!TypeOK
  BY DEF StreamInv
<1> QED
  BY <1>1, StreamInvariance, PTL

\* Subscribe, replay, tail, truncation, eviction and drops lose no row: the
\* cursor (Last-Event-ID) passes a committed row only when the client has
\* received or refetched it, or when its event was still unsent as a larger id
\* was sent, for any producers, buffer, replay cap and number of drops.
THEOREM NoLossButOvertaking == Stream!Spec => []LossOnlyByOvertaking
<1>1. StreamInv => LossOnlyByOvertaking
  <2> SUFFICES ASSUME StreamInv, NEW r \in log, Covered(r), r < cursor PROVE Known(r)
    BY DEF LossOnlyByOvertaking, Known
  <2>1. r \in Owed
    BY DEF Covered, Owed
  <2> QED
    BY <2>1 DEF StreamInv, FeedInv, CursorInv
<1> QED
  BY <1>1, StreamInvariance, PTL

\* A row of Log.Record, fanned out before DB.Write releases its lock, is
\* overtaken by presence events only, for any number of concurrent producers.
THEOREM OnlyPresenceOvertakesRecorded == Stream!Spec => []RecordedOvertakenByPresenceOnly
<1>1. StreamInv => RecordedOvertakenByPresenceOnly
  BY DEF StreamInv, RecordedOvertakenByPresenceOnly, Stream!RecordedOvertakenByPresenceOnly
<1> QED
  BY <1>1, StreamInvariance, PTL
=============================================================================
