---------------------------- MODULE ThrottleProofs ----------------------------
(* Proofs about Throttle for any number of keys, requests and attempts, any
   rules and any table size.                                                 *)
EXTENDS Throttle, FiniteSetTheorems, TLAPS

\* What an entry can say: its last change is past, its lockout ends in time.
Ladder ==
    \A s \in Scopes, k \in Keys : table[s][k] # NoEntry =>
        /\ table[s][k].lastAt <= now
        /\ table[s][k].until <= table[s][k].lastAt + MaxLockout(s)

\* The table and the lockouts handed out agree while a lockout lasts.
Promised ==
    \A s \in Scopes, k \in Keys :
        /\ now < promise[s][k] => table[s][k] # NoEntry /\ table[s][k].until = promise[s][k]
        /\ table[s][k] # NoEntry /\ now < table[s][k].until => promise[s][k] = table[s][k].until

\* What the last sweep left was not stale then.
Fresh ==
    /\ \A s \in Scopes : sweptAt[s] <= now
    /\ \A s \in Scopes, k \in Keys :
        table[s][k] # NoEntry => sweptAt[s] - table[s][k].lastAt < MaxLockout(s)

\* Requests past the check of a counter that have not reported to it.
Open(s) == IF s = "account" THEN {"checkSource", "handler", "failAccount"}
           ELSE {"handler", "failAccount", "failSource"}
InFlight(s, k) == {r \in Requests : att[r][s] = k /\ pc[r] \in Open(s)}

\* A failure during a lockout uses up a request that was in flight.
Late ==
    \A s \in Scopes, k \in Keys :
        /\ overtime[s][k] < Cardinality(Requests)
        /\ now < promise[s][k] =>
              overtime[s][k] + Cardinality(InFlight(s, k)) < Cardinality(Requests)

IInv == TypeOK /\ Ladder /\ Promised /\ Fresh /\ Late

-----------------------------------------------------------------------------
(* The size of a table *)

Held(t) == {k \in Keys : t[k] # NoEntry}

\* A table holds a finite number of keys.
LEMMA CountNat == \A t : Count(t) \in Nat /\ IsFiniteSet(Held(t))
<1> SUFFICES ASSUME NEW t PROVE Count(t) \in Nat /\ IsFiniteSet(Held(t))
  OBVIOUS
<1>1. Held(t) \subseteq Keys
  BY DEF Held
<1>2. IsFiniteSet(Held(t))
  BY <1>1, FS_Subset, ThrottleAssumption
<1>3. Cardinality(Held(t)) \in Nat
  BY <1>2, FS_CardinalityType
<1> QED
  BY <1>2, <1>3 DEF Count, Held

\* Dropping entries does not grow a table.
LEMMA CountMono ==
    ASSUME NEW t, NEW u, \A k \in Keys : t[k] # NoEntry => u[k] # NoEntry
    PROVE  Count(t) <= Count(u)
<1>1. Held(t) \subseteq Held(u)
  BY DEF Held
<1>2. IsFiniteSet(Held(u))
  BY CountNat
<1>3. Cardinality(Held(t)) <= Cardinality(Held(u))
  BY <1>1, <1>2, FS_Subset
<1> QED
  BY <1>3 DEF Count, Held

\* Writing one entry adds at most one key.
LEMMA CountAdd ==
    ASSUME NEW t \in [Keys -> Entries \cup {NoEntry}], NEW k \in Keys, NEW e
    PROVE  /\ Count([t EXCEPT ![k] = e]) <= Count(t) + 1
           /\ t[k] # NoEntry => Count([t EXCEPT ![k] = e]) <= Count(t)
<1> DEFINE u == [t EXCEPT ![k] = e]
<1>1. Held(u) \subseteq Held(t) \cup {k}
  BY DEF Held
<1>2. IsFiniteSet(Held(t))
  BY CountNat
<1>3. IsFiniteSet(Held(t) \cup {k}) /\ Cardinality(Held(t) \cup {k}) <= Cardinality(Held(t)) + 1
  <2>1. IsFiniteSet(Held(t) \cup {k})
    BY <1>2, FS_AddElement
  <2>2. Cardinality(Held(t) \cup {k}) = IF k \in Held(t) THEN Cardinality(Held(t)) ELSE Cardinality(Held(t)) + 1
    BY <1>2, FS_AddElement
  <2>3. Cardinality(Held(t)) \in Nat
    BY <1>2, FS_CardinalityType
  <2> QED
    BY <2>1, <2>2, <2>3
<1>4. Cardinality(Held(u)) <= Cardinality(Held(t) \cup {k})
  BY <1>1, <1>3, FS_Subset
<1>5. Cardinality(Held(u)) \in Nat /\ Cardinality(Held(t)) \in Nat /\ Cardinality(Held(t) \cup {k}) \in Nat
  <2>1. IsFiniteSet(Held(u))
    BY CountNat
  <2> QED
    BY <2>1, <1>2, <1>3, FS_CardinalityType
<1>6. t[k] # NoEntry => Held(t) \cup {k} = Held(t)
  BY DEF Held
<1>7. Count(u) = Cardinality(Held(u)) /\ Count(t) = Cardinality(Held(t))
  BY DEF Count, Held
<1> HIDE DEF u
<1>8. Count(u) <= Count(t) + 1
  BY <1>3, <1>4, <1>5, <1>7
<1>9. t[k] # NoEntry => Count(u) <= Count(t)
  <2>1. t[k] # NoEntry => Cardinality(Held(t) \cup {k}) = Cardinality(Held(t))
    BY <1>6
  <2> QED
    BY <2>1, <1>4, <1>7
<1> QED
  BY <1>8, <1>9 DEF u

-----------------------------------------------------------------------------
(* The counter *)

\* Lockouts are positive and no longer than the longest one.
LEMMA Lockouts ==
    ASSUME NEW s \in Scopes, NEW n \in Nat
    PROVE  /\ LockoutFor(s, n) \in Nat /\ MaxLockout(s) \in Nat
           /\ 0 < LockoutFor(s, n) /\ LockoutFor(s, n) <= MaxLockout(s)
<1>1. Lockout(s) \in Nat /\ Lockout(s) > 0
  BY ThrottleAssumption DEF Lockout
<1>2. LockoutFor(s, n) \in {Lockout(s) * 1, Lockout(s) * 2, Lockout(s) * 4, Lockout(s) * 8}
  BY <1>1 DEF LockoutFor
<1> QED
  BY <1>1, <1>2 DEF MaxLockout

(* The table a failure works on: only stale entries are gone, none of them is
   left if it swept, and it is no larger than before.                        *)
LEMMA Trim ==
    ASSUME TypeOK, NEW s \in Scopes, NEW k \in Keys
    PROVE  LET t == Admitting(s, k) IN
           /\ t \in [Keys -> Entries \cup {NoEntry}]
           /\ \A x \in Keys : t[x] = table[s][x] \/ (t[x] = NoEntry /\ Stale(s, table[s][x]))
           /\ Stale(s, t[k]) = FALSE
           /\ SweepDue(s) \/ Crowded(s, k) => \A x \in Keys : ~Stale(s, t[x])
           /\ Count(t) <= MaxKeys
<1> DEFINE w == IF SweepDue(s) THEN Sweep(s, table[s]) ELSE table[s]
           c == Current(s, k)
           t == Admitting(s, k)
<1>0. table[s] \in [Keys -> Entries \cup {NoEntry}] /\ ~Stale(s, NoEntry)
  BY DEF TypeOK, Stale
<1>1. /\ w \in [Keys -> Entries \cup {NoEntry}]
      /\ \A x \in Keys : w[x] = table[s][x] \/ (w[x] = NoEntry /\ Stale(s, table[s][x]))
      /\ SweepDue(s) => \A x \in Keys : ~Stale(s, w[x])
  BY <1>0 DEF Sweep
<1>2. c = IF Stale(s, w[k]) THEN [w EXCEPT ![k] = NoEntry] ELSE w
  BY DEF Current
<1> HIDE DEF w, c
<1>3. /\ c \in [Keys -> Entries \cup {NoEntry}]
      /\ \A x \in Keys : c[x] = table[s][x] \/ (c[x] = NoEntry /\ Stale(s, table[s][x]))
      /\ SweepDue(s) => \A x \in Keys : ~Stale(s, c[x])
      /\ ~Stale(s, c[k])
  BY <1>0, <1>1, <1>2
<1>4. t = IF Crowded(s, k) THEN Sweep(s, c) ELSE c
  BY DEF Admitting, c
<1>5. /\ t \in [Keys -> Entries \cup {NoEntry}]
      /\ \A x \in Keys : t[x] = table[s][x] \/ (t[x] = NoEntry /\ Stale(s, table[s][x]))
      /\ ~Stale(s, t[k])
      /\ SweepDue(s) \/ Crowded(s, k) => \A x \in Keys : ~Stale(s, t[x])
  <2>1. CASE Crowded(s, k)
    <3>1. t = [x \in Keys |-> IF Stale(s, c[x]) THEN NoEntry ELSE c[x]]
      BY <1>4, <2>1 DEF Sweep
    <3> QED
      BY <3>1, <1>0, <1>3
  <2>2. CASE ~Crowded(s, k)
    BY <2>2, <1>4, <1>3
  <2> QED
    BY <2>1, <2>2
<1> HIDE DEF t
<1>6. Count(t) <= Count(table[s])
  <2>1. \A x \in Keys : t[x] # NoEntry => table[s][x] # NoEntry
    BY <1>5
  <2> QED
    BY <2>1, CountMono
<1>7. Count(t) <= MaxKeys
  <2>1. Count(t) \in Nat /\ Count(table[s]) \in Nat
    BY CountNat
  <2> QED
    BY <1>6, <2>1, ThrottleAssumption DEF TypeOK
<1> QED
  BY <1>5, <1>7 DEF t

\* The entry a failure is recorded on.
LEMMA Recorded ==
    ASSUME TypeOK, Ladder, Promised, NEW s \in Scopes, NEW k \in Keys
    PROVE  LET e == EntryOf(s, k) IN
           /\ e \in Entries
           /\ e.lastAt <= now /\ e.until <= e.lastAt + MaxLockout(s)
           /\ now < promise[s][k] <=> now < e.until
           /\ now < e.until => Admitting(s, k)[k] = table[s][k] /\ table[s][k] = e
<1> DEFINE t == Admitting(s, k)  e == EntryOf(s, k)
<1>1. /\ t \in [Keys -> Entries \cup {NoEntry}]
      /\ t[k] = table[s][k] \/ (t[k] = NoEntry /\ Stale(s, table[s][k]))
      /\ ~Stale(s, t[k])
  BY Trim
<1>2. e = IF t[k] = NoEntry THEN [failures |-> 0, lockouts |-> 0, lastAt |-> now, until |-> 0] ELSE t[k]
  BY DEF EntryOf
<1>3. now \in Nat /\ promise[s][k] \in Nat /\ MaxLockout(s) \in Nat
  BY Lockouts, 0 \in Nat DEF TypeOK
<1> HIDE DEF t, e
<1>4. CASE t[k] = NoEntry
  <2>1. e = [failures |-> 0, lockouts |-> 0, lastAt |-> now, until |-> 0]
    BY <1>2, <1>4
  <2>2. e \in Entries /\ e.lastAt = now /\ e.until = 0
    BY <2>1, <1>3 DEF Entries
  <2>3. ~(now < promise[s][k])
    <3>1. CASE table[s][k] = NoEntry
      BY <3>1 DEF Promised
    <3>2. CASE table[s][k] # NoEntry
      <4>1. Stale(s, table[s][k])
        BY <3>2, <1>1, <1>4
      <4>2. table[s][k] \in Entries
        BY <3>2 DEF TypeOK
      <4>3. table[s][k].until \in Nat /\ table[s][k].lastAt \in Nat
        BY <4>2 DEF Entries
      <4>4. table[s][k].until <= now
        BY <4>1, <4>3, <1>3, <3>2 DEF Stale, Ladder
      <4> QED
        BY <4>3, <4>4, <1>3 DEF Promised
    <3> QED
      BY <3>1, <3>2
  <2> QED
    BY <2>2, <2>3, <1>3 DEF t, e
<1>5. CASE t[k] # NoEntry
  <2>1. e = table[s][k] /\ t[k] = table[s][k] /\ e # NoEntry
    BY <1>1, <1>2, <1>5
  <2>2. e \in Entries
    BY <2>1 DEF TypeOK
  <2>3. e.lastAt <= now /\ e.until <= e.lastAt + MaxLockout(s)
    BY <2>1 DEF Ladder
  <2>4. now < promise[s][k] <=> now < e.until
    BY <2>1 DEF Promised
  <2> QED
    BY <2>1, <2>2, <2>3, <2>4 DEF t, e
<1> QED
  BY <1>4, <1>5

\* One more failure on an entry that is not locked.
LEMMA Counted ==
    ASSUME NEW s \in Scopes, NEW e \in Entries, now \in Nat, e.lastAt <= now,
           e.until <= e.lastAt + MaxLockout(s), now >= e.until
    PROVE  LET f == After(s, e) IN
           /\ f \in Entries /\ f.lastAt = now
           /\ f.until <= now + MaxLockout(s)
           /\ Closes(s, e) => now < f.until
           /\ ~Closes(s, e) => f.until = e.until
<1> DEFINE n == e.lockouts + 1
<1>1. e.failures \in Nat /\ e.lockouts \in Nat /\ e.lastAt \in Nat /\ e.until \in Nat /\ n \in Nat
  BY DEF Entries
<1>2. /\ LockoutFor(s, n) \in Nat /\ MaxLockout(s) \in Nat
      /\ 0 < LockoutFor(s, n) /\ LockoutFor(s, n) <= MaxLockout(s)
  BY <1>1, Lockouts
<1>3. CASE Closes(s, e)
  <2>1. After(s, e) = [failures |-> 0, lockouts |-> n, lastAt |-> now, until |-> now + LockoutFor(s, n)]
    BY <1>3 DEF After
  <2>2. now + LockoutFor(s, n) \in Nat
    BY <1>2
  <2>3. After(s, e) \in Entries
    BY <2>1, <2>2, <1>1 DEF Entries
  <2>4. After(s, e).lastAt = now /\ After(s, e).until = now + LockoutFor(s, n)
    BY <2>1
  <2> HIDE DEF n
  <2> QED
    BY <2>3, <2>4, <1>2, <1>3
<1>4. CASE ~Closes(s, e)
  <2>1. After(s, e) = [e EXCEPT !.failures = @ + 1, !.lastAt = now]
    BY <1>4 DEF After
  <2>2. After(s, e) = [failures |-> e.failures + 1, lockouts |-> e.lockouts, lastAt |-> now, until |-> e.until]
    BY <2>1 DEF Entries
  <2>3. After(s, e) \in Entries
    BY <2>2, <1>1 DEF Entries
  <2>4. After(s, e).lastAt = now /\ After(s, e).until = e.until
    BY <2>2
  <2> QED
    BY <2>3, <2>4, <1>1, <1>2, <1>4
<1> QED
  BY <1>3, <1>4

(* What fail does to the counter, and what it tells the history: nothing, one
   more failure in a running lockout, or a lockout that starts.              *)
LEMMA FailStep ==
    ASSUME TypeOK, Ladder, Promised, Fresh, now' = now,
           NEW s \in Scopes, NEW k \in Keys, fail(s, k)
    PROVE  /\ table' \in [Scopes -> [Keys -> Entries \cup {NoEntry}]]
           /\ sweptAt' \in [Scopes -> Int] /\ full' \in [Scopes -> BOOLEAN]
           /\ promise' \in [Scopes -> [Keys -> Nat]] /\ overtime' \in [Scopes -> [Keys -> Nat]]
           /\ \A c \in Scopes : Count(table'[c]) <= MaxKeys
           /\ Ladder' /\ Promised' /\ Fresh'
           /\ \A c \in Scopes, x \in Keys : c # s \/ x # k =>
                 promise'[c][x] = promise[c][x] /\ overtime'[c][x] = overtime[c][x]
           /\ \/ promise'[s][k] = promise[s][k] /\ overtime'[s][k] = overtime[s][k]
              \/ /\ now < promise[s][k] /\ promise'[s][k] = promise[s][k]
                 /\ overtime'[s][k] = overtime[s][k] + 1
              \/ overtime'[s][k] = 0
<1> DEFINE t == Admitting(s, k)  e == EntryOf(s, k)
           h == After(s, e)
<1>1. /\ t \in [Keys -> Entries \cup {NoEntry}]
      /\ \A x \in Keys : t[x] = table[s][x] \/ (t[x] = NoEntry /\ Stale(s, table[s][x]))
      /\ SweepDue(s) \/ Crowded(s, k) => \A x \in Keys : ~Stale(s, t[x])
      /\ Count(t) <= MaxKeys
  BY Trim
<1>2. /\ e \in Entries
      /\ e.lastAt <= now /\ e.until <= e.lastAt + MaxLockout(s)
      /\ now < promise[s][k] <=> now < e.until
      /\ now < e.until => t[k] = table[s][k] /\ table[s][k] = e
  BY Recorded
<1>3. /\ now \in Nat /\ MaxLockout(s) \in Nat /\ MaxKeys \in Nat
      /\ \A c \in Scopes : MaxLockout(c) \in Nat
  BY Lockouts, ThrottleAssumption, 0 \in Nat DEF TypeOK
<1>4. now >= e.until =>
        /\ h \in Entries /\ h.lastAt = now
        /\ h.until <= now + MaxLockout(s)
        /\ Closes(s, e) => now < h.until
        /\ ~Closes(s, e) => h.until = e.until
  BY <1>2, <1>3, Counted
<1>5. /\ sweptAt' = [sweptAt EXCEPT ![s] = IF SweepDue(s) \/ Crowded(s, k) THEN now ELSE @]
      /\ full' = [full EXCEPT ![s] = IF Crowded(s, k) THEN ~Room(t) ELSE StillFull(s)]
      /\ \/ /\ Refused(s, k)
            /\ table' = [table EXCEPT ![s] = t]
            /\ UNCHANGED history
         \/ /\ ~Refused(s, k) /\ now < e.until
            /\ table' = [table EXCEPT ![s] = t]
            /\ overtime' = [overtime EXCEPT ![s][k] = @ + 1]
            /\ UNCHANGED promise
         \/ /\ ~Refused(s, k) /\ now >= e.until
            /\ table' = [table EXCEPT ![s] = [t EXCEPT ![k] = h]]
            /\ promise' = IF Closes(s, e) THEN [promise EXCEPT ![s][k] = h.until] ELSE promise
            /\ overtime' = IF Closes(s, e) THEN [overtime EXCEPT ![s][k] = 0] ELSE overtime
  BY DEF fail
<1>6. ~Refused(s, k) => Count([t EXCEPT ![k] = h]) <= MaxKeys
  <2>1. ~Refused(s, k) => t[k] # NoEntry \/ Count(t) < MaxKeys
    BY DEF Refused, Room
  <2>2. /\ Count([t EXCEPT ![k] = h]) <= Count(t) + 1
        /\ t[k] # NoEntry => Count([t EXCEPT ![k] = h]) <= Count(t)
    BY <1>1, CountAdd
  <2>3. Count([t EXCEPT ![k] = h]) \in Nat /\ Count(t) \in Nat
    BY CountNat
  <2> HIDE DEF t, h
  <2> QED
    BY <2>1, <2>2, <2>3, <1>1, <1>3
<1>7. t[k] = NoEntry => e.until = 0
  BY DEF EntryOf
<1>8. \A c \in Scopes, x \in Keys : table[c][x] # NoEntry =>
         table[c][x] \in Entries /\ table[c][x].lastAt \in Nat /\ table[c][x].until \in Nat
  BY DEF TypeOK, Entries
<1> HIDE DEF t, e, h
<1>9. (full' \in [Scopes -> BOOLEAN]) /\ (sweptAt' \in [Scopes -> Int])
  <2>1. sweptAt' \in [Scopes -> Int]
    BY <1>5, <1>3 DEF TypeOK
  <2>2. StillFull(s) \in BOOLEAN
    BY DEF StillFull, TypeOK
  <2>3. full' \in [Scopes -> BOOLEAN]
    BY <1>5, <2>2 DEF TypeOK, Room
  <2> QED
    BY <2>1, <2>3
<1>10. ASSUME NEW u \in [Keys -> Entries \cup {NoEntry}], table' = [table EXCEPT ![s] = u]
       PROVE  /\ table' \in [Scopes -> [Keys -> Entries \cup {NoEntry}]]
              /\ table'[s] = u
              /\ \A c \in Scopes : c # s => table'[c] = table[c]
  BY <1>10 DEF TypeOK
<1>11. sweptAt'[s] \in {sweptAt[s], now} /\ \A c \in Scopes : c # s => sweptAt'[c] = sweptAt[c]
  BY <1>5 DEF TypeOK
<1>12. \A x \in Keys : t[x] # NoEntry => t[x] = table[s][x] /\ sweptAt'[s] - t[x].lastAt < MaxLockout(s)
  <2> SUFFICES ASSUME NEW x \in Keys, t[x] # NoEntry
               PROVE t[x] = table[s][x] /\ sweptAt'[s] - t[x].lastAt < MaxLockout(s)
    OBVIOUS
  <2>1. t[x] = table[s][x]
    BY <1>1
  <2>2. CASE SweepDue(s) \/ Crowded(s, k)
    <3>1. sweptAt'[s] = now
      BY <2>2, <1>5 DEF TypeOK
    <3>2. ~(now - t[x].lastAt >= MaxLockout(s))
      BY <2>2, <1>1 DEF Stale
    <3> QED
      BY <2>1, <3>1, <3>2, <1>3, <1>8
  <2>3. CASE ~(SweepDue(s) \/ Crowded(s, k))
    <3>1. sweptAt'[s] = sweptAt[s]
      BY <2>3, <1>5 DEF TypeOK
    <3> QED
      BY <2>1, <3>1 DEF Fresh
  <2> QED
    BY <2>2, <2>3
<1>13. \A x \in Keys : now < promise[s][x] => t[x] = table[s][x] /\ t[x] # NoEntry
  <2> SUFFICES ASSUME NEW x \in Keys, now < promise[s][x]
               PROVE t[x] = table[s][x] /\ t[x] # NoEntry
    OBVIOUS
  <2>1. table[s][x] # NoEntry /\ now < table[s][x].until
    BY DEF Promised
  <2>2. ~Stale(s, table[s][x])
    BY <2>1, <1>3, <1>8 DEF Stale, Ladder
  <2> QED
    BY <2>1, <2>2, <1>1
\* The other counter and the other keys.
<1>14. ASSUME NEW u \in [Keys -> Entries \cup {NoEntry}], table' = [table EXCEPT ![s] = u],
              Count(u) <= MaxKeys, \A x \in Keys : x # k => u[x] = t[x],
              u[k] # NoEntry =>
                /\ u[k].lastAt <= now /\ u[k].until <= u[k].lastAt + MaxLockout(s)
                /\ sweptAt'[s] - u[k].lastAt < MaxLockout(s)
       PROVE  /\ table' \in [Scopes -> [Keys -> Entries \cup {NoEntry}]]
              /\ \A c \in Scopes : Count(table'[c]) <= MaxKeys
              /\ Ladder' /\ Fresh'
  <2>1. /\ table' \in [Scopes -> [Keys -> Entries \cup {NoEntry}]]
        /\ table'[s] = u
        /\ \A c \in Scopes : c # s => table'[c] = table[c]
    BY <1>10, <1>14
  <2>2. \A c \in Scopes : Count(table'[c]) <= MaxKeys
    BY <2>1, <1>14 DEF TypeOK
  <2>3. \A x \in Keys : u[x] # NoEntry =>
           /\ u[x].lastAt <= now /\ u[x].until <= u[x].lastAt + MaxLockout(s)
           /\ sweptAt'[s] - u[x].lastAt < MaxLockout(s)
    BY <1>14, <1>12 DEF Ladder
  <2>4. Ladder'
    <3> SUFFICES ASSUME NEW c \in Scopes, NEW x \in Keys, table'[c][x] # NoEntry
                 PROVE  /\ table'[c][x].lastAt <= now
                        /\ table'[c][x].until <= table'[c][x].lastAt + MaxLockout(c)
      BY DEF Ladder, MaxLockout, Lockout
    <3> QED
      BY <2>1, <2>3 DEF Ladder
  <2>5. Fresh'
    <3>1. ASSUME NEW c \in Scopes PROVE sweptAt'[c] <= now
      BY <1>11, <1>3 DEF Fresh
    <3>2. ASSUME NEW c \in Scopes, NEW x \in Keys, table'[c][x] # NoEntry
          PROVE  sweptAt'[c] - table'[c][x].lastAt < MaxLockout(c)
      BY <3>2, <2>1, <2>3, <1>11 DEF Fresh
    <3> QED
      BY <3>1, <3>2 DEF Fresh, MaxLockout, Lockout
  <2> QED
    BY <2>1, <2>2, <2>4, <2>5
<1>15. t[k] # NoEntry =>
         /\ t[k].lastAt <= now /\ t[k].until <= t[k].lastAt + MaxLockout(s)
         /\ sweptAt'[s] - t[k].lastAt < MaxLockout(s)
  BY <1>12 DEF Ladder
<1>16. CASE /\ table' = [table EXCEPT ![s] = t] /\ promise' = promise
            /\ \/ overtime' = overtime
               \/ now < e.until /\ overtime' = [overtime EXCEPT ![s][k] = @ + 1]
  <2>1. /\ table' \in [Scopes -> [Keys -> Entries \cup {NoEntry}]]
        /\ \A c \in Scopes : Count(table'[c]) <= MaxKeys
        /\ Ladder' /\ Fresh'
    BY <1>14, <1>15, <1>16, <1>1
  <2>2. table'[s] = t /\ \A c \in Scopes : c # s => table'[c] = table[c]
    BY <1>10, <1>16, <1>1
  <2>3. Promised'
    <3> SUFFICES ASSUME NEW c \in Scopes, NEW x \in Keys
                 PROVE /\ now < promise[c][x] => table'[c][x] # NoEntry /\ table'[c][x].until = promise[c][x]
                       /\ table'[c][x] # NoEntry /\ now < table'[c][x].until => promise[c][x] = table'[c][x].until
      BY <1>16 DEF Promised
    <3>1. CASE c = s
      BY <3>1, <2>2, <1>12, <1>13 DEF Promised
    <3>2. CASE c # s
      BY <3>2, <2>2 DEF Promised
    <3> QED
      BY <3>1, <3>2
  <2>4. promise' \in [Scopes -> [Keys -> Nat]]
    BY <1>16 DEF TypeOK
  <2>5. CASE overtime' = overtime
    BY <1>9, <1>16, <2>1, <2>3, <2>4, <2>5 DEF TypeOK
  <2>6. CASE now < e.until /\ overtime' = [overtime EXCEPT ![s][k] = @ + 1]
    <3>1. /\ overtime' \in [Scopes -> [Keys -> Nat]]
          /\ overtime'[s][k] = overtime[s][k] + 1
          /\ \A c \in Scopes, x \in Keys : c # s \/ x # k => overtime'[c][x] = overtime[c][x]
      BY <2>6 DEF TypeOK
    <3> QED
      BY <1>9, <1>16, <1>2, <2>1, <2>3, <2>4, <2>6, <3>1
  <2> QED
    BY <1>16, <2>5, <2>6
<1>17. CASE /\ ~Refused(s, k) /\ now >= e.until
            /\ table' = [table EXCEPT ![s] = [t EXCEPT ![k] = h]]
            /\ promise' = IF Closes(s, e) THEN [promise EXCEPT ![s][k] = h.until] ELSE promise
            /\ overtime' = IF Closes(s, e) THEN [overtime EXCEPT ![s][k] = 0] ELSE overtime
  <2> DEFINE u == [t EXCEPT ![k] = h]
  <2>1. /\ u \in [Keys -> Entries \cup {NoEntry}] /\ u[k] = h /\ h \in Entries
        /\ \A x \in Keys : x # k => u[x] = t[x]
    BY <1>1, <1>4, <1>17
  <2>2. h.lastAt = now /\ h.until <= now + MaxLockout(s) /\ h.until \in Nat
    BY <1>4, <1>17 DEF Entries
  <2>3. sweptAt'[s] - now < MaxLockout(s)
    <3>1. sweptAt[s] <= now /\ sweptAt[s] \in Int
      BY DEF Fresh, TypeOK
    <3>2. MaxLockout(s) > 0
      BY Lockouts, 0 \in Nat
    <3> QED
      BY <3>1, <3>2, <1>3, <1>11
  <2>4. Count(u) <= MaxKeys
    BY <1>6, <1>17
  <2>5. table' = [table EXCEPT ![s] = u]
    BY <1>17
  <2> HIDE DEF u
  <2>6. /\ table' \in [Scopes -> [Keys -> Entries \cup {NoEntry}]]
        /\ \A c \in Scopes : Count(table'[c]) <= MaxKeys
        /\ Ladder' /\ Fresh'
    <3>1. /\ u[k].lastAt <= now /\ u[k].until <= u[k].lastAt + MaxLockout(s)
          /\ sweptAt'[s] - u[k].lastAt < MaxLockout(s)
      BY <2>1, <2>2, <2>3, <1>3
    <3> QED
      BY <1>14, <2>1, <2>4, <2>5, <3>1
  <2>7. table'[s] = u /\ \A c \in Scopes : c # s => table'[c] = table[c]
    BY <1>10, <2>1, <2>5
  <2>8. /\ promise' \in [Scopes -> [Keys -> Nat]] /\ overtime' \in [Scopes -> [Keys -> Nat]]
        /\ \A c \in Scopes, x \in Keys : c # s \/ x # k =>
              promise'[c][x] = promise[c][x] /\ overtime'[c][x] = overtime[c][x]
        /\ Closes(s, e) => promise'[s][k] = h.until /\ overtime'[s][k] = 0
        /\ ~Closes(s, e) => promise'[s][k] = promise[s][k] /\ overtime'[s][k] = overtime[s][k]
    BY <1>17, <2>2 DEF TypeOK
  <2>9. Promised'
    <3> SUFFICES ASSUME NEW c \in Scopes, NEW x \in Keys
                 PROVE /\ now < promise'[c][x] => table'[c][x] # NoEntry /\ table'[c][x].until = promise'[c][x]
                       /\ table'[c][x] # NoEntry /\ now < table'[c][x].until => promise'[c][x] = table'[c][x].until
      BY DEF Promised
    <3>1. CASE c # s
      BY <3>1, <2>7, <2>8 DEF Promised
    <3>2. CASE c = s /\ x # k
      BY <3>2, <2>1, <2>7, <2>8, <1>12, <1>13 DEF Promised
    <3>3. CASE c = s /\ x = k
      <4>1. h # NoEntry /\ table'[c][x] = h
        BY <3>3, <2>1, <2>7, ThrottleAssumption
      <4>2. CASE Closes(s, e)
        BY <4>1, <4>2, <3>3, <2>8
      <4>3. CASE ~Closes(s, e)
        <5>1. h.until = e.until /\ e.until \in Nat /\ promise[s][k] \in Nat
          BY <4>3, <1>2, <1>4, <1>17 DEF Entries, TypeOK
        <5>2. ~(now < h.until) /\ ~(now < promise[s][k])
          BY <5>1, <1>2, <1>3, <1>17
        <5> QED
          BY <4>1, <4>3, <5>2, <3>3, <2>8
      <4> QED
        BY <4>2, <4>3
    <3> QED
      BY <3>1, <3>2, <3>3
  <2> QED
    BY <1>9, <2>6, <2>8, <2>9
<1> QED
  BY <1>5, <1>16, <1>17 DEF history

-----------------------------------------------------------------------------
(* Requests *)

\* What Check answers is what was promised.
LEMMA Exact ==
    ASSUME TypeOK, Ladder, Promised
    PROVE  LockoutExact
<1> SUFFICES ASSUME NEW s \in Scopes, NEW k \in Keys
             PROVE  RetryAfter(s, k) = IF now < promise[s][k] THEN promise[s][k] - now ELSE 0
  BY DEF LockoutExact
<1>1. k # NoKey
  BY ThrottleAssumption
<1>2. CASE table[s][k] = NoEntry
  BY <1>2 DEF RetryAfter, Promised
<1>3. CASE table[s][k] # NoEntry
  <2> DEFINE e == table[s][k]
  <2>1. e \in Entries /\ now \in Nat /\ promise[s][k] \in Nat /\ MaxLockout(s) \in Nat
    BY <1>3, Lockouts, 0 \in Nat DEF TypeOK
  <2>2. e.until \in Nat /\ e.lastAt \in Nat
    BY <2>1 DEF Entries
  <2>3. e.until <= e.lastAt + MaxLockout(s)
    BY <1>3 DEF Ladder
  <2>4. RetryAfter(s, k) = IF Stale(s, e) \/ now >= e.until THEN 0 ELSE e.until - now
    BY <1>1, <1>3 DEF RetryAfter
  <2>5. Stale(s, e) => now >= e.until
    BY <2>1, <2>2, <2>3 DEF Stale
  <2>6. (now < promise[s][k] <=> now < e.until) /\ (now < e.until => promise[s][k] = e.until)
    BY <1>3 DEF Promised
  <2> HIDE DEF e
  <2> QED
    BY <2>1, <2>2, <2>4, <2>5, <2>6
<1> QED
  BY <1>2, <1>3

\* The requests in flight are a finite part of the requests.
LEMMA InFlightFinite ==
    \A s, k : IsFiniteSet(InFlight(s, k)) /\ Cardinality(InFlight(s, k)) \in Nat
<1> SUFFICES ASSUME NEW s, NEW k
             PROVE  IsFiniteSet(InFlight(s, k)) /\ Cardinality(InFlight(s, k)) \in Nat
  OBVIOUS
<1>1. InFlight(s, k) \subseteq Requests
  BY DEF InFlight
<1>2. IsFiniteSet(InFlight(s, k))
  BY <1>1, FS_Subset, ThrottleAssumption
<1> QED
  BY <1>2, FS_CardinalityType

\* There is at least one request.
LEMMA SomeRequest == Cardinality(Requests) \in Nat /\ 0 < Cardinality(Requests)
<1>1. Cardinality(Requests) \in Nat
  BY FS_CardinalityType, ThrottleAssumption
<1>2. Cardinality(Requests) # 0
  BY FS_EmptySet, ThrottleAssumption
<1> QED
  BY <1>1, <1>2

\* A step that records nothing and lets nobody in under a lockout keeps Late.
LEMMA LateKept ==
    ASSUME TypeOK, Late, now' \in Nat, now <= now', UNCHANGED history,
           \A s \in Scopes, k \in Keys : now < promise[s][k] => InFlight(s, k)' \subseteq InFlight(s, k)
    PROVE  Late'
<1> SUFFICES ASSUME NEW s \in Scopes, NEW k \in Keys
             PROVE  /\ overtime'[s][k] < Cardinality(Requests)
                    /\ now' < promise'[s][k] =>
                         overtime'[s][k] + Cardinality(InFlight(s, k)') < Cardinality(Requests)
  BY DEF Late
<1>1. promise' = promise /\ overtime' = overtime
  BY DEF history
<1>2. overtime[s][k] \in Nat /\ promise[s][k] \in Nat /\ now \in Nat /\ Cardinality(Requests) \in Nat
  BY SomeRequest DEF TypeOK
<1>3. overtime'[s][k] < Cardinality(Requests)
  BY <1>1 DEF Late
<1>4. ASSUME now' < promise'[s][k]
      PROVE  overtime'[s][k] + Cardinality(InFlight(s, k)') < Cardinality(Requests)
  <2>1. now < promise[s][k]
    BY <1>1, <1>2, <1>4
  <2>2. InFlight(s, k)' \subseteq InFlight(s, k)
    BY <2>1
  <2>3. IsFiniteSet(InFlight(s, k)) /\ Cardinality(InFlight(s, k)) \in Nat
    BY InFlightFinite
  <2>4. Cardinality(InFlight(s, k)') <= Cardinality(InFlight(s, k)) /\ Cardinality(InFlight(s, k)') \in Nat
    BY <2>2, <2>3, FS_Subset, FS_CardinalityType
  <2>5. overtime[s][k] + Cardinality(InFlight(s, k)) < Cardinality(Requests)
    BY <2>1 DEF Late
  <2> QED
    BY <1>1, <1>2, <2>3, <2>4, <2>5
<1> QED
  BY <1>3, <1>4

\* Answered requests and the moves between the steps of a request.
LEMMA Moved ==
    ASSUME TypeOK, NEW r \in Requests,
           NEW l \in Places, Goto(r, l)
    PROVE  /\ pc' \in [Requests -> Places]
           /\ att' \in [Requests -> [Scopes -> Keys \cup {NoKey}]]
           /\ attempts' \in 0..MaxAttempts
           /\ pc'[r] = l /\ \A q \in Requests : q # r => pc'[q] = pc[q] /\ att'[q] = att[q]
           /\ l # "idle" => att'[r] = att[r]
<1>1. NoAttempt \in [Scopes -> Keys \cup {NoKey}]
  BY DEF NoAttempt
<1> QED
  BY <1>1 DEF Goto, TypeOK

\* A request reports a failure to the counter of s.
LEMMA ReportStep ==
    ASSUME IInv, NEW r \in Requests, NEW s \in Scopes, NEW from, NEW to,
           \/ s = "account" /\ from = "failAccount" /\ to = "failSource"
           \/ s = "source" /\ from = "failSource" /\ to = "idle",
           Report(r, s, from, to)
    PROVE  IInv'
<1> DEFINE k == att[r][s]
<1>1. /\ pc[r] = from /\ Goto(r, to) /\ now' = now
      /\ IF k = NoKey THEN UNCHANGED <<counters, history>> ELSE fail(s, k)
  BY DEF Report
<1>2. /\ pc' \in [Requests -> Places]
      /\ att' \in [Requests -> [Scopes -> Keys \cup {NoKey}]]
      /\ attempts' \in 0..MaxAttempts
      /\ pc'[r] = to /\ \A q \in Requests : q # r => pc'[q] = pc[q] /\ att'[q] = att[q]
      /\ to # "idle" => att'[r] = att[r]
  <2>1. to \in Places
    BY DEF Places
  <2> QED
    BY <2>1, <1>1, Moved DEF IInv
<1>3. k \in Keys \cup {NoKey}
  BY DEF IInv, TypeOK
<1>4. \A c \in Scopes : \A x : InFlight(c, x)' \subseteq InFlight(c, x)
  <2> SUFFICES ASSUME NEW c \in Scopes, NEW x, NEW q \in Requests,
                      att'[q][c] = x, pc'[q] \in Open(c)
               PROVE  att[q][c] = x /\ pc[q] \in Open(c)
    BY DEF InFlight, Open
  <2>1. CASE q # r
    BY <2>1, <1>2
  <2>2. CASE q = r
    BY <2>2, <1>1, <1>2 DEF Open, Scopes
  <2> QED
    BY <2>1, <2>2
<1>5. CASE k = NoKey
  <2>1. UNCHANGED <<now, counters, history>>
    BY <1>1, <1>5
  <2>2. TypeOK'
    BY <1>2, <2>1 DEF IInv, TypeOK, counters, history
  <2>3. Ladder' /\ Promised' /\ Fresh'
    BY <2>1 DEF IInv, Ladder, Promised, Fresh, counters, history, MaxLockout, Lockout
  <2>4. now' \in Nat /\ now <= now'
    BY <2>1 DEF IInv, TypeOK
  <2>5. Late'
    BY <1>4, <2>1, <2>4, LateKept DEF IInv
  <2> QED
    BY <2>2, <2>3, <2>5 DEF IInv
<1>6. CASE k \in Keys
  <2>0. fail(s, k)
    BY <1>1, <1>6, ThrottleAssumption
  <2>1. /\ table' \in [Scopes -> [Keys -> Entries \cup {NoEntry}]]
        /\ sweptAt' \in [Scopes -> Int] /\ full' \in [Scopes -> BOOLEAN]
        /\ promise' \in [Scopes -> [Keys -> Nat]] /\ overtime' \in [Scopes -> [Keys -> Nat]]
        /\ \A c \in Scopes : Count(table'[c]) <= MaxKeys
        /\ Ladder' /\ Promised' /\ Fresh'
        /\ \A c \in Scopes, x \in Keys : c # s \/ x # k =>
              promise'[c][x] = promise[c][x] /\ overtime'[c][x] = overtime[c][x]
        /\ \/ promise'[s][k] = promise[s][k] /\ overtime'[s][k] = overtime[s][k]
           \/ /\ now < promise[s][k] /\ promise'[s][k] = promise[s][k]
              /\ overtime'[s][k] = overtime[s][k] + 1
           \/ overtime'[s][k] = 0
    BY <1>1, <1>6, <2>0, FailStep DEF IInv
  <2>2. TypeOK'
    <3>1. now' \in 0..MaxTime
      BY <1>1 DEF IInv, TypeOK
    <3> QED
      BY <1>2, <2>1, <3>1 DEF TypeOK, Count
  <2>3. r \in InFlight(s, k) /\ r \notin InFlight(s, k)'
    BY <1>1, <1>2 DEF InFlight, Open, Scopes
  <2>4. Late'
    <3> SUFFICES ASSUME NEW c \in Scopes, NEW x \in Keys
                 PROVE  /\ overtime'[c][x] < Cardinality(Requests)
                        /\ now < promise'[c][x] =>
                             overtime'[c][x] + Cardinality(InFlight(c, x)') < Cardinality(Requests)
      BY <1>1 DEF Late
    <3> DEFINE F == InFlight(c, x)  G == InFlight(c, x)'
    <3>1. IsFiniteSet(F) /\ Cardinality(F) \in Nat /\ G \subseteq F
      BY <1>4, InFlightFinite
    <3>2. IsFiniteSet(G) /\ Cardinality(G) \in Nat /\ Cardinality(G) <= Cardinality(F)
      BY <3>1, FS_Subset, FS_CardinalityType
    <3>3. /\ overtime[c][x] \in Nat /\ Cardinality(Requests) \in Nat /\ 0 < Cardinality(Requests)
      BY SomeRequest DEF IInv, TypeOK
    <3>4. /\ overtime[c][x] < Cardinality(Requests)
          /\ now < promise[c][x] => overtime[c][x] + Cardinality(F) < Cardinality(Requests)
      BY DEF IInv, Late
    <3>5. CASE promise'[c][x] = promise[c][x] /\ overtime'[c][x] = overtime[c][x]
      <4> HIDE DEF F, G
      <4>1. now < promise'[c][x] => overtime'[c][x] + Cardinality(G) < Cardinality(Requests)
        BY <3>1, <3>2, <3>3, <3>4, <3>5
      <4> QED
        BY <3>4, <3>5, <4>1 DEF G
    <3>6. ASSUME c = s, x = k
          PROVE  Cardinality(G) < Cardinality(F) /\ Cardinality(G) < Cardinality(Requests)
      <4>1. r \in F /\ r \notin G /\ F \subseteq Requests
        BY <2>3, <3>6 DEF InFlight
      <4>2. G \subseteq F \ {r} /\ F \ {r} \subseteq F
        BY <4>1, <3>1
      <4>3. IsFiniteSet(F \ {r}) /\ Cardinality(F \ {r}) = Cardinality(F) - 1
        BY <4>1, <3>1, FS_RemoveElement
      <4>4. Cardinality(G) <= Cardinality(F \ {r})
        BY <4>2, <4>3, FS_Subset
      <4>5. Cardinality(F) <= Cardinality(Requests)
        BY <4>1, FS_Subset, ThrottleAssumption
      <4> HIDE DEF F, G
      <4> QED
        BY <4>3, <4>4, <4>5, <3>1, <3>2, <3>3
    <3>7. CASE c = s /\ x = k /\ now < promise[s][k] /\ promise'[s][k] = promise[s][k]
               /\ overtime'[s][k] = overtime[s][k] + 1
      <4>1. Cardinality(G) < Cardinality(F) /\ overtime'[c][x] = overtime[c][x] + 1
        BY <3>6, <3>7
      <4>2. overtime[c][x] + Cardinality(F) < Cardinality(Requests)
        BY <3>4, <3>7
      <4>3. /\ overtime'[c][x] < Cardinality(Requests)
            /\ overtime'[c][x] + Cardinality(G) < Cardinality(Requests)
        <5> HIDE DEF F, G
        <5> QED
          BY <4>1, <4>2, <3>1, <3>2, <3>3
      <4> QED
        BY <4>3 DEF G
    <3>8. CASE c = s /\ x = k /\ overtime'[s][k] = 0
      <4>1. Cardinality(G) < Cardinality(Requests) /\ overtime'[c][x] = 0
        BY <3>6, <3>8
      <4>2. /\ overtime'[c][x] < Cardinality(Requests)
            /\ overtime'[c][x] + Cardinality(G) < Cardinality(Requests)
        <5> HIDE DEF F, G
        <5> QED
          BY <4>1, <3>2, <3>3
      <4> QED
        BY <4>2 DEF G
    <3> QED
      BY <2>1, <3>5, <3>7, <3>8
  <2> QED
    BY <2>1, <2>2, <2>4 DEF IInv
<1> QED
  BY <1>3, <1>5, <1>6

\* A step of one request that leaves the counters alone.
LEMMA QuietStep ==
    ASSUME IInv, UNCHANGED <<now, counters, history>>,
           pc' \in [Requests -> Places],
           att' \in [Requests -> [Scopes -> Keys \cup {NoKey}]], attempts' \in 0..MaxAttempts,
           \A s \in Scopes, k \in Keys : now < promise[s][k] => InFlight(s, k)' \subseteq InFlight(s, k)
    PROVE  IInv'
<1>1. TypeOK'
  BY DEF IInv, TypeOK, counters, history
<1>2. Ladder' /\ Promised' /\ Fresh'
  BY DEF IInv, Ladder, Promised, Fresh, counters, history, MaxLockout, Lockout
<1>3. now' \in Nat /\ now <= now'
  BY DEF IInv, TypeOK
<1>4. Late'
  BY <1>3, LateKept DEF IInv
<1> QED
  BY <1>1, <1>2, <1>4 DEF IInv

\* Under a lockout the check refuses.
LEMMA LockedIsRefused ==
    ASSUME IInv, NEW s \in Scopes, NEW k \in Keys, now < promise[s][k]
    PROVE  RetryAfter(s, k) # 0
<1>1. RetryAfter(s, k) = promise[s][k] - now
  BY Exact DEF IInv, LockoutExact
<1> QED
  BY <1>1 DEF IInv, TypeOK

LEMMA InitIInv == Init => IInv
<1> SUFFICES ASSUME Init PROVE IInv
  OBVIOUS
<1>1. \A c \in Scopes : Count(table[c]) <= MaxKeys
  <2> SUFFICES ASSUME NEW c \in Scopes PROVE Count(table[c]) <= MaxKeys
    OBVIOUS
  <2>1. {k \in Keys : table[c][k] # NoEntry} = {}
    BY DEF Init
  <2> QED
    BY <2>1, FS_EmptySet, ThrottleAssumption DEF Count
<1>2. TypeOK
  BY <1>1, ThrottleAssumption DEF Init, TypeOK, NoAttempt, Places
<1>3. Ladder /\ Promised
  BY DEF Init, Ladder, Promised
<1>4. Fresh
  BY ThrottleAssumption DEF Init, Fresh
<1>5. Late
  BY SomeRequest DEF Init, Late
<1> QED
  BY <1>2, <1>3, <1>4, <1>5 DEF IInv

LEMMA NextIInv == IInv /\ [Next]_vars => IInv'
<1> SUFFICES ASSUME IInv, [Next]_vars PROVE IInv'
  OBVIOUS
<1>1. ASSUME NEW r \in Requests, NEW a \in Accounts \cup {NoKey}, NEW i \in Sources \cup {NoKey},
             CheckAccount(r, a, i)
      PROVE  IInv'
  <2>1. /\ pc' = [pc EXCEPT ![r] = "checkSource"]
        /\ att' = [att EXCEPT ![r] = [s \in Scopes |-> IF s = "account" THEN a ELSE i]]
        /\ RetryAfter("account", a) = 0 /\ attempts < MaxAttempts /\ attempts' = attempts + 1
        /\ UNCHANGED <<now, counters, history>>
    BY <1>1 DEF CheckAccount
  <2>2. [s \in Scopes |-> IF s = "account" THEN a ELSE i] \in [Scopes -> Keys \cup {NoKey}]
    BY DEF Keys
  <2>3. /\ pc' \in [Requests -> Places]
        /\ att' \in [Requests -> [Scopes -> Keys \cup {NoKey}]]
    BY <2>1, <2>2 DEF IInv, TypeOK, Places
  <2>4. attempts' \in 0..MaxAttempts
    BY <2>1, ThrottleAssumption DEF IInv, TypeOK
  <2>5. ASSUME NEW s \in Scopes, NEW k \in Keys, now < promise[s][k]
        PROVE  InFlight(s, k)' \subseteq InFlight(s, k)
    <3> SUFFICES ASSUME NEW q \in Requests, att'[q][s] = k, pc'[q] \in Open(s)
                 PROVE  att[q][s] = k /\ pc[q] \in Open(s)
      BY DEF InFlight, Open
    <3>1. CASE q # r
      BY <3>1, <2>1 DEF IInv, TypeOK
    <3>2. CASE q = r
      <4>1. s = "account"
        BY <3>2, <2>1 DEF Open, IInv, TypeOK, Scopes
      <4>2. k = a
        BY <3>2, <4>1, <2>1 DEF IInv, TypeOK
      <4> QED
        BY <4>1, <4>2, <2>1, <2>5, LockedIsRefused
    <3> QED
      BY <3>1, <3>2
  <2> QED
    BY <2>1, <2>3, <2>4, <2>5, QuietStep
<1>2. ASSUME NEW r \in Requests, CheckSource(r)
      PROVE  IInv'
  <2> DEFINE l == IF RetryAfter("source", att[r]["source"]) = 0 THEN "handler" ELSE "idle"
  <2>1. /\ pc[r] = "checkSource" /\ Goto(r, l) /\ UNCHANGED <<now, counters, history>>
        /\ l \in {"idle", "handler"}
    BY <1>2 DEF CheckSource
  <2>2. l = "handler" => RetryAfter("source", att[r]["source"]) = 0
    OBVIOUS
  <2> HIDE DEF l
  <2>3. /\ pc' \in [Requests -> Places]
        /\ att' \in [Requests -> [Scopes -> Keys \cup {NoKey}]]
        /\ attempts' \in 0..MaxAttempts
        /\ pc'[r] = l /\ \A q \in Requests : q # r => pc'[q] = pc[q] /\ att'[q] = att[q]
        /\ l # "idle" => att'[r] = att[r]
    BY <2>1, Moved DEF IInv, Places
  <2>4. ASSUME NEW s \in Scopes, NEW k \in Keys, now < promise[s][k]
        PROVE  InFlight(s, k)' \subseteq InFlight(s, k)
    <3> SUFFICES ASSUME NEW q \in Requests, att'[q][s] = k, pc'[q] \in Open(s)
                 PROVE  att[q][s] = k /\ pc[q] \in Open(s)
      BY DEF InFlight, Open
    <3>1. CASE q # r
      BY <3>1, <2>3
    <3>2. CASE q = r
      <4>1. l = "handler" /\ att[r][s] = k
        BY <3>2, <2>1, <2>3 DEF Open
      <4>2. s = "account"
        BY <4>1, <2>2, <2>4, LockedIsRefused DEF Scopes
      <4> QED
        BY <3>2, <4>1, <4>2, <2>1 DEF Open
    <3> QED
      BY <3>1, <3>2
  <2> QED
    BY <2>1, <2>3, <2>4, QuietStep
<1>3. ASSUME NEW r \in Requests, Handler(r)
      PROVE  IInv'
  <2>1. PICK l \in {"failAccount", "succeed", "idle"} : Goto(r, l)
    BY <1>3 DEF Handler
  <2>2. pc[r] = "handler" /\ UNCHANGED <<now, counters, history>>
    BY <1>3 DEF Handler
  <2>3. /\ pc' \in [Requests -> Places]
        /\ att' \in [Requests -> [Scopes -> Keys \cup {NoKey}]]
        /\ attempts' \in 0..MaxAttempts
        /\ pc'[r] = l /\ \A q \in Requests : q # r => pc'[q] = pc[q] /\ att'[q] = att[q]
        /\ l # "idle" => att'[r] = att[r]
    BY <2>1, Moved DEF IInv, Places
  <2>4. ASSUME NEW s \in Scopes, NEW k \in Keys
        PROVE  InFlight(s, k)' \subseteq InFlight(s, k)
    BY <2>2, <2>3 DEF InFlight, Open
  <2> QED
    BY <2>2, <2>3, <2>4, QuietStep
<1>4. ASSUME NEW r \in Requests, FailAccount(r)
      PROVE  IInv'
  BY <1>4, ReportStep DEF FailAccount, Scopes
<1>5. ASSUME NEW r \in Requests, FailSource(r)
      PROVE  IInv'
  BY <1>5, ReportStep DEF FailSource, Scopes
<1>6. ASSUME NEW r \in Requests, Succeed(r)
      PROVE  IInv'
  <2> DEFINE k == att[r]["account"]
  <2>1. /\ pc[r] = "succeed" /\ Goto(r, "idle") /\ UNCHANGED <<now, sweptAt, full, history>>
        /\ \/ table' = table
           \/ /\ k # NoKey /\ table' = [table EXCEPT !["account"][k] = NoEntry]
              /\ ~(table["account"][k] # NoEntry /\ now < table["account"][k].until)
    BY <1>6 DEF Succeed
  <2>2. /\ pc' \in [Requests -> Places]
        /\ att' \in [Requests -> [Scopes -> Keys \cup {NoKey}]]
        /\ attempts' \in 0..MaxAttempts
        /\ pc'[r] = "idle" /\ \A q \in Requests : q # r => pc'[q] = pc[q] /\ att'[q] = att[q]
    BY <2>1, Moved DEF IInv, Places
  <2>3. \A s \in Scopes, x \in Keys : InFlight(s, x)' \subseteq InFlight(s, x)
    BY <2>1, <2>2 DEF InFlight, Open
  <2>4. CASE table' = table
    <3>1. UNCHANGED <<now, counters, history>>
      BY <2>1, <2>4 DEF counters
    <3> QED
      BY <2>2, <2>3, <3>1, QuietStep
  <2>5. CASE /\ k # NoKey /\ table' = [table EXCEPT !["account"][k] = NoEntry]
             /\ ~(table["account"][k] # NoEntry /\ now < table["account"][k].until)
    <3>1. k \in Keys /\ "account" \in Scopes
      BY <2>5 DEF IInv, TypeOK, Scopes
    <3>2. /\ table' \in [Scopes -> [Keys -> Entries \cup {NoEntry}]]
          /\ table'["account"][k] = NoEntry
          /\ \A s \in Scopes, x \in Keys : s # "account" \/ x # k => table'[s][x] = table[s][x]
      BY <2>5, <3>1 DEF IInv, TypeOK
    <3>3. \A s \in Scopes : Count(table'[s]) <= MaxKeys
      <4> SUFFICES ASSUME NEW s \in Scopes PROVE Count(table'[s]) <= MaxKeys
        OBVIOUS
      <4>1. \A x \in Keys : table'[s][x] # NoEntry => table[s][x] # NoEntry
        BY <3>2
      <4>2. Count(table'[s]) <= Count(table[s])
        BY <4>1, CountMono
      <4>3. Count(table'[s]) \in Nat /\ Count(table[s]) \in Nat
        BY CountNat
      <4> QED
        BY <4>2, <4>3, ThrottleAssumption DEF IInv, TypeOK
    <3>4. TypeOK'
      BY <2>1, <2>2, <3>2, <3>3 DEF IInv, TypeOK, Count, history
    <3>5. Ladder' /\ Fresh'
      BY <2>1, <3>2 DEF IInv, Ladder, Fresh, MaxLockout, Lockout
    <3>6. Promised'
      <4> SUFFICES ASSUME NEW s \in Scopes, NEW x \in Keys
                   PROVE /\ now < promise[s][x] => table'[s][x] # NoEntry /\ table'[s][x].until = promise[s][x]
                         /\ table'[s][x] # NoEntry /\ now < table'[s][x].until => promise[s][x] = table'[s][x].until
        BY <2>1 DEF Promised, history
      <4>1. CASE s # "account" \/ x # k
        BY <4>1, <3>2 DEF IInv, Promised
      <4>2. CASE s = "account" /\ x = k
        BY <4>2, <2>5, <3>1, <3>2 DEF IInv, Promised
      <4> QED
        BY <4>1, <4>2
    <3>7. Late'
      <4>1. now' \in Nat /\ now <= now' /\ UNCHANGED history
        BY <2>1 DEF IInv, TypeOK
      <4> QED
        BY <4>1, <2>3, LateKept DEF IInv
    <3> QED
      BY <3>4, <3>5, <3>6, <3>7 DEF IInv
  <2> QED
    BY <2>1, <2>4, <2>5
<1>7. CASE Tick
  <2>1. /\ now' = now + 1 /\ now < MaxTime
        /\ UNCHANGED <<table, sweptAt, full, pc, att, attempts, promise, overtime>>
    BY <1>7 DEF Tick, counters, requests, history
  <2>2. TypeOK'
    BY <2>1, ThrottleAssumption DEF IInv, TypeOK, Count
  <2>3. now \in Nat /\ now' \in Nat /\ now <= now'
    BY <2>1 DEF IInv, TypeOK
  <2>4. \A s \in Scopes, k \in Keys : /\ promise[s][k] \in Nat /\ sweptAt[s] \in Int
                                      /\ table[s][k] # NoEntry =>
                                           table[s][k].lastAt \in Nat /\ table[s][k].until \in Nat
    BY DEF IInv, TypeOK, Entries
  <2>5. Ladder' /\ Promised' /\ Fresh'
    <3>1. Ladder'
      BY <2>1, <2>3, <2>4 DEF IInv, Ladder, MaxLockout, Lockout
    <3>2. Promised'
      BY <2>1, <2>3, <2>4 DEF IInv, Promised
    <3>3. Fresh'
      <4>1. \A s \in Scopes : sweptAt[s] \in Int /\ sweptAt[s] <= now
        BY DEF IInv, TypeOK, Fresh
      <4>2. \A s \in Scopes : sweptAt[s] <= now'
        BY <4>1, <2>3
      <4> QED
        BY <4>2, <2>1 DEF IInv, Fresh, MaxLockout, Lockout
    <3> QED
      BY <3>1, <3>2, <3>3
  <2>6. Late'
    <3>1. \A s \in Scopes, k \in Keys : InFlight(s, k)' \subseteq InFlight(s, k)
      BY <2>1 DEF InFlight, Open
    <3> QED
      BY <2>1, <2>3, <3>1, LateKept DEF IInv, history
  <2> QED
    BY <2>2, <2>5, <2>6 DEF IInv
<1>8. CASE UNCHANGED vars
  BY <1>8 DEF vars, counters, requests, history, IInv, TypeOK, Count, Ladder, Promised, Fresh, Late,
              InFlight, Open, MaxLockout, Lockout
<1> QED
  BY <1>1, <1>2, <1>3, <1>4, <1>5, <1>6, <1>7, <1>8 DEF Next

-----------------------------------------------------------------------------
(* The theorems *)

(* The inductive invariant: entries, lockouts handed out and requests in flight
   agree whatever the interleaving of checks, reports, sweeps and the clock.  *)
THEOREM Invariance == Spec => []IInv
  BY InitIInv, NextIInv, PTL DEF Spec

\* Every variable keeps its type, and neither table outgrows MaxKeys.
THEOREM TypeCorrect == Spec => []TypeOK
<1>1. IInv => TypeOK
  BY DEF IInv
<1> QED
  BY <1>1, Invariance, PTL

\* A lockout lasts exactly as long as it was announced for (counter.stale).
THEOREM LockoutsAreKept == Spec => []LockoutExact
<1>1. IInv => LockoutExact
  BY Exact DEF IInv
<1> QED
  BY <1>1, Invariance, PTL

\* A closed key meets fewer late failures than there are requests (Limiter.Failed).
THEOREM OvertimeIsBounded == Spec => []OvertimeBounded
<1>1. IInv => OvertimeBounded
  BY DEF IInv, Late, OvertimeBounded
<1> QED
  BY <1>1, Invariance, PTL

\* A failure that is not recorded met a full table, swept less than an interval ago.
LEMMA Unrecorded ==
    ASSUME TypeOK, Ladder, Promised, Fresh, now' = now,
           NEW s \in Scopes, NEW k \in Keys, fail(s, k), table'[s][k] = NoEntry
    PROVE  /\ Count(table'[s]) = MaxKeys
           /\ \A x \in Keys : table'[s][x] # NoEntry =>
                 now - table'[s][x].lastAt < MaxLockout(s) + SweepInterval
<1> DEFINE t == Admitting(s, k)  e == EntryOf(s, k)
<1>1. /\ t \in [Keys -> Entries \cup {NoEntry}]
      /\ Count(t) <= MaxKeys
  BY Trim
<1>2. /\ e \in Entries /\ e.lastAt <= now /\ e.until <= e.lastAt + MaxLockout(s)
      /\ now < e.until => t[k] = table[s][k] /\ table[s][k] = e
  BY Recorded
<1>3. /\ table' \in [Scopes -> [Keys -> Entries \cup {NoEntry}]]
      /\ sweptAt' \in [Scopes -> Int] /\ Fresh'
  BY FailStep
<1>4. now \in Nat /\ MaxLockout(s) \in Nat /\ SweepInterval \in Nat \ {0} /\ MaxKeys \in Nat
  <2>1. MaxLockout(s) \in Nat
    BY Lockouts, 0 \in Nat
  <2> QED
    BY <2>1, ThrottleAssumption DEF TypeOK
<1>5. Refused(s, k) /\ table' = [table EXCEPT ![s] = t]
  <2>1. CASE ~Refused(s, k) /\ now < e.until /\ table' = [table EXCEPT ![s] = t]
    <3>1. table'[s][k] = e
      BY <2>1, <1>2 DEF TypeOK
    <3> QED
      BY <3>1, <1>2, ThrottleAssumption
  <2>2. CASE ~Refused(s, k) /\ now >= e.until /\ table' = [table EXCEPT ![s] = [t EXCEPT ![k] = After(s, e)]]
    <3>1. After(s, e) \in Entries
      BY <2>2, <1>2, <1>4, Counted
    <3>2. table'[s][k] = After(s, e)
      BY <2>2, <1>1 DEF TypeOK
    <3> QED
      BY <3>1, <3>2, ThrottleAssumption
  <2>3. \/ Refused(s, k) /\ table' = [table EXCEPT ![s] = t]
        \/ ~Refused(s, k) /\ now < e.until /\ table' = [table EXCEPT ![s] = t]
        \/ ~Refused(s, k) /\ now >= e.until /\ table' = [table EXCEPT ![s] = [t EXCEPT ![k] = After(s, e)]]
    BY DEF fail
  <2> QED
    BY <2>1, <2>2, <2>3
<1>6. Count(table'[s]) = MaxKeys
  <2>1. table'[s] = t
    BY <1>5 DEF TypeOK
  <2>2. ~(Count(t) < MaxKeys) /\ Count(t) \in Nat
    BY <1>5, CountNat DEF Refused, Room
  <2> QED
    BY <2>1, <2>2, <1>1, <1>4
<1>7. now - sweptAt'[s] < SweepInterval
  <2>1. sweptAt'[s] = IF SweepDue(s) \/ Crowded(s, k) THEN now ELSE sweptAt[s]
    BY DEF fail, TypeOK
  <2>2. CASE SweepDue(s) \/ Crowded(s, k)
    BY <2>1, <2>2, <1>4
  <2>3. CASE ~SweepDue(s) /\ ~Crowded(s, k)
    <3>1. sweptAt[s] \in Int
      BY DEF TypeOK
    <3> QED
      BY <2>1, <2>3, <3>1, <1>4 DEF SweepDue
  <2> QED
    BY <2>2, <2>3
<1>8. ASSUME NEW x \in Keys, table'[s][x] # NoEntry
      PROVE  now - table'[s][x].lastAt < MaxLockout(s) + SweepInterval
  <2>1. sweptAt'[s] - table'[s][x].lastAt < MaxLockout(s)
    BY <1>3, <1>8 DEF Fresh, MaxLockout, Lockout
  <2>2. table'[s][x].lastAt \in Nat /\ sweptAt'[s] \in Int
    BY <1>3, <1>8 DEF Entries
  <2> QED
    BY <2>1, <2>2, <1>4, <1>7
<1> QED
  BY <1>6, <1>8

(* A failure goes uncounted only when the table is full, and stale keys crowd a
   new one out for less than one sweep interval (counter.admit).             *)
THEOREM CrowdingIsBrief == Spec => CrowdedOutBriefly
<1> DEFINE Brief ==
      \A r \in Requests :
        LET s == Scope(r)  k == att[r][s] IN
        /\ pc[r] \in {"failAccount", "failSource"} /\ pc'[r] # pc[r]
        /\ k # NoKey /\ table'[s][k] = NoEntry
        => /\ Count(table'[s]) = MaxKeys
           /\ \A x \in Keys : table'[s][x] # NoEntry =>
                 now - table'[s][x].lastAt < MaxLockout(s) + SweepInterval
<1>1. IInv /\ [Next]_vars => [Brief]_vars
  <2> SUFFICES ASSUME IInv, Next, NEW r \in Requests,
                      pc[r] \in {"failAccount", "failSource"}, pc'[r] # pc[r],
                      att[r][Scope(r)] # NoKey, table'[Scope(r)][att[r][Scope(r)]] = NoEntry
               PROVE  /\ Count(table'[Scope(r)]) = MaxKeys
                      /\ \A x \in Keys : table'[Scope(r)][x] # NoEntry =>
                            now - table'[Scope(r)][x].lastAt < MaxLockout(Scope(r)) + SweepInterval
    OBVIOUS
  <2>1. FailAccount(r) \/ FailSource(r)
    <3>1. \A q \in Requests : \A l : Goto(q, l) => q = r
      BY DEF Goto, IInv, TypeOK
    <3>2. ~Tick
      BY DEF Tick, requests
    <3>3. \A q \in Requests : \A a, i : ~CheckAccount(q, a, i)
      BY DEF CheckAccount, IInv, TypeOK
    <3>4. \A q \in Requests : ~CheckSource(q) /\ ~Handler(q) /\ ~Succeed(q)
      BY <3>1 DEF CheckSource, Handler, Succeed
    <3>5. \A q \in Requests : FailAccount(q) \/ FailSource(q) => q = r
      BY <3>1 DEF FailAccount, FailSource, Report
    <3> QED
      BY <3>2, <3>3, <3>4, <3>5 DEF Next
  <2>3. now' = now /\ fail(Scope(r), att[r][Scope(r)])
    BY <2>1 DEF FailAccount, FailSource, Report, Scope
  <2>4. Scope(r) \in Scopes
    BY DEF Scope, Scopes
  <2>5. att[r][Scope(r)] \in Keys
    BY <2>4 DEF IInv, TypeOK
  <2> QED
    BY <2>3, <2>4, <2>5, Unrecorded DEF IInv
<1> QED
  BY <1>1, Invariance, PTL DEF Spec, CrowdedOutBriefly
===============================================================================
