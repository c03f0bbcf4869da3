------------------------------- MODULE Throttle -------------------------------
(***************************************************************************)
(* Rationing of failed sign-in attempts (internal/authn/throttle and the   *)
(* throttleCredentials middleware of internal/httpapi/throttle.go).  Two   *)
(* counters, one per account and one per source address, each a table      *)
(* behind its own mutex.  A request asks both counters, runs its handler   *)
(* with no lock held, and reports the outcome afterwards; each of those is *)
(* a step, so requests that were let in can report after the key closed.   *)
(***************************************************************************)
EXTENDS Integers, FiniteSets

CONSTANTS
    Accounts, Sources,   \* normalized keys (accountKey, sourceKey)
    NoKey,               \* an empty key, which is not limited
    NoEntry,             \* a key the table does not hold
    Requests,            \* concurrent guarded requests; each slot is reused
    AccountFailures, SourceFailures,  \* Rule.Failures
    AccountLockout, SourceLockout,    \* Rule.Lockout
    MaxKeys,             \* size of each table
    SweepInterval,
    MaxTime,             \* bound: the clock
    MaxAttempts          \* bound: attempts let past Check's account half

Scopes == {"account", "source"}
Keys == Accounts \cup Sources
Entries == [failures : Nat, lockouts : Nat, lastAt : Nat, until : Nat]

\* validate refuses rules that limit nobody or everybody.
ASSUME ThrottleAssumption ==
    /\ AccountFailures \in Nat \ {0} /\ SourceFailures \in Nat \ {0}
    /\ AccountLockout \in Nat \ {0} /\ SourceLockout \in Nat \ {0}
    /\ MaxKeys \in Nat \ {0} /\ SweepInterval \in Nat \ {0} /\ MaxTime \in Nat /\ MaxAttempts \in Nat
    /\ IsFiniteSet(Requests) /\ Requests # {} /\ IsFiniteSet(Keys)
    /\ NoKey \notin Keys /\ NoEntry \notin Entries

VARIABLES
    now,       \* the injected clock
    table,     \* counter.entries
    sweptAt,   \* counter.sweptAt
    full,      \* counter.full
    pc, att,   \* each request: where it is, and its Attempt
    attempts,  \* how many attempts were let in, for the bound only
    promise,   \* history: when the last lockout handed out for a key ends
    overtime   \* history: failures reported during that lockout

counters == <<table, sweptAt, full>>
history == <<promise, overtime>>
requests == <<pc, att, attempts>>
vars == <<now, counters, requests, history>>

Places == {"idle", "checkSource", "handler", "failAccount", "failSource", "succeed"}
NoAttempt == [s \in Scopes |-> NoKey]

Count(t) == Cardinality({k \in Keys : t[k] # NoEntry})

TypeOK ==
    /\ now \in 0..MaxTime
    /\ table \in [Scopes -> [Keys -> Entries \cup {NoEntry}]]
    /\ sweptAt \in [Scopes -> Int] /\ full \in [Scopes -> BOOLEAN]
    /\ pc \in [Requests -> Places]
    /\ att \in [Requests -> [Scopes -> Keys \cup {NoKey}]]
    /\ attempts \in 0..MaxAttempts
    /\ promise \in [Scopes -> [Keys -> Nat]] /\ overtime \in [Scopes -> [Keys -> Nat]]
    /\ \A s \in Scopes : Count(table[s]) <= MaxKeys

\* newCounter; a sweptAt of the zero time makes the first failure sweep.
Init ==
    /\ now = 0
    /\ table = [s \in Scopes |-> [k \in Keys |-> NoEntry]]
    /\ sweptAt = [s \in Scopes |-> 0 - SweepInterval] /\ full = [s \in Scopes |-> FALSE]
    /\ pc = [r \in Requests |-> "idle"] /\ att = [r \in Requests |-> NoAttempt]
    /\ attempts = 0
    /\ promise = [s \in Scopes |-> [k \in Keys |-> 0]]
    /\ overtime = [s \in Scopes |-> [k \in Keys |-> 0]]

-----------------------------------------------------------------------------
(* The counter *)

Failures(s) == IF s = "account" THEN AccountFailures ELSE SourceFailures
Lockout(s) == IF s = "account" THEN AccountLockout ELSE SourceLockout

\* lockoutFor with backoffSteps = 3: the lockout doubles three times, then stays.
LockoutFor(s, n) ==
    Lockout(s) * (CASE n <= 1 -> 1 [] n = 2 -> 2 [] n = 3 -> 4 [] OTHER -> 8)
MaxLockout(s) == Lockout(s) * 8

Stale(s, e) == e # NoEntry /\ now - e.lastAt >= MaxLockout(s)

Sweep(s, t) == [k \in Keys |-> IF Stale(s, t[k]) THEN NoEntry ELSE t[k]]

RetryAfter(s, k) ==
    IF k = NoKey \/ table[s][k] = NoEntry \/ Stale(s, table[s][k]) \/ now >= table[s][k].until
    THEN 0 ELSE table[s][k].until - now

Room(t) == Count(t) < MaxKeys

\* [mutant] no periodic sweep: only a table that just filled up is swept.
NeverDue(s) == FALSE

SweepDue(s) == now - sweptAt[s] >= SweepInterval

\* The table fail works on: swept when due, without k if k is stale.
Current(s, k) ==
    LET t == IF SweepDue(s) THEN Sweep(s, table[s]) ELSE table[s]
    IN  IF Stale(s, t[k]) THEN [t EXCEPT ![k] = NoEntry] ELSE t

StillFull(s) == full[s] /\ ~(SweepDue(s) /\ Room(Sweep(s, table[s])))

\* admit: a new key that meets a table not known to be full sweeps it.
Crowded(s, k) == Current(s, k)[k] = NoEntry /\ ~Room(Current(s, k)) /\ ~StillFull(s)
Admitting(s, k) == IF Crowded(s, k) THEN Sweep(s, Current(s, k)) ELSE Current(s, k)

\* The entry a failure of k is recorded on.
EntryOf(s, k) ==
    IF Admitting(s, k)[k] = NoEntry
    THEN [failures |-> 0, lockouts |-> 0, lastAt |-> now, until |-> 0]
    ELSE Admitting(s, k)[k]
Refused(s, k) == Admitting(s, k)[k] = NoEntry /\ ~Room(Admitting(s, k))

\* One more failure closes the key or is counted.
Closes(s, e) == e.failures + 1 >= Failures(s)
After(s, e) ==
    IF Closes(s, e)
    THEN [failures |-> 0, lockouts |-> e.lockouts + 1, lastAt |-> now,
          until |-> now + LockoutFor(s, e.lockouts + 1)]
    ELSE [e EXCEPT !.failures = @ + 1, !.lastAt = now]

fail(s, k) ==
    LET t == Admitting(s, k)  e == EntryOf(s, k) IN
    /\ sweptAt' = [sweptAt EXCEPT ![s] = IF SweepDue(s) \/ Crowded(s, k) THEN now ELSE @]
    /\ full' = [full EXCEPT ![s] = IF Crowded(s, k) THEN ~Room(t) ELSE StillFull(s)]
    /\ \/ /\ Refused(s, k)
          /\ table' = [table EXCEPT ![s] = t]
          /\ UNCHANGED history
       \/ /\ ~Refused(s, k) /\ now < e.until
          /\ table' = [table EXCEPT ![s] = t]
          /\ overtime' = [overtime EXCEPT ![s][k] = @ + 1]
          /\ UNCHANGED promise
       \/ /\ ~Refused(s, k) /\ now >= e.until
          /\ table' = [table EXCEPT ![s] = [t EXCEPT ![k] = After(s, e)]]
          /\ promise' = IF Closes(s, e) THEN [promise EXCEPT ![s][k] = After(s, e).until] ELSE promise
          /\ overtime' = IF Closes(s, e) THEN [overtime EXCEPT ![s][k] = 0] ELSE overtime

-----------------------------------------------------------------------------
(* throttleCredentials *)

\* A request that is answered forgets its attempt.
Goto(r, l) ==
    /\ pc' = [pc EXCEPT ![r] = l]
    /\ att' = IF l = "idle" THEN [att EXCEPT ![r] = NoAttempt] ELSE att
    /\ UNCHANGED attempts

\* Limiter.Check, its account half; a refused request leaves no trace.
CheckAccount(r, a, i) ==
    /\ pc[r] = "idle" /\ attempts < MaxAttempts
    /\ RetryAfter("account", a) = 0
    /\ attempts' = attempts + 1
    /\ att' = [att EXCEPT ![r] = [s \in Scopes |-> IF s = "account" THEN a ELSE i]]
    /\ pc' = [pc EXCEPT ![r] = "checkSource"]
    /\ UNCHANGED <<now, counters, history>>

\* [mutant] the source is counted and never asked.
CheckSourceSkipped(r) ==
    /\ pc[r] = "checkSource"
    /\ Goto(r, "handler")
    /\ UNCHANGED <<now, counters, history>>

\* Limiter.Check, its source half.
CheckSource(r) ==
    /\ pc[r] = "checkSource"
    /\ Goto(r, IF RetryAfter("source", att[r]["source"]) = 0 THEN "handler" ELSE "idle")
    /\ UNCHANGED <<now, counters, history>>

(* The handler's verdict: a 401 is a failure, a 2xx a success; another status
   and a credential exchange that is not over (markCredentialIncomplete) are
   neither.                                                                  *)
Handler(r) ==
    /\ pc[r] = "handler"
    /\ \E next \in {"failAccount", "succeed", "idle"} : Goto(r, next)
    /\ UNCHANGED <<now, counters, history>>

Report(r, s, from, to) ==
    /\ pc[r] = from
    /\ Goto(r, to)
    /\ IF att[r][s] = NoKey THEN UNCHANGED <<counters, history>> ELSE fail(s, att[r][s])
    /\ UNCHANGED now

\* Limiter.Failed reports to both counters, each under its own lock.
FailAccount(r) == Report(r, "account", "failAccount", "failSource")
FailSource(r) == Report(r, "source", "failSource", "idle")

\* [mutant] the right password ends a lockout.
SucceedUnlocks(r) ==
    LET k == att[r]["account"] IN
    /\ pc[r] = "succeed"
    /\ Goto(r, "idle")
    /\ table' = IF k = NoKey THEN table ELSE [table EXCEPT !["account"][k] = NoEntry]
    /\ UNCHANGED <<now, sweptAt, full, history>>

\* Limiter.Succeeded forgets an account that is not locked; never a source.
Succeed(r) ==
    LET k == att[r]["account"]
        kept == k = NoKey \/ (table["account"][k] # NoEntry /\ now < table["account"][k].until)
    IN
    /\ pc[r] = "succeed"
    /\ Goto(r, "idle")
    /\ table' = IF kept THEN table ELSE [table EXCEPT !["account"][k] = NoEntry]
    /\ UNCHANGED <<now, sweptAt, full, history>>

Tick ==
    /\ now < MaxTime
    /\ now' = now + 1
    /\ UNCHANGED <<counters, requests, history>>

Next ==
    \/ \E r \in Requests :
        \/ \E a \in Accounts \cup {NoKey}, i \in Sources \cup {NoKey} : CheckAccount(r, a, i)
        \/ CheckSource(r) \/ Handler(r) \/ FailAccount(r) \/ FailSource(r) \/ Succeed(r)
    \/ Tick

Spec == Init /\ [][Next]_vars

-----------------------------------------------------------------------------
(* Properties *)

(* A lockout lasts exactly as long as it was announced for: no sweep, full
   table, late success or late failure ends it early or prolongs it
   (counter.stale, succeed and fail: "nothing that is still locked is ever
   stale").                                                                  *)
LockoutExact ==
    \A s \in Scopes, k \in Keys :
        RetryAfter(s, k) = IF now < promise[s][k] THEN promise[s][k] - now ELSE 0

(* The check and the report are separate steps, so a closed key can still be
   guessed at, but only by requests that were let in before it closed: fewer
   than there are request slots, per lockout and key (Limiter.Failed).       *)
OvertimeBounded ==
    \A s \in Scopes, k \in Keys : overtime[s][k] < Cardinality(Requests)

Scope(r) == IF pc[r] = "failAccount" THEN "account" ELSE "source"

(* A failure goes uncounted only when the table is full of keys that failed
   recently: stale keys crowd a new one out for less than one sweep interval
   although the full flag suppresses admit's own sweep.                      *)
CrowdedOutBriefly ==
    [][\A r \in Requests :
        LET s == Scope(r)  k == att[r][s] IN
        /\ pc[r] \in {"failAccount", "failSource"} /\ pc'[r] # pc[r]
        /\ k # NoKey /\ table'[s][k] = NoEntry
        => /\ Count(table'[s]) = MaxKeys
           /\ \A x \in Keys : table'[s][x] # NoEntry =>
                 now - table'[s][x].lastAt < MaxLockout(s) + SweepInterval]_vars
===============================================================================
