----------------------------- MODULE StoreWriter -----------------------------
(***************************************************************************)
(* The serialized writer of internal/store: DB.Write, DB.Close and the     *)
(* post-commit fan-out queue (db.go, postcommit.go).                       *)
(*                                                                         *)
(* A member of Writes is ONE call of DB.Write with its own context.  The   *)
(* one-slot channel writeLock is modelled as the boolean slot: who holds   *)
(* it is told by the callers' program counters only, as in the code, so    *)
(* that mutual exclusion is something to check.  A reader is any query on  *)
(* the shared connection pool.                                             *)
(***************************************************************************)
EXTENDS Integers, Sequences, FiniteSets

CONSTANTS
    Writes,      \* calls of DB.Write
    Readers,     \* concurrent users of DB.Read
    PoolSize,    \* SetMaxOpenConns: readerConns + 1
    MaxRecords   \* bound: activity rows one write transaction records

ASSUME PoolAssumption == PoolSize \in Nat \ {0, 1}
ASSUME RecordsAssumption == MaxRecords \in Nat
ASSUME FiniteAssumption == IsFiniteSet(Writes) /\ IsFiniteSet(Readers)

VARIABLES
    pc,         \* where each Write call is
    cancelled,  \* calls whose context is done
    late,       \* history: calls whose context was done before they began a tx
    slot,       \* writeLock: TRUE when the channel's one slot is full
    closing,    \* DB.closing is closed
    closer,     \* the body of closeOnce: "idle", "waiting" (for the lock), "closed"
    conns,      \* connections checked out of the pool (writers and readers)
    reading,    \* readers with a connection
    recorded,   \* activity rows recorded by the tx so far, per call
    queue,      \* FanoutQueue.fns: the call that pushed each callback
    batch,      \* Flush's private copy of the queue, per call
    outcome,    \* what the call returned
    published,  \* events published, in order
    history     \* calls committed, in order

vars == <<pc, cancelled, late, slot, closing, closer, conns, reading, recorded,
          queue, batch, outcome, published, history>>

Outcomes == {"none", "ok", "ctxErr", "errClosed", "connErr", "fnErr",
             "rollbackErr", "commitErr", "panic"}

PCs == {"start", "select", "recheck", "checkout", "begin", "tx", "commit",
        "flush", "publish", "release", "returned"}

\* The pcs at which the call owns the write lock, and a pooled connection.
LockPCs == {"recheck", "checkout", "begin", "tx", "commit", "flush", "publish", "release"}
ConnPCs == {"begin", "tx", "commit", "flush", "publish", "release"}

TypeOK ==
    /\ pc \in [Writes -> PCs]
    /\ cancelled \subseteq Writes
    /\ late \subseteq Writes
    /\ slot \in BOOLEAN
    /\ closing \in BOOLEAN
    /\ closer \in {"idle", "waiting", "closed"}
    /\ conns \in Nat
    /\ reading \subseteq Readers
    /\ recorded \in [Writes -> 0..MaxRecords]
    /\ queue \in Seq(Writes)
    /\ batch \in [Writes -> Seq(Writes)]
    /\ outcome \in [Writes -> Outcomes]
    /\ published \in Seq(Writes)
    /\ history \in Seq(Writes)

Init ==
    /\ pc = [w \in Writes |-> "start"]
    /\ cancelled = {}
    /\ late = {}
    /\ slot = FALSE
    /\ closing = FALSE
    /\ closer = "idle"
    /\ conns = 0
    /\ reading = {}
    /\ recorded = [w \in Writes |-> 0]
    /\ queue = << >>
    /\ batch = [w \in Writes |-> << >>]
    /\ outcome = [w \in Writes |-> "none"]
    /\ published = << >>
    /\ history = << >>

Goto(w, l) == pc' = [pc EXCEPT ![w] = l]

\* Write returns err without having acquired the lock.
Refuse(w, err) ==
    /\ Goto(w, "returned")
    /\ outcome' = [outcome EXCEPT ![w] = err]
    /\ UNCHANGED <<cancelled, late, slot, closing, closer, conns, reading, recorded,
                   queue, batch, published, history>>

-----------------------------------------------------------------------------
(* acquireWrite *)

\* The two checks before the blocking select.
Enter(w) ==
    /\ pc[w] = "start"
    /\ \/ w \in cancelled /\ Refuse(w, "ctxErr")
       \/ w \notin cancelled /\ closing /\ Refuse(w, "errClosed")
       \/ /\ w \notin cancelled /\ ~closing
          /\ Goto(w, "select")
          /\ UNCHANGED <<cancelled, late, slot, closing, closer, conns, reading,
                         recorded, queue, batch, outcome, published, history>>

\* The select: any ready case may be taken.
TakeSlot(w) ==
    /\ pc[w] = "select"
    /\ ~slot
    /\ slot' = TRUE
    /\ Goto(w, "recheck")
    /\ UNCHANGED <<cancelled, late, closing, closer, conns, reading, recorded, queue,
                   batch, outcome, published, history>>

\* [mutant] the select has no closing case.
SelectIgnoresClosing(w) == pc[w] = "select" /\ w \in cancelled /\ Refuse(w, "ctxErr")

SelectLeaves(w) ==
    /\ pc[w] = "select"
    /\ \/ closing /\ Refuse(w, "errClosed")
       \/ w \in cancelled /\ Refuse(w, "ctxErr")

\* [mutant] the cancelled caller returns without giving the lock back.
RecheckLeaksLock(w) ==
    /\ pc[w] = "recheck"
    /\ IF w \in cancelled
       THEN Goto(w, "returned") /\ outcome' = [outcome EXCEPT ![w] = "ctxErr"]
       ELSE Goto(w, "checkout") /\ UNCHANGED outcome
    /\ UNCHANGED <<cancelled, late, slot, closing, closer, conns, reading, recorded,
                   queue, batch, published, history>>

\* ctx.Err() once more with the lock held: a cancelled caller gives it back.
Recheck(w) ==
    /\ pc[w] = "recheck"
    /\ IF w \in cancelled
       THEN /\ slot' = FALSE
            /\ Goto(w, "returned")
            /\ outcome' = [outcome EXCEPT ![w] = "ctxErr"]
       ELSE /\ Goto(w, "checkout")
            /\ UNCHANGED <<slot, outcome>>
    /\ UNCHANGED <<cancelled, late, closing, closer, conns, reading, recorded, queue,
                   batch, published, history>>

-----------------------------------------------------------------------------
(* Write, with the lock held.  Leave(w, err) is the exit of every path: the
   deferred conn.Close and release run at "release".                        *)

Leave(w, err) ==
    /\ Goto(w, "release")
    /\ outcome' = [outcome EXCEPT ![w] = err]

\* db.read.Conn(ctx): waits for a pooled connection, or fails.
Checkout(w) ==
    /\ pc[w] = "checkout"
    /\ conns < PoolSize
    /\ conns' = conns + 1
    /\ Goto(w, "begin")
    /\ UNCHANGED <<cancelled, late, slot, closing, closer, reading, recorded, queue,
                   batch, outcome, published, history>>

\* Conn fails: no connection was taken, so only the lock is given back.
CheckoutFails(w) ==
    /\ pc[w] = "checkout"
    /\ Goto(w, "returned")
    /\ outcome' = [outcome EXCEPT ![w] = "connErr"]
    /\ slot' = FALSE
    /\ UNCHANGED <<cancelled, late, closing, closer, conns, reading, recorded, queue,
                   batch, published, history>>

\* [mutant] the transaction is begun on context.Background().
TxOnBackground(w) == TRUE

\* The transaction belongs to the caller's context: database/sql refuses to
\* begin, and rolls back instead of committing, once that context is done.
TxLive(w) == w \notin cancelled

\* [mutant] the error return of BeginTx forgets conn.Close.
BeginLeaksConn(w) ==
    /\ pc[w] = "begin"
    /\ \/ TxLive(w) /\ Goto(w, "tx") /\ UNCHANGED <<outcome, slot>>
       \/ Goto(w, "returned") /\ slot' = FALSE /\ outcome' = [outcome EXCEPT ![w] = "connErr"]
    /\ UNCHANGED <<cancelled, late, closing, closer, conns, reading, recorded, queue,
                   batch, published, history>>

\* conn.BeginTx(ctx): refuses a context that is done.
Begin(w) ==
    /\ pc[w] = "begin"
    /\ \/ TxLive(w) /\ Goto(w, "tx") /\ UNCHANGED outcome
       \/ Leave(w, "connErr")
    /\ UNCHANGED <<cancelled, late, slot, closing, closer, conns, reading, recorded,
                   queue, batch, published, history>>

\* fn records an activity row: Log.Record inserts it and pushes the fan-out.
Record(w) ==
    /\ pc[w] = "tx"
    /\ TxLive(w)
    /\ recorded[w] < MaxRecords
    /\ recorded' = [recorded EXCEPT ![w] = @ + 1]
    /\ queue' = Append(queue, w)
    /\ UNCHANGED <<pc, cancelled, late, slot, closing, closer, conns, reading, batch,
                   outcome, published, history>>

\* [mutant] the rollback path forgets Clear.
FnFailsNoClear(w) ==
    /\ pc[w] = "tx"
    /\ Leave(w, "fnErr")
    /\ UNCHANGED <<cancelled, late, slot, closing, closer, conns, reading, recorded,
                   queue, batch, published, history>>

\* fn returns an error: roll back; Clear only when the rollback succeeded.
FnFails(w) ==
    /\ pc[w] = "tx"
    /\ \/ Leave(w, "fnErr") /\ queue' = << >>
       \/ TxLive(w) /\ Leave(w, "rollbackErr") /\ UNCHANGED queue
    /\ UNCHANGED <<cancelled, late, slot, closing, closer, conns, reading, recorded,
                   batch, published, history>>

\* [mutant] a panic skips the deferred release.
PanicKeepsLock(w) ==
    /\ pc[w] = "tx"
    /\ Goto(w, "returned")
    /\ outcome' = [outcome EXCEPT ![w] = "panic"]
    /\ UNCHANGED <<cancelled, late, slot, closing, closer, conns, reading, recorded,
                   queue, batch, published, history>>

\* fn panics (or calls Goexit): the deferred rollback runs, Clear does not.
FnPanics(w) ==
    /\ pc[w] = "tx"
    /\ Leave(w, "panic")
    /\ UNCHANGED <<cancelled, late, slot, closing, closer, conns, reading, recorded,
                   queue, batch, published, history>>

FnReturns(w) ==
    /\ pc[w] = "tx"
    /\ Goto(w, "commit")
    /\ UNCHANGED <<cancelled, late, slot, closing, closer, conns, reading, recorded,
                   queue, batch, outcome, published, history>>

\* [mutant] the lock and the connection are given back at the commit, before the flush.
CommitUnlocks(w) ==
    /\ pc[w] = "commit"
    /\ TxLive(w)
    /\ history' = Append(history, w)
    /\ slot' = FALSE
    /\ conns' = conns - 1
    /\ Goto(w, "flush")
    /\ UNCHANGED <<cancelled, late, closing, closer, reading, recorded, queue,
                   batch, outcome, published>>

\* tx.Commit succeeds only while the context is live: database/sql rolls the
\* transaction back itself when the context is done.
Commit(w) ==
    /\ pc[w] = "commit"
    /\ TxLive(w)
    /\ history' = Append(history, w)
    /\ Goto(w, "flush")
    /\ UNCHANGED <<cancelled, late, slot, closing, closer, conns, reading, recorded,
                   queue, batch, outcome, published>>

\* tx.Commit fails (the context is done, or the storage refuses): Write returns
\* the error and leaves the queue as it is.
CommitFails(w) ==
    /\ pc[w] = "commit"
    /\ Leave(w, "commitErr")
    /\ UNCHANGED <<cancelled, late, slot, closing, closer, conns, reading, recorded,
                   queue, batch, published, history>>

\* Flush: take the whole queue, then run it callback by callback.
Flush(w) ==
    /\ pc[w] = "flush"
    /\ batch' = [batch EXCEPT ![w] = queue]
    /\ queue' = << >>
    /\ Goto(w, "publish")
    /\ UNCHANGED <<cancelled, late, slot, closing, closer, conns, reading, recorded,
                   outcome, published, history>>

\* One callback: looks the step's reveal state up on a second pooled
\* connection (taken and returned within the call), then publishes.
RunCallback(w) ==
    /\ pc[w] = "publish"
    /\ batch[w] # << >>
    /\ conns < PoolSize
    /\ published' = Append(published, Head(batch[w]))
    /\ batch' = [batch EXCEPT ![w] = Tail(@)]
    /\ UNCHANGED <<pc, cancelled, late, slot, closing, closer, conns, reading,
                   recorded, queue, outcome, history>>

Finish(w) ==
    /\ pc[w] = "publish"
    /\ batch[w] = << >>
    /\ Leave(w, "ok")
    /\ UNCHANGED <<cancelled, late, slot, closing, closer, conns, reading, recorded,
                   queue, batch, published, history>>

\* The deferred calls: conn.Close returns the connection, release the lock.
Release(w) ==
    /\ pc[w] = "release"
    /\ Goto(w, "returned")
    /\ conns' = conns - 1
    /\ slot' = FALSE
    /\ UNCHANGED <<cancelled, late, closing, closer, reading, recorded, queue, batch,
                   outcome, published, history>>

-----------------------------------------------------------------------------
(* The environment of a Write call: its context, Close, the readers. *)

\* The caller's context is cancelled at any point before Write returns.
CancelCtx(w) ==
    /\ pc[w] # "returned"
    /\ w \notin cancelled
    /\ cancelled' = cancelled \cup {w}
    /\ late' = IF pc[w] \in {"start", "select", "recheck", "checkout", "begin"}
               THEN late \cup {w} ELSE late
    /\ UNCHANGED <<pc, slot, closing, closer, conns, reading, recorded, queue, batch,
                   outcome, published, history>>

\* close(db.closing), the first half of closeOnce.
CloseBegins ==
    /\ closer = "idle"
    /\ closer' = "waiting"
    /\ closing' = TRUE
    /\ UNCHANGED <<pc, cancelled, late, slot, conns, reading, recorded, queue, batch,
                   outcome, published, history>>

\* [mutant] Close does not wait for the in-flight write.
CloseDoesNotWait ==
    /\ closer = "waiting"
    /\ slot' = TRUE
    /\ closer' = "closed"
    /\ UNCHANGED <<pc, cancelled, late, closing, conns, reading, recorded, queue, batch,
                   outcome, published, history>>

\* The lock is taken and never given back; then the pool is closed.
CloseTakesSlot ==
    /\ closer = "waiting"
    /\ ~slot
    /\ slot' = TRUE
    /\ closer' = "closed"
    /\ UNCHANGED <<pc, cancelled, late, closing, conns, reading, recorded, queue, batch,
                   outcome, published, history>>

ReaderStarts(r) ==
    /\ r \notin reading
    /\ closer # "closed"
    /\ conns < PoolSize
    /\ conns' = conns + 1
    /\ reading' = reading \cup {r}
    /\ UNCHANGED <<pc, cancelled, late, slot, closing, closer, recorded, queue, batch,
                   outcome, published, history>>

ReaderEnds(r) ==
    /\ r \in reading
    /\ conns' = conns - 1
    /\ reading' = reading \ {r}
    /\ UNCHANGED <<pc, cancelled, late, slot, closing, closer, recorded, queue, batch,
                   outcome, published, history>>

-----------------------------------------------------------------------------
Write(w) ==
    \/ Enter(w) \/ TakeSlot(w) \/ SelectLeaves(w) \/ Recheck(w)
    \/ Checkout(w) \/ CheckoutFails(w) \/ Begin(w)
    \/ Record(w) \/ FnFails(w) \/ FnPanics(w) \/ FnReturns(w)
    \/ Commit(w) \/ CommitFails(w)
    \/ Flush(w) \/ RunCallback(w) \/ Finish(w) \/ Release(w)

Close == CloseBegins \/ CloseTakesSlot

Next ==
    \/ \E w \in Writes : Write(w) \/ CancelCtx(w)
    \/ Close
    \/ \E r \in Readers : ReaderStarts(r) \/ ReaderEnds(r)

Spec == Init /\ [][Next]_vars

(* Fairness.  A goroutine that can run does run (WF), fn returns, a reader
   finishes its query.  database/sql hands a freed connection to one of the
   waiters at random, so a waiter that keeps having a chance gets one (SF).
   Nothing makes a failure, a panic, a cancellation or Close happen.        *)
Proceed(w) ==
    \/ Enter(w) \/ TakeSlot(w) \/ SelectLeaves(w) \/ Recheck(w) \/ Begin(w)
    \/ FnReturns(w) \/ Commit(w) \/ CommitFails(w) \/ Flush(w) \/ Finish(w)
    \/ Release(w)

Fairness ==
    /\ \A w \in Writes : /\ WF_vars(Proceed(w))
                         /\ SF_vars(Checkout(w))
                         /\ SF_vars(RunCallback(w))
    /\ WF_vars(CloseTakesSlot)
    /\ \A r \in Readers : WF_vars(ReaderEnds(r))

FairSpec == Spec /\ Fairness

-----------------------------------------------------------------------------
(* Properties *)

Holders == {w \in Writes : pc[w] \in LockPCs}
ConnHolders == {w \in Writes : pc[w] \in ConnPCs}
InHistory(w) == \E i \in 1..Len(history) : history[i] = w
Events(w, s) == Cardinality({i \in 1..Len(s) : s[i] = w})

\* "one caller at a time" (DB.Write): at most one call owns the lock, none
\* does once Close has taken it, and the slot is full exactly when somebody
\* owns it - no path of acquireWrite or Write leaks or doubly releases it.
OneWriter ==
    /\ \A v, w \in Holders : v = w
    /\ closer = "closed" => Holders = {}
    /\ slot <=> (Holders # {} \/ closer = "closed")

\* Every connection out of the pool belongs to a running reader or to the
\* writer: no exit of Write (error, panic, failed commit) leaks one.
NoConnLeak ==
    conns = Cardinality(reading) + Cardinality(ConnHolders)

\* "a caller whose request was cancelled returns ctx.Err() and its mutation is
\* never applied": a context done before the transaction began commits nothing.
CancelledAppliesNothing == \A w \in late : ~InHistory(w)

\* A write whose fn failed publishes nothing: neither its own flush nor a later
\* writer's delivers the events it had queued.  A write that returned nil has
\* published each of its events, exactly once, before returning.
FanOutMatchesOutcome ==
    \A w \in Writes :
        /\ outcome[w] = "fnErr" => Events(w, published) = 0
        /\ outcome[w] = "ok" => Events(w, published) = recorded[w]

\* Subscribers see committed writes in commit order: the events of an earlier
\* commit are never published after those of a later one.
PublishedInCommitOrder ==
    \A i, j \in 1..Len(published) :
        (i < j /\ InHistory(published[i]) /\ InHistory(published[j])) =>
            \E k, l \in 1..Len(history) :
                k <= l /\ history[k] = published[i] /\ history[l] = published[j]

\* Close "waits for the in-flight write": once it has returned nothing commits
\* and nothing is published any more.
QuietAfterClose ==
    [][closer = "closed" => history' = history /\ published' = published]_vars

\* Every Write call returns, however the readers crowd the pool and whether or
\* not Close runs.
EveryWriteReturns == \A w \in Writes : <>(pc[w] = "returned")

\* Close returns.
CloseReturns == closing ~> closer = "closed"

\* DB.Write and DB.Close keep their promise (WriteService): the queueing, the
\* pool, the failures and the fan-out only ever show as writes applied in turn,
\* calls that return nil exactly when applied, and a Close between writes.
Service == INSTANCE WriteService
    WITH Errors <- Outcomes \ {"none", "ok"}, applied <- history, result <- outcome,
         void <- late, open <- (closer # "closed")

KeepsPromise == Service!Spec

\* "Run only after commit succeeds so we never publish events for rows that
\* rolled back" (db.go), "events for uncommitted rows must never be published"
\* (postcommit.go).  Refuted: the callbacks of a write whose commit failed or whose fn
\* panicked are flushed by the next one (README, Known divergences).
NoPhantomEvent == \A i \in 1..Len(published) : InHistory(published[i])

=============================================================================
