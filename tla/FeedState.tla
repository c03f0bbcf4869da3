------------------------------ MODULE FeedState ------------------------------
(***************************************************************************)
(* The state of one engagement's event stream, from the producers of its   *)
(* rows to the browser, and what the stream promises the browser.  The     *)
(* steps are in EventStream.                                               *)
(***************************************************************************)
EXTENDS Integers, Sequences, FiniteSets

CONSTANTS
    Recorded,    \* activity entries recorded with Log.Record in their own write tx
    Alone,       \* activity entries appended with Log.RecordAlone
    Beats,       \* presence heartbeats and leaves
    Buffer,      \* Options.Buffer: capacity of a subscriber's channel
    MaxReplay,   \* BLACKLIGHT_EVENTS_MAX_REPLAY
    MaxDrops     \* bound: connections that drop (the client reconnects after each)

Entries == Recorded \cup Alone
Sources == Entries \cup Beats

ASSUME BoundsAssumption == Buffer \in Nat \ {0} /\ MaxReplay \in Nat \ {0} /\ MaxDrops \in Nat
ASSUME KindsAssumption == Recorded \cap Alone = {} /\ Entries \cap Beats = {}

VARIABLES
    clock,      \* the last id minted
    id,         \* the id of each entry and beat, 0 before it is minted
    at,         \* where each entry or beat is
    target,     \* Publish's snapshot: the connection it will send to, 0 for none
    lock,       \* a write transaction is open
    log,        \* ids of committed activity rows
    conn,       \* "down", "armed" (subscribed, replay to come) or "live"
    epoch,      \* number of the current connection; 0 before the first
    drops,      \* connections dropped so far
    chan,       \* the subscriber's channel
    open,       \* the channel is not closed
    wire,       \* frames written to the response and not yet received
    cursor,     \* Last-Event-ID the client holds; 0 for none
    resume,     \* the cursor the current connection was opened with
    base,       \* history: rows committed when the client last connected with no cursor
    seen,       \* history: rows the client has received or refetched
    overtaken   \* history: rows not yet sent when a larger id was sent

-----------------------------------------------------------------------------
(* What the stream promises *)

\* Rows the stream owes the client.  A client without a cursor gets the live
\* tail only: what was committed before it connected is the REST load's business.
Covered(r) == cursor # 0 /\ r \notin base

\* The cursor never passes a committed row the client has neither received nor
\* refetched, unless that row was still unsent when a larger id was sent: the
\* subscribe-replay-tail sequence, truncation, eviction and drops lose nothing.
LossOnlyByOvertaking ==
    \A r \in log : Covered(r) /\ r < cursor => r \in seen \cup overtaken

\* A row recorded with Log.Record, whose fan-out is flushed before the write
\* lock is released, is never overtaken by another activity row: only a
\* presence event, whose id is minted outside the lock, can do that.
RecordedOvertakenByPresenceOnly ==
    \A e \in Recorded : id[e] \in overtaken =>
        \E b \in Beats : id[b] > id[e] /\ at[b] = "done"
=============================================================================
