----------------------------- MODULE EventStream -----------------------------
(***************************************************************************)
(* One engagement's event stream, end to end, as one browser client sees   *)
(* it: activity rows get their UUIDv7 inside the write transaction         *)
(* (events/activity.go, store/activity), are fanned out through the hub    *)
(* (events/hub.go), presence events get theirs when they are published     *)
(* (httpapi/presencehandlers.go), and GET /events subscribes, replays the  *)
(* rows after the client's cursor and then tails the hub                   *)
(* (httpapi/events.go, events/replay.go).  The client keeps the id of the  *)
(* last frame it received as its cursor (web/src/lib/use-event-source.ts,  *)
(* web/src/features/engagements/use-engagement-events.ts).                 *)
(*                                                                         *)
(* Ids are drawn from one rising clock: UUIDv7 values minted by one        *)
(* process are ordered by minting time.                                    *)
(***************************************************************************)
EXTENDS FeedState

Gap == 0     \* a stream.gap frame; ids are positive

vars == <<clock, id, at, target, lock, log, conn, epoch, drops, chan, open, wire,
          cursor, resume, base, seen, overtaken>>

producerVars == <<clock, id, at, target, lock, log>>
streamVars == <<conn, epoch, drops, chan, open, wire, resume>>
clientVars == <<cursor, base, seen>>

PCs == {"idle", "tx", "publish", "send", "done", "rolledback"}
Ids == 0..clock     \* 0, and the ids minted so far

TypeOK ==
    /\ clock \in Nat
    /\ id \in [Sources -> Ids]
    /\ at \in [Sources -> PCs]
    /\ target \in [Sources -> Nat]
    /\ lock \in BOOLEAN /\ open \in BOOLEAN
    /\ log \subseteq Ids /\ seen \subseteq Ids /\ base \subseteq Ids /\ overtaken \subseteq Ids
    /\ conn \in {"down", "armed", "live"}
    /\ epoch \in Nat /\ drops \in 0..MaxDrops
    /\ chan \in Seq(Ids) /\ Len(chan) <= Buffer
    /\ wire \in Seq(Ids)
    /\ cursor \in Ids /\ resume \in Ids

\* The client is new, or comes back with the one earlier row it has received
\* as its cursor.
Init ==
    /\ id = [s \in Sources |-> 0]
    /\ at = [s \in Sources |-> "idle"]
    /\ target = [s \in Sources |-> 0]
    /\ lock = FALSE /\ open = FALSE
    /\ cursor \in {0, 1} /\ clock = cursor
    /\ log = 1..cursor /\ seen = 1..cursor
    /\ base = {} /\ overtaken = {}
    /\ conn = "down" /\ epoch = 0 /\ drops = 0
    /\ chan = << >> /\ wire = << >>
    /\ resume = 0

Mint(s) ==
    /\ clock' = clock + 1
    /\ id' = [id EXCEPT ![s] = clock + 1]

Goto(s, l) == at' = [at EXCEPT ![s] = l]

-----------------------------------------------------------------------------
(* Producers *)

\* Entries.Insert inside DB.Write: the id is minted with the lock held.
Insert(e) ==
    /\ at[e] = "idle" /\ ~lock
    /\ Mint(e)
    /\ lock' = TRUE
    /\ Goto(e, "tx")
    /\ UNCHANGED <<target, log, streamVars, clientVars, overtaken>>

\* The transaction rolls back: no row, no event (Clear).
Rollback(e) ==
    /\ at[e] = "tx"
    /\ lock' = FALSE
    /\ Goto(e, "rolledback")
    /\ UNCHANGED <<clock, id, target, log, streamVars, clientVars, overtaken>>

\* [mutant] the fan-out queue is flushed after the write lock is released.
CommitUnlocksFirst(e) ==
    /\ at[e] = "tx"
    /\ log' = log \cup {id[e]}
    /\ lock' = FALSE
    /\ Goto(e, "publish")
    /\ UNCHANGED <<clock, id, target, streamVars, clientVars, overtaken>>

\* The row commits.  Log.Record's callback is flushed with the lock still held;
\* RecordAlone publishes after Append has returned, without the lock.
CommitRow(e) ==
    /\ at[e] = "tx"
    /\ log' = log \cup {id[e]}
    /\ lock' = (e \in Recorded)
    /\ Goto(e, "publish")
    /\ UNCHANGED <<clock, id, target, streamVars, clientVars, overtaken>>

\* PutEngagementPresence / DeleteEngagementPresence: a fresh id, then Publish.
Beat(b) ==
    /\ at[b] = "idle"
    /\ Mint(b)
    /\ Goto(b, "publish")
    /\ UNCHANGED <<target, lock, log, streamVars, clientVars, overtaken>>

\* Hub.Publish: the targets are snapshot under the hub's lock.
Snapshot(s) ==
    /\ at[s] = "publish"
    /\ target' = [target EXCEPT ![s] = IF conn = "down" \/ ~open THEN 0 ELSE epoch]
    /\ Goto(s, "send")
    /\ UNCHANGED <<clock, id, lock, log, streamVars, clientVars, overtaken>>

\* trySend: append to the channel, or close it when it is full.  A target that
\* has gone or is closed is skipped.
Sent(s) == target[s] # 0 /\ target[s] = epoch /\ conn # "down" /\ open

Unsent == {e \in Entries : at[e] \in {"tx", "publish", "send"}}

\* [mutant] a full buffer drops the event and keeps the subscriber.
TrySendDrops(s) ==
    /\ at[s] = "send"
    /\ chan' = IF Sent(s) /\ Len(chan) < Buffer THEN Append(chan, id[s]) ELSE chan
    /\ lock' = IF s \in Recorded THEN FALSE ELSE lock
    /\ Goto(s, "done")
    /\ UNCHANGED <<clock, id, target, log, conn, epoch, drops, open, wire, resume,
                   clientVars, overtaken>>

TrySend(s) ==
    /\ at[s] = "send"
    /\ IF ~Sent(s) THEN UNCHANGED <<chan, open>>
       ELSE IF Len(chan) < Buffer THEN chan' = Append(chan, id[s]) /\ UNCHANGED open
       ELSE open' = FALSE /\ UNCHANGED chan
    /\ overtaken' = IF Sent(s) THEN overtaken \cup {id[e] : e \in {x \in Unsent : id[x] < id[s]}}
                    ELSE overtaken
    /\ lock' = IF s \in Recorded THEN FALSE ELSE lock
    /\ Goto(s, "done")
    /\ UNCHANGED <<clock, id, target, log, conn, epoch, drops, wire, resume, clientVars>>

Publisher(s) == Snapshot(s) \/ TrySend(s)

-----------------------------------------------------------------------------
(* The stream: SubscribeEvents, then streamWithReplay *)

\* hub.Subscribe comes first; the request carries the client's cursor.
Connect ==
    /\ conn = "down"
    /\ conn' = "armed"
    /\ epoch' = epoch + 1
    /\ chan' = << >> /\ open' = TRUE /\ wire' = << >>
    /\ resume' = cursor
    /\ base' = IF cursor = 0 THEN log ELSE base
    /\ UNCHANGED <<producerVars, drops, cursor, seen, overtaken>>

\* Rows with id > cursor, oldest first, at most MaxReplay of them.
Missed == {r \in log : r > resume}
OldestFirst(S) ==
    {s \in [1..Cardinality(S) -> S] :
        /\ \A i, k \in DOMAIN s : i < k => s[i] < s[k]
        /\ \A r \in S : \E i \in DOMAIN s : s[i] = r}
ReplayNoGap(rows) == IF Len(rows) > MaxReplay THEN SubSeq(rows, 1, MaxReplay) ELSE rows  \* [mutant]
ReplayAfter(rows) ==
    IF Len(rows) > MaxReplay THEN SubSeq(rows, 1, MaxReplay) \o <<Gap>> ELSE rows

\* Without a cursor there is nothing to replay.
ReplayThenTail ==
    /\ conn = "armed"
    /\ conn' = "live"
    /\ \/ resume = 0 /\ wire' = << >>
       \/ resume # 0 /\ \E rows \in OldestFirst(Missed) : wire' = ReplayAfter(rows)
       \/ resume # 0 /\ wire' = <<Gap>>       \* the read failed
    /\ UNCHANGED <<producerVars, epoch, drops, chan, open, resume, clientVars, overtaken>>

\* Live tail: the response is written one frame at a time.
Tail1 ==
    /\ conn = "live" /\ chan # << >> /\ wire = << >>
    /\ wire' = <<Head(chan)>>
    /\ chan' = Tail(chan)
    /\ UNCHANGED <<producerVars, conn, epoch, drops, open, resume, clientVars, overtaken>>

\* A closed channel is drained, then the response ends.
StreamEnds ==
    /\ conn = "live" /\ ~open /\ chan = << >> /\ wire = << >>
    /\ conn' = "down"
    /\ UNCHANGED <<producerVars, epoch, drops, chan, open, wire, resume, clientVars, overtaken>>

\* The connection drops: frames in flight are lost.
Drop ==
    /\ conn # "down" /\ drops < MaxDrops
    /\ drops' = drops + 1
    /\ conn' = "down" /\ open' = FALSE
    /\ chan' = << >> /\ wire' = << >>
    /\ UNCHANGED <<producerVars, epoch, resume, clientVars, overtaken>>

-----------------------------------------------------------------------------
(* The client *)

\* A gap refetches every query of the engagement; any other frame is applied
\* and becomes the cursor, presence frames included.
Receive ==
    /\ wire # << >>
    /\ wire' = Tail(wire)
    /\ IF Head(wire) = Gap
       THEN seen' = seen \cup log /\ UNCHANGED cursor
       ELSE /\ seen' = seen \cup {Head(wire)}
            /\ cursor' = Head(wire)
    /\ UNCHANGED <<base, producerVars, conn, epoch, drops, chan, open, resume, overtaken>>

-----------------------------------------------------------------------------
Produce ==
    \/ \E e \in Entries : Insert(e) \/ Rollback(e) \/ CommitRow(e)
    \/ \E b \in Beats : Beat(b)
    \/ \E s \in Sources : Publisher(s)

Stream == Connect \/ ReplayThenTail \/ Tail1 \/ StreamEnds \/ Drop

Next == Produce \/ Stream \/ Receive

Spec == Init /\ [][Next]_vars

(* Fairness: a handler that has begun runs to its end, the server writes and
   the browser reads and reconnects.  Drops, rollbacks and new work are not
   forced.                                                                  *)
Fairness ==
    /\ \A e \in Entries : WF_vars(CommitRow(e))
    /\ \A s \in Sources : WF_vars(Publisher(s))
    /\ WF_vars(Connect) /\ WF_vars(ReplayThenTail) /\ WF_vars(Tail1)
    /\ WF_vars(StreamEnds) /\ WF_vars(Receive)

FairSpec == Spec /\ Fairness

-----------------------------------------------------------------------------
(* Properties *)

\* Every committed row reaches a client that keeps reconnecting, or was
\* overtaken: a full buffer costs the connection, never the row.
EveryRowArrives ==
    \A e \in Entries :
        (id[e] \in log /\ Covered(id[e])) ~> (id[e] \in seen \cup overtaken)

\* A reconnect with a cursor has caught up: replay and tail are drained and no
\* producer is under way.
CaughtUp ==
    /\ conn = "live" /\ open /\ resume # 0
    /\ wire = << >> /\ chan = << >>
    /\ \A s \in Sources : at[s] \in {"idle", "done", "rolledback"}

\* "Subscriber disconnects, N engagement mutations occur, reconnect with
\* Last-Event-ID -> receives those N (or sync.required if over cap) then live
\* events" (docs/tickets/done/M4-004): a client that has caught up has every row.
\* Refuted: rows of RecordAlone may be published against the order of their ids
\* (README, Known divergences).
NoSilentLoss == CaughtUp => log \ base \subseteq seen

=============================================================================
