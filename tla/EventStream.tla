----------------------------- MODULE EventStream ----------------------------
(***************************************************************************)
(* The progress of one run, from the goroutine that publishes it to the    *)
(* browsers that watch it: activeRun's history and subscriber channels,    *)
(* and the handler of GET /runs/{id}/events with its select.               *)
(*                                                                         *)
(* An event is its sequence number.  The run's own life is reduced to what *)
(* the stream depends on: the row's status, the runner's map, and the      *)
(* order record, deregister, close.                                        *)
(***************************************************************************)
EXTENDS Naturals, Sequences

CONSTANTS
    Watchers,   \* event-stream requests, each made once
    Buffer,     \* capacity of a subscriber's channel (64 in the code)
    MaxEvents   \* bound on the progress lines of the run

ASSUME BufferAssumption == Buffer \in Nat \ {0}

ASSUME EventsAssumption == MaxEvents \in Nat

VARIABLES
    gpc,       \* where the run's goroutine has got to
    row,       \* the run's status in the store
    listed,    \* whether the run is in runner.active
    history,   \* activeRun.history
    subs,      \* activeRun.subs, by the watcher that owns the channel
    closed,    \* activeRun.closed
    canceled,  \* main's context has been, and with it every request's
    stopping,  \* Server.stopping has been closed
    chan,      \* what each watcher's channel buffers
    closes,    \* how often each watcher's channel has been closed
    hpc,       \* where each watcher's handler has got to
    seen,      \* the status its handler read first
    backlog,   \* what its handler still has to send of the backlog
    sent,      \* the progress events its client has been sent
    behind,    \* whether an event was dropped because its channel was full
    done,      \* the status in its done event
    told       \* why its handler sent the done event, or that it could not

runVars   == <<gpc, row, listed>>
watchVars == <<hpc, seen, backlog, sent, done, told>>
signalVars == <<canceled, stopping>>
streamVars == <<gpc, row, listed, history, subs, closed, canceled, stopping, chan, closes,
                hpc, seen, backlog, sent, behind, done, told>>

Terminal(st) == st \in {"succeeded", "failed", "canceled"}

RowStatuses == {"pending", "running", "succeeded", "failed", "canceled"}

StreamInit ==
    /\ gpc = "created"
    /\ row = "pending"
    /\ listed = FALSE
    /\ history = <<>>
    /\ subs = {}
    /\ closed = FALSE
    /\ canceled = FALSE
    /\ stopping = FALSE
    /\ chan = [w \in Watchers |-> <<>>]
    /\ closes = [w \in Watchers |-> 0]
    /\ hpc = [w \in Watchers |-> "idle"]
    /\ seen = [w \in Watchers |-> "none"]
    /\ backlog = [w \in Watchers |-> <<>>]
    /\ sent = [w \in Watchers |-> <<>>]
    /\ behind = [w \in Watchers |-> FALSE]
    /\ done = [w \in Watchers |-> "none"]
    /\ told = [w \in Watchers |-> "none"]

-----------------------------------------------------------------------------
(* activeRun.                                                              *)

\* A plausible bug: an event takes the number of the one before it.
AppendEventOffByOne(h) == Append(h, IF h = <<>> THEN 1 ELSE Len(h))

AppendEvent(h) == Append(h, Len(h) + 1)

Room(w) == Len(chan[w]) < Buffer

\* publish, under the lock: number the event, remember it, offer it to every
\* channel and drop it where the buffer is full.
Offer ==
    LET ev == AppendEvent(history)[Len(history) + 1] IN
    /\ ~closed
    /\ history' = AppendEvent(history)
    /\ chan' = [w \in Watchers |-> IF w \in subs /\ Room(w) THEN Append(chan[w], ev)
                                   ELSE chan[w]]
    /\ behind' = [w \in Watchers |-> behind[w] \/ (w \in subs /\ ~Room(w))]

\* The pipeline's own log lines, through Execute's Watch.
Publish ==
    /\ gpc = "running"
    /\ Len(history) < MaxEvents
    /\ Offer
    /\ UNCHANGED <<runVars, subs, closed, signalVars, closes, watchVars>>

\* A plausible bug: a subscriber gets what comes next and no backlog.
SubscribeLive(w) ==
    /\ hpc[w] = "found"
    /\ backlog' = backlog
    /\ subs' = IF closed THEN subs ELSE subs \union {w}
    /\ hpc' = [hpc EXCEPT ![w] = IF closed THEN "last" ELSE "replay"]
    /\ UNCHANGED <<runVars, history, closed, signalVars, chan, closes, seen, sent, behind,
                   done, told>>

\* The backlog and the registration come from under one lock.
Subscribe(w) ==
    /\ hpc[w] = "found"
    /\ backlog' = [backlog EXCEPT ![w] = history]
    /\ subs' = IF closed THEN subs ELSE subs \union {w}
    /\ hpc' = [hpc EXCEPT ![w] = IF closed THEN "last" ELSE "replay"]
    /\ UNCHANGED <<runVars, history, closed, signalVars, chan, closes, seen, sent, behind,
                   done, told>>

\* A plausible bug: the deferred unsubscribe closes without looking in the map.
LeaveUnchecked(w) ==
    /\ subs' = subs \ {w}
    /\ closes' = [closes EXCEPT ![w] = @ + 1]

\* The deferred unsubscribe: only a channel still in the map is closed.
Leave(w) ==
    /\ subs' = subs \ {w}
    /\ closes' = [closes EXCEPT ![w] = IF w \in subs THEN @ + 1 ELSE @]

\* A plausible bug: close marks the stream closed and leaves the channels open.
CloseMarked ==
    /\ gpc = "delisted"
    /\ gpc' = "closed"
    /\ closed' = TRUE
    /\ subs' = {}
    /\ UNCHANGED <<row, listed, history, signalVars, chan, closes, watchVars, behind>>

\* close: every channel still in the map is closed, and the map is dropped.
Close ==
    /\ gpc = "delisted"
    /\ gpc' = "closed"
    /\ closed' = TRUE
    /\ closes' = [w \in Watchers |-> IF w \in subs THEN closes[w] + 1 ELSE closes[w]]
    /\ subs' = {}
    /\ UNCHANGED <<row, listed, history, signalVars, chan, watchVars, behind>>

-----------------------------------------------------------------------------
(* The run.                                                                *)

Register ==
    /\ gpc = "created"
    /\ gpc' = "spawned"
    /\ listed' = TRUE
    /\ UNCHANGED <<row, history, subs, closed, signalVars, chan, closes, watchVars, behind>>

\* "starting the audit", before Execute is called.
Announce ==
    /\ gpc = "spawned"
    /\ gpc' = "announced"
    /\ Offer
    /\ UNCHANGED <<row, listed, subs, closed, signalVars, closes, watchVars>>

StartRun ==
    /\ gpc = "announced"
    /\ gpc' = "running"
    /\ row' = "running"
    /\ UNCHANGED <<listed, history, subs, closed, signalVars, chan, closes, watchVars, behind>>

\* A plausible bug: the stream is wound up before the outcome is stored.
RecordLate ==
    /\ gpc = "running"
    /\ gpc' = "recorded"
    /\ UNCHANGED <<row, listed, history, subs, closed, signalVars, chan, closes, watchVars,
                   behind>>

\* Execute returns with the outcome in the store.
Record ==
    /\ gpc = "running"
    /\ gpc' = "recorded"
    /\ row' \in {"succeeded", "failed", "canceled"}
    /\ UNCHANGED <<listed, history, subs, closed, signalVars, chan, closes, watchVars, behind>>

Deregister ==
    /\ gpc = "recorded"
    /\ gpc' = "delisted"
    /\ listed' = FALSE
    /\ UNCHANGED <<row, history, subs, closed, signalVars, chan, closes, watchVars, behind>>

\* The signal reaches two contexts, each by a goroutine of its own: main's, which every
\* request's descends from, and the one serve waits on before it calls Server.Close.
Cancel ==
    /\ ~canceled
    /\ canceled' = TRUE
    /\ UNCHANGED <<runVars, history, subs, closed, stopping, chan, closes, watchVars, behind>>

Stop ==
    /\ ~stopping
    /\ stopping' = TRUE
    /\ UNCHANGED <<runVars, history, subs, closed, canceled, chan, closes, watchVars, behind>>

-----------------------------------------------------------------------------
(* handleRunEvents.                                                        *)

ReadRun(w) ==
    /\ hpc[w] = "idle"
    /\ ~canceled
    /\ hpc' = [hpc EXCEPT ![w] = "read"]
    /\ seen' = [seen EXCEPT ![w] = row]
    /\ UNCHANGED <<runVars, history, subs, closed, signalVars, chan, closes, backlog, sent,
                   behind, done, told>>

\* The store is read with the request's context: once that is canceled there is an
\* error in the place of a stream.
Refuse(w) ==
    /\ hpc[w] = "idle"
    /\ canceled
    /\ hpc' = [hpc EXCEPT ![w] = "ended"]
    /\ UNCHANGED <<runVars, history, subs, closed, signalVars, chan, closes, seen, backlog,
                   sent, behind, done, told>>

Find(w) ==
    /\ hpc[w] = "read"
    /\ listed
    /\ hpc' = [hpc EXCEPT ![w] = "found"]
    /\ UNCHANGED <<runVars, history, subs, closed, signalVars, chan, closes, seen, backlog,
                   sent, behind, done, told>>

\* Not in the map: the row read at the start is reported as the outcome.
Absent(w) ==
    /\ hpc[w] = "read"
    /\ ~listed
    /\ hpc' = [hpc EXCEPT ![w] = "ended"]
    /\ done' = [done EXCEPT ![w] = seen[w]]
    /\ told' = [told EXCEPT ![w] = "absent"]
    /\ UNCHANGED <<runVars, history, subs, closed, signalVars, chan, closes, seen, backlog,
                   sent, behind>>

\* Backlog first.  "last" is the replay of a stream that has already closed.
Replay(w) ==
    /\ hpc[w] \in {"replay", "last"}
    /\ backlog[w] # <<>>
    /\ sent' = [sent EXCEPT ![w] = Append(@, Head(backlog[w]))]
    /\ backlog' = [backlog EXCEPT ![w] = Tail(@)]
    /\ UNCHANGED <<runVars, history, subs, closed, signalVars, chan, closes, hpc, seen, behind,
                   done, told>>

ReplayDone(w) ==
    /\ hpc[w] = "replay"
    /\ backlog[w] = <<>>
    /\ hpc' = [hpc EXCEPT ![w] = "stream"]
    /\ UNCHANGED <<runVars, history, subs, closed, signalVars, chan, closes, seen, backlog,
                   sent, behind, done, told>>

\* A receive from a channel takes what is buffered before it reports the close.
Receive(w) ==
    /\ hpc[w] = "stream"
    /\ chan[w] # <<>>
    /\ sent' = [sent EXCEPT ![w] = Append(@, Head(chan[w]))]
    /\ chan' = [chan EXCEPT ![w] = Tail(@)]
    /\ UNCHANGED <<runVars, history, subs, closed, signalVars, closes, hpc, seen, backlog,
                   behind, done, told>>

\* sendFinalStatus reads the row again, with the request's context, and the handler
\* returns: where the context is canceled there is a log line and no done event.
Finish(w, why) ==
    /\ hpc' = [hpc EXCEPT ![w] = "ended"]
    /\ done' = [done EXCEPT ![w] = IF canceled THEN @ ELSE row]
    /\ told' = [told EXCEPT ![w] = IF canceled THEN "untold" ELSE why]
    /\ UNCHANGED <<runVars, history, closed, signalVars, chan, seen, backlog, sent, behind>>

LastDone(w) ==
    /\ hpc[w] = "last"
    /\ backlog[w] = <<>>
    /\ Finish(w, "closed")
    /\ UNCHANGED <<subs, closes>>

StreamClosed(w) ==
    /\ hpc[w] = "stream"
    /\ chan[w] = <<>>
    /\ closes[w] > 0
    /\ Finish(w, "closed")
    /\ Leave(w)

ServerStopping(w) ==
    /\ hpc[w] = "stream"
    /\ stopping
    /\ Finish(w, "stopping")
    /\ Leave(w)

\* A send of the backlog fails.  The unsubscribe is deferred only after the backlog, so
\* a channel that is in the map stays there until the run's close.
ReplayFails(w) ==
    /\ hpc[w] \in {"replay", "last"}
    /\ backlog[w] # <<>>
    /\ hpc' = [hpc EXCEPT ![w] = "ended"]
    /\ UNCHANGED <<runVars, history, subs, closed, signalVars, chan, closes, seen, backlog,
                   sent, behind, done, told>>

\* The select finds the request's context done, or a send from the channel fails.
ClientGone(w) ==
    /\ hpc[w] = "stream"
    /\ hpc' = [hpc EXCEPT ![w] = "ended"]
    /\ Leave(w)
    /\ UNCHANGED <<runVars, history, closed, signalVars, chan, seen, backlog, sent, behind,
                   done, told>>

Handler(w) ==
    \/ Find(w) \/ Absent(w) \/ Subscribe(w) \/ Replay(w) \/ ReplayDone(w)
    \/ Receive(w) \/ LastDone(w) \/ StreamClosed(w) \/ ServerStopping(w)

Goroutine == Register \/ Announce \/ StartRun \/ Record \/ Deregister \/ Close

StreamNext ==
    \/ Goroutine \/ Publish \/ Cancel \/ Stop
    \/ \E w \in Watchers : ReadRun(w) \/ Refuse(w) \/ Handler(w)
    \/ \E w \in Watchers : ReplayFails(w) \/ ClientGone(w)

\* The run ends and handlers that can step do.  Nobody has to publish, watch,
\* leave or stop.
StreamFairness == WF_streamVars(Goroutine) /\ \A w \in Watchers : WF_streamVars(Handler(w))

StreamSpec == StreamInit /\ [][StreamNext]_streamVars

FairStream == StreamSpec /\ StreamFairness

-----------------------------------------------------------------------------
(* Properties.                                                             *)

TypeOK ==
    /\ gpc \in {"created", "spawned", "announced", "running", "recorded", "delisted", "closed"}
    /\ row \in RowStatuses
    /\ listed \in BOOLEAN /\ closed \in BOOLEAN /\ canceled \in BOOLEAN /\ stopping \in BOOLEAN
    /\ history \in Seq(Nat)
    /\ subs \subseteq Watchers
    /\ chan \in [Watchers -> Seq(Nat)]
    /\ \A w \in Watchers : Len(chan[w]) <= Buffer
    /\ closes \in [Watchers -> Nat]
    /\ hpc \in [Watchers -> {"idle", "read", "found", "replay", "last", "stream", "ended"}]
    /\ seen \in [Watchers -> RowStatuses \union {"none"}]
    /\ backlog \in [Watchers -> Seq(Nat)]
    /\ sent \in [Watchers -> Seq(Nat)]
    /\ behind \in [Watchers -> BOOLEAN]
    /\ done \in [Watchers -> RowStatuses \union {"none"}]
    /\ told \in [Watchers -> {"none", "absent", "closed", "stopping", "untold"}]

\* A channel is closed at most once and never sent on after it: either would
\* panic in the run's goroutine or the handler's and take the server with it.
\* close and unsubscribe race for the same channel.
ChannelsClosedOnce ==
    \A w \in Watchers : closes[w] <= (IF w \in subs THEN 0 ELSE 1)

\* A watcher never sees an event twice or out of order, however its backlog and
\* its channel overlap.
SentInOrder ==
    \A w \in Watchers : \A i, j \in 1..Len(sent[w]) : i < j => sent[w][i] < sent[w][j]

\* subscribe reads the backlog and registers under one lock, so that nothing
\* published in between is missed: a watcher that has not fallen behind by a
\* full buffer has been sent, or has waiting, everything published so far.
NothingMissedUnlessBehind ==
    \A w \in subs :
        ~behind[w] => sent[w] \o backlog[w] \o chan[w] = history

\* A stream that ends because the run's stream was closed ends with the run's
\* outcome: the row was recorded before the run left the map and the channel
\* was closed.  The one exception is a stream that ends after the signal has canceled
\* its request's context: its client is told nothing, whatever the row says.
StreamEndTellsOutcome ==
    \A w \in Watchers :
        /\ told[w] = "closed" => Terminal(done[w])
        /\ told[w] = "untold" => canceled

\* A handler that has subscribed does not wait forever: the run ends, the
\* channel is closed and the client is told, or the client leaves.
StreamsEnd == \A w \in Watchers : (hpc[w] = "stream") ~> (hpc[w] = "ended")
=============================================================================
