------------------------------ MODULE Telemetry ------------------------------
(***************************************************************************)
(* Security events on their way up: waf-edge records them in a bounded     *)
(* queue and ships them in batches (edge-plane/go/telemetry), the ingest   *)
(* endpoint of waf-config-distributor takes each batch into its own        *)
(* bounded queue, and a writer creates the records (control-plane/go/      *)
(* ingest).  Every process may be stopped or killed between any two steps, *)
(* a POST may be lost on its way there or back, and a request whose edge   *)
(* gave up goes on.                                                        *)
(***************************************************************************)
EXTENDS Naturals, Sequences, SequencesExt

CONSTANTS
    Edges,              \* the nodes
    Recorded,           \* [Edges -> how many events one records] (bound)
    WrongToken,         \* the nodes whose ingest token is not the configured one
    Capacity,           \* of an edge's queue
    MaxBatch,           \* of an edge's batch
    MaxRequestEvents,   \* of a batch the ingest accepts
    IngestCapacity,     \* of the ingest's queue
    IngestMaxBatch,     \* of the writer's batch
    MaxFaults, MaxStops \* bounds

\* Batches are not empty: MaxBatch is a constant, as are the queues' sizes.
ASSUME TelemetryAssumption ==
    /\ Recorded \in [Edges -> Nat]
    /\ MaxBatch \in Nat \ {0} /\ MaxRequestEvents \in Nat

VARIABLES
    count,          \* [Edges -> events recorded so far]
    edge,           \* [Edges -> "up", "stopping" or "down"]
    queue, pending, \* [Edges -> Telemetry.queue, RunShipper's pending]
    shipper,        \* [Edges -> where RunShipper is, and if this ship is its last]
    sent,           \* the events counted as sent
    ingest,         \* "up", "stopping" or "down"
    handlers,       \* requests the ingest is handling: a batch, what is left of it
    ingestQueue,    \* State.Queue
    writer, batch,  \* where RunWriter is, and its batch
    stored,         \* the records created, in order
    dropped,        \* the events that found a queue full
    faults, stops   \* so far (bounded)

edgeVars == <<count, edge, queue, pending, shipper, sent>>
ingestVars == <<ingest, handlers, ingestQueue, writer, batch, stored>>
vars == <<edgeVars, ingestVars, dropped, faults, stops>>

Events == UNION {{[edge |-> e, n |-> n] : n \in 1..Recorded[e]} : e \in Edges}

Selecting == [step |-> "select", last |-> FALSE]

TelemetryInit ==
    /\ count = [e \in Edges |-> 0] /\ edge = [e \in Edges |-> "up"]
    /\ queue = [e \in Edges |-> <<>>] /\ pending = [e \in Edges |-> <<>>]
    /\ shipper = [e \in Edges |-> Selecting] /\ sent = {}
    /\ ingest = "up" /\ handlers = {} /\ ingestQueue = <<>>
    /\ writer = "select" /\ batch = <<>> /\ stored = <<>>
    /\ dropped = {} /\ faults = 0 /\ stops = 0

Fault == faults < MaxFaults /\ faults' = faults + 1

----------------------------------------------------------------------------
(* The edge. *)

\* Record: a non-blocking send, from any request the node still handles.
Record(e) ==
    /\ edge[e] # "down" /\ count[e] < Recorded[e]
    /\ count' = [count EXCEPT ![e] = @ + 1]
    /\ LET event == [edge |-> e, n |-> count[e] + 1]
       IN IF Len(queue[e]) < Capacity
          THEN queue' = [queue EXCEPT ![e] = Append(@, event)] /\ UNCHANGED dropped
          ELSE dropped' = dropped \cup {event} /\ UNCHANGED queue
    /\ UNCHANGED <<edge, pending, shipper, sent, ingestVars, faults, stops>>

AtSelect(e) == edge[e] # "down" /\ shipper[e] = Selecting

\* RunShipper: an event; a full batch is shipped at once.
Take(e) ==
    /\ AtSelect(e) /\ queue[e] # <<>>
    /\ pending' = [pending EXCEPT ![e] = Append(@, Head(queue[e]))]
    /\ queue' = [queue EXCEPT ![e] = Tail(@)]
    /\ shipper' = [shipper EXCEPT ![e].step =
                      IF Len(pending[e]) + 1 >= MaxBatch THEN "send" ELSE "select"]
    /\ UNCHANGED <<count, edge, sent, ingestVars, dropped, faults, stops>>

\* The ticker: whatever is there is shipped.
Flush(e) ==
    /\ AtSelect(e) /\ pending[e] # <<>>
    /\ shipper' = [shipper EXCEPT ![e].step = "send"]
    /\ UNCHANGED <<count, edge, queue, pending, sent, ingestVars, dropped, faults, stops>>

\* Shutdown: one last ship of the batch, not of the queue.
LastFlush(e) ==
    /\ AtSelect(e) /\ edge[e] = "stopping"
    /\ shipper' = [shipper EXCEPT ![e] =
                      [step |-> IF pending[e] = <<>> THEN "gone" ELSE "send", last |-> TRUE]]
    /\ UNCHANGED <<count, edge, queue, pending, sent, ingestVars, dropped, faults, stops>>

KeepBatch(e) ==                                  \* mutant of EndShip
    /\ shipper' = [shipper EXCEPT ![e].step = IF shipper[e].last THEN "gone" ELSE "select"]
    /\ UNCHANGED pending

\* ship returned: the batch is let go, whatever became of it.
EndShip(e) ==
    /\ shipper' = [shipper EXCEPT ![e].step = IF shipper[e].last THEN "gone" ELSE "select"]
    /\ pending' = [pending EXCEPT ![e] = <<>>]

\* No connection: the ingest is down or going down, or the network fails.
Unreachable(e) ==
    /\ edge[e] # "down" /\ shipper[e].step = "send"
    /\ (ingest = "up" /\ Fault) \/ (ingest # "up" /\ UNCHANGED faults)
    /\ EndShip(e)
    /\ UNCHANGED <<count, edge, queue, sent, ingestVars, dropped, stops>>

Refused(e) == e \in WrongToken \/ Len(pending[e]) > MaxRequestEvents

\* ingestHandler: a wrong token (401) or too many events (413).
Reject(e) ==
    /\ edge[e] # "down" /\ shipper[e].step = "send" /\ ingest # "down" /\ Refused(e)
    /\ EndShip(e)
    /\ UNCHANGED <<count, edge, queue, sent, ingestVars, dropped, faults, stops>>

\* ingestHandler: the batch is read, and its events are queued one by one.
Accept(e) ==
    /\ edge[e] # "down" /\ shipper[e].step = "send" /\ ingest # "down" /\ ~ Refused(e)
    /\ shipper' = [shipper EXCEPT ![e].step = "wait"]
    /\ handlers' = handlers \cup {[batch |-> pending[e], left |-> pending[e]]}
    /\ UNCHANGED <<count, edge, queue, pending, sent, ingest, ingestQueue, writer, batch, stored,
                   dropped, faults, stops>>

\* The client's timeout (10 s), or the connection ends with the ingest.
GiveUp(e) ==
    /\ edge[e] # "down" /\ shipper[e].step = "wait"
    /\ IF \E h \in handlers : h.batch = pending[e] THEN Fault ELSE UNCHANGED faults
    /\ EndShip(e)
    /\ UNCHANGED <<count, edge, queue, sent, ingestVars, dropped, stops>>

IsAnswered(e, h) == edge[e] # "down" /\ shipper[e].step = "wait" /\ h.batch = pending[e]

----------------------------------------------------------------------------
(* The ingest. *)

\* One event of a request: queued, or dropped if there is no room.
Enqueue(h) ==
    /\ ingest # "down" /\ h.left # <<>>
    /\ handlers' = (handlers \ {h}) \cup {[batch |-> h.batch, left |-> Tail(h.left)]}
    /\ IF Len(ingestQueue) < IngestCapacity
       THEN ingestQueue' = Append(ingestQueue, Head(h.left)) /\ UNCHANGED dropped
       ELSE dropped' = dropped \cup {Head(h.left)} /\ UNCHANGED ingestQueue
    /\ UNCHANGED <<edgeVars, ingest, writer, batch, stored, faults, stops>>

\* 202, whatever was dropped: the edge, if it still waits, counts all as sent.
Answer(h) ==
    /\ ingest # "down" /\ h.left = <<>>
    /\ handlers' = handlers \ {h}
    /\ IF \E e \in Edges : IsAnswered(e, h)
       THEN LET e == CHOOSE x \in Edges : IsAnswered(x, h)
            IN EndShip(e) /\ sent' = sent \cup ToSet(h.batch)
       ELSE UNCHANGED <<shipper, pending, sent>>
    /\ UNCHANGED <<count, edge, queue, ingest, ingestQueue, writer, batch, stored,
                   dropped, faults, stops>>

\* RunWriter: waits for one event ...
WriterTake ==
    /\ ingest # "down" /\ writer = "select" /\ ingestQueue # <<>>
    /\ batch' = <<Head(ingestQueue)>> /\ ingestQueue' = Tail(ingestQueue)
    /\ writer' = "drain"
    /\ UNCHANGED <<edgeVars, ingest, handlers, stored, dropped, faults, stops>>

DrainNewestFirst ==                              \* mutant of Drain
    /\ ingest # "down" /\ writer = "drain"
    /\ IF Len(batch) < IngestMaxBatch /\ ingestQueue # <<>>
       THEN /\ batch' = <<Head(ingestQueue)>> \o batch /\ ingestQueue' = Tail(ingestQueue)
            /\ UNCHANGED writer
       ELSE writer' = "write" /\ UNCHANGED <<batch, ingestQueue>>
    /\ UNCHANGED <<edgeVars, ingest, handlers, stored, dropped, faults, stops>>

DrainAfresh ==                                   \* mutant of Drain
    /\ ingest # "down" /\ writer = "drain"
    /\ IF Len(batch) < IngestMaxBatch /\ ingestQueue # <<>>
       THEN /\ batch' = <<Head(ingestQueue)>> /\ ingestQueue' = Tail(ingestQueue)
            /\ UNCHANGED writer
       ELSE writer' = "write" /\ UNCHANGED <<batch, ingestQueue>>
    /\ UNCHANGED <<edgeVars, ingest, handlers, stored, dropped, faults, stops>>

\* ... takes what else is there, one by one up to the cap ...
Drain ==
    /\ ingest # "down" /\ writer = "drain"
    /\ IF Len(batch) < IngestMaxBatch /\ ingestQueue # <<>>
       THEN /\ batch' = Append(batch, Head(ingestQueue)) /\ ingestQueue' = Tail(ingestQueue)
            /\ UNCHANGED writer
       ELSE writer' = "write" /\ UNCHANGED <<batch, ingestQueue>>
    /\ UNCHANGED <<edgeVars, ingest, handlers, stored, dropped, faults, stops>>

\* ... and creates the records one by one.  A failed write is not repeated; one
\* that was applied although its answer got lost is a record all the same.
Write ==
    /\ ingest # "down" /\ writer = "write"
    /\ \/ stored' = Append(stored, Head(batch)) /\ UNCHANGED faults
       \/ Fault /\ UNCHANGED stored
    /\ batch' = Tail(batch)
    /\ writer' = IF Len(batch) = 1 THEN "select" ELSE "write"
    /\ UNCHANGED <<edgeVars, ingest, handlers, ingestQueue, dropped, stops>>

\* Shutdown, seen between two batches only.
WriterEnds ==
    /\ ingest = "stopping" /\ writer = "select"
    /\ writer' = "gone"
    /\ UNCHANGED <<edgeVars, ingest, handlers, ingestQueue, batch, stored, dropped, faults, stops>>

----------------------------------------------------------------------------
(* The processes. *)

StopEdge(e) ==
    /\ edge[e] = "up" /\ stops < MaxStops
    /\ edge' = [edge EXCEPT ![e] = "stopping"] /\ stops' = stops + 1
    /\ UNCHANGED <<count, queue, pending, shipper, sent, ingestVars, dropped, faults>>

\* main returns when its requests are done, or 10 s later; it waits for them and
\* not for the shipper.  Or the process is killed.
EdgeDown(e) ==
    /\ (edge[e] = "stopping" /\ UNCHANGED faults) \/ (edge[e] = "up" /\ Fault)
    /\ edge' = [edge EXCEPT ![e] = "down"]
    /\ queue' = [queue EXCEPT ![e] = <<>>] /\ pending' = [pending EXCEPT ![e] = <<>>]
    /\ shipper' = [shipper EXCEPT ![e] = Selecting]
    /\ UNCHANGED <<count, sent, ingestVars, dropped, stops>>

EdgeUp(e) ==
    /\ edge[e] = "down"
    /\ edge' = [edge EXCEPT ![e] = "up"]
    /\ UNCHANGED <<count, queue, pending, shipper, sent, ingestVars, dropped, faults, stops>>

StopIngest ==
    /\ ingest = "up" /\ stops < MaxStops
    /\ ingest' = "stopping" /\ stops' = stops + 1
    /\ UNCHANGED <<edgeVars, handlers, ingestQueue, writer, batch, stored, dropped, faults>>

\* main returns once the writer has; or the process is killed.
IngestDown ==
    /\ (ingest = "stopping" /\ writer = "gone" /\ UNCHANGED faults) \/ (ingest # "down" /\ Fault)
    /\ ingest' = "down"
    /\ handlers' = {} /\ ingestQueue' = <<>> /\ writer' = "select" /\ batch' = <<>>
    /\ UNCHANGED <<edgeVars, stored, dropped, stops>>

IngestUp ==
    /\ ingest = "down"
    /\ ingest' = "up"
    /\ UNCHANGED <<edgeVars, handlers, ingestQueue, writer, batch, stored, dropped, faults, stops>>

----------------------------------------------------------------------------
ShipperStep(e) ==
    Take(e) \/ Flush(e) \/ LastFlush(e) \/ Unreachable(e) \/ Reject(e) \/ Accept(e) \/ GiveUp(e)

HandlerStep == \E h \in handlers : Enqueue(h) \/ Answer(h)

WriterStep == WriterTake \/ Drain \/ Write \/ WriterEnds

TelemetryNext ==
    \/ \E e \in Edges : Record(e) \/ ShipperStep(e) \/ StopEdge(e) \/ EdgeDown(e) \/ EdgeUp(e)
    \/ HandlerStep \/ WriterStep
    \/ StopIngest \/ IngestDown \/ IngestUp

\* The loops go on, and a process that was told to stop does.
TelemetrySpec ==
    /\ TelemetryInit /\ [][TelemetryNext]_vars
    /\ \A e \in Edges : WF_vars(ShipperStep(e)) /\ WF_vars(edge[e] = "stopping" /\ EdgeDown(e))
    /\ WF_vars(HandlerStep) /\ WF_vars(WriterStep)
    /\ WF_vars(ingest = "stopping" /\ IngestDown)

----------------------------------------------------------------------------
(* Properties. *)

InHand ==
    ToSet(ingestQueue) \cup ToSet(batch) \cup (UNION {ToSet(h.left) : h \in handlers})
        \cup (UNION {ToSet(queue[e]) \cup ToSet(pending[e]) : e \in Edges})

\* An event is what the places it is in say of it.
Fate(v) == IF v.n > count[v.edge] THEN "new"
           ELSE IF v \in ToSet(stored) THEN "stored"
           ELSE IF v \in InHand THEN "underway" ELSE "lost"

Delivery == INSTANCE EventDelivery WITH fate <- [v \in Events |-> Fate(v)], log <- stored

\* Every event is delivered at most once and settles, whatever is lost, stopped
\* or killed on its way ("dropped rather than retried": ship, RunWriter).
ImplementsDelivery == Delivery!DeliverySpec

\* Of two events of a node that were both counted as sent, the earlier is the
\* earlier record, even across timeouts and restarts of the node.
AcknowledgedInOrder ==
    \A i, j \in DOMAIN stored :
        /\ {stored[i], stored[j]} \subseteq sent
        /\ stored[i].edge = stored[j].edge /\ stored[i].n < stored[j].n
        => i < j

\* "Dropping events under pressure is a deliberate trade": without a full queue,
\* a failure or a stop nothing is lost of a node that is let in.
LostOnlyUnderPressure ==
    \A v \in Events : Fate(v) = "lost" =>
        v \in dropped \/ faults + stops > 0 \/ v.edge \in WrongToken \/ MaxBatch > MaxRequestEvents

=============================================================================
