------------------------------ MODULE Alerting ------------------------------
(***************************************************************************)
(* alerting-service (data-plane/go/alertingservice): the endpoints that    *)
(* decide over a set of records, each a sequence of calls of the CRUD      *)
(* layer with nothing held between them:                                   *)
(*                                                                         *)
(*   correlate   correlateIncidents: recent events into incidents          *)
(*   evaluate    evaluateAlerts: recent events into notifications          *)
(*   test        testAlertPolicy: one notification on demand               *)
(*   cleanup     cleanupSecurityEvents: the retention sweep, on the        *)
(*               database itself                                           *)
(*                                                                         *)
(* A timer drives them, and an operator may start one beside it.           *)
(***************************************************************************)
EXTENDS Integers, Sequences, FiniteSets

CONSTANTS
    Sweeps,         \* the requests that may be in progress together
    Zones, Ips,     \* what an event names
    IsIn(_, _),     \* is one address, as text, a part of another?
    NoZone,         \* the zone of a test notification
    Policies,       \* [policy -> [threshold, window, channel]], the enabled ones
    Threshold,      \* defaultThreshold
    Window,         \* defaultWindowMinutes
    Retention,      \* DefaultSecurityEventRetentionDays
    EventScanLimit, \* events one sweep reads
    PolicyLimit,    \* enabled policies one evaluation reads (50)
    OpenLimit,      \* open incidents one check reads (50)
    BatchSize,      \* securityEventDeleteBatchSize
    MaxEvents, MaxDelay, MaxSweeps, MaxFaults, MaxClock   \* bounds

\* The limits are counts, and every text is a part of itself (strings.Contains).
ASSUME AlertingAssumption ==
    /\ OpenLimit \in Nat /\ BatchSize \in Nat
    /\ \A p \in DOMAIN Policies : Policies[p].threshold \in Int
    /\ \A i \in Ips : IsIn(i, i)

VARIABLES
    events,         \* every security event written so far
    deleted,        \* those the retention sweep has deleted
    incidents,      \* the incidents, oldest first; none is ever deleted
    notifications,  \* the alert notifications
    sweeps,         \* [Sweeps -> the local state of the request]
    now,            \* the clock (bounded by MaxClock)
    made, faults,   \* requests and failures so far (bounded)
    due,            \* rows that were due when a finished cleanup began (history)
    rolledBack      \* rows of the batches that failed (history)

vars == <<events, deleted, incidents, notifications, sweeps, now, made, faults, due, rolledBack>>

----------------------------------------------------------------------------
Idle == [step |-> "idle"]

Rows == events \ deleted

\* waf.security_events, newest first (ties in any order), at most one page of it.
RecentEvents(zones) ==
    LET rows == {e \in Rows : e.zone \in zones}
    IN {page \in SUBSET rows :
            /\ page = rows \/ Cardinality(page) = EventScanLimit
            /\ Cardinality(page) <= EventScanLimit
            /\ \A e \in page, f \in rows \ page : e.at >= f.at}

Since(page, cutoff) == {e \in page : e.at >= cutoff}

\* correlateIncidents: the groups that reach the threshold.
Groups(page, cutoff) ==
    LET count(z, i) == Cardinality({e \in Since(page, cutoff) : e.zone = z /\ e.ip = i})
    IN {g \in [zone : Zones, ip : Ips] : count(g.zone, g.ip) >= Threshold}

\* The newest open incidents of a zone, by their place in the sequence.
OpenIncidents(zone) ==
    LET open == {j \in DOMAIN incidents :
                    incidents[j].zone = zone /\ incidents[j].status = "open"}
    IN {j \in open : Cardinality({k \in open : k > j}) < OpenLimit}

Goto(s, state) == sweeps' = [sweeps EXCEPT ![s] = state]

Begin(s, state) ==
    /\ sweeps[s] = Idle /\ made < MaxSweeps
    /\ made' = made + 1
    /\ Goto(s, state)
    /\ UNCHANGED <<now, faults, rolledBack>>

\* Only a bounded counter's own actions move it.
SameBounds == UNCHANGED <<now, made, faults, rolledBack>>

----------------------------------------------------------------------------
(* correlateIncidents *)

\* One page of events is read, of every zone or of the one asked for.
\* (History: "open" and "last", the incidents there at that time.)
StartCorrelate(s, zones) ==
    /\ \E page \in RecentEvents(zones) :
        LET groups == Groups(page, now - Window)
        IN Begin(s, [step |-> "groups", todo |-> groups, found |-> groups,
                     last |-> Len(incidents),
                     open |-> {j \in DOMAIN incidents : incidents[j].status = "open"}])
    /\ UNCHANGED <<events, deleted, incidents, notifications, due>>

AnyIncident(s, g) ==                             \* mutant of CheckOpen
    /\ sweeps[s].step = "groups" /\ g \in sweeps[s].todo
    /\ IF \E j \in DOMAIN incidents : incidents[j].zone = g.zone /\ IsIn(g.ip, incidents[j].ip)
       THEN Goto(s, [sweeps[s] EXCEPT !.todo = @ \ {g}])
       ELSE Goto(s, [step |-> "open", todo |-> sweeps[s].todo \ {g}, found |-> sweeps[s].found,
                     last |-> sweeps[s].last, open |-> sweeps[s].open, group |-> g])
    /\ UNCHANGED <<events, deleted, incidents, notifications, due>> /\ SameBounds

UncheckedGroup(s, g) ==                          \* mutant of CheckOpen
    /\ sweeps[s].step = "groups" /\ g \in sweeps[s].todo
    /\ Goto(s, [step |-> "open", todo |-> sweeps[s].todo \ {g}, found |-> sweeps[s].found,
                last |-> sweeps[s].last, open |-> sweeps[s].open, group |-> g])
    /\ UNCHANGED <<events, deleted, incidents, notifications, due>> /\ SameBounds

\* A group, in no particular order: is there an open incident of its zone with
\* its address in the title?
CheckOpen(s, g) ==
    /\ sweeps[s].step = "groups" /\ g \in sweeps[s].todo
    /\ IF \E j \in OpenIncidents(g.zone) : IsIn(g.ip, incidents[j].ip)
       THEN Goto(s, [sweeps[s] EXCEPT !.todo = @ \ {g}])
       ELSE Goto(s, [step |-> "open", todo |-> sweeps[s].todo \ {g}, found |-> sweeps[s].found,
                     last |-> sweeps[s].last, open |-> sweeps[s].open, group |-> g])
    /\ UNCHANGED <<events, deleted, incidents, notifications, due>> /\ SameBounds

\* There was none: one is opened, its title naming the address.
OpenIncident(s) ==
    /\ sweeps[s].step = "open"
    /\ incidents' = Append(incidents, [zone |-> sweeps[s].group.zone, ip |-> sweeps[s].group.ip,
                                       status |-> "open", last |-> sweeps[s].last])
    /\ Goto(s, [step |-> "groups", todo |-> sweeps[s].todo, found |-> sweeps[s].found,
                last |-> sweeps[s].last, open |-> sweeps[s].open])
    /\ UNCHANGED <<events, deleted, notifications, due>> /\ SameBounds

EndCorrelate(s) ==
    /\ sweeps[s].step = "groups" /\ sweeps[s].todo = {}
    /\ Goto(s, Idle)
    /\ UNCHANGED <<events, deleted, incidents, notifications, due>> /\ SameBounds

----------------------------------------------------------------------------
(* evaluateAlerts and testAlertPolicy *)

\* One page of the enabled policies is read ...
StartEvaluate(s) ==
    /\ \E listed \in SUBSET DOMAIN Policies :
        /\ listed = DOMAIN Policies \/ Cardinality(listed) = PolicyLimit
        /\ Cardinality(listed) <= PolicyLimit
        /\ Begin(s, [step |-> "events", todo |-> listed])
    /\ UNCHANGED <<events, deleted, incidents, notifications, due>>

\* ... and then one page of events, of all zones, for all of them.
ReadEvents(s) ==
    /\ sweeps[s].step = "events"
    /\ \E page \in RecentEvents(Zones) :
        Goto(s, [step |-> "policies", todo |-> sweeps[s].todo, page |-> page])
    /\ UNCHANGED <<events, deleted, incidents, notifications, due>> /\ SameBounds

CountAllZones(policy, page) ==                   \* mutant of Firing
    {z \in Zones : /\ Policies[policy].threshold # 0
                   /\ Cardinality(Since(page, now - Policies[policy].window))
                         >= Policies[policy].threshold}

\* The zones with enough events in the policy's own window, counted per zone.
Firing(policy, page) ==
    {z \in Zones :
        /\ Policies[policy].threshold # 0
        /\ Cardinality({e \in Since(page, now - Policies[policy].window) : e.zone = z})
              >= Policies[policy].threshold}

StartPolicy(s, p) ==
    /\ sweeps[s].step = "policies" /\ p \in sweeps[s].todo
    /\ Goto(s, [step |-> "fire", todo |-> sweeps[s].todo \ {p}, page |-> sweeps[s].page,
                policy |-> p, zones |-> Firing(p, sweeps[s].page), at |-> now])
    /\ UNCHANGED <<events, deleted, incidents, notifications, due>> /\ SameBounds

\* testAlertPolicy: the same path, for a policy and no zone.
StartTest(s, p) ==
    /\ Begin(s, [step |-> "fire", todo |-> {}, page |-> {}, policy |-> p,
                 zones |-> {NoZone}, at |-> now])
    /\ UNCHANGED <<events, deleted, incidents, notifications, due>>

\* deliver: a webhook may fail, an e-mail is only logged, and a policy with
\* neither has nothing to deliver to.
Deliver(s, z, delivered) ==
    /\ sweeps[s].step = "fire" /\ z \in sweeps[s].zones
    /\ CASE Policies[sweeps[s].policy].channel = "webhook" -> TRUE
         [] Policies[sweeps[s].policy].channel = "email" -> delivered
         [] OTHER -> ~ delivered
    /\ Goto(s, [step |-> "record", todo |-> sweeps[s].todo, page |-> sweeps[s].page,
                policy |-> sweeps[s].policy, zones |-> sweeps[s].zones \ {z},
                at |-> sweeps[s].at, zone |-> z, delivered |-> delivered])
    /\ UNCHANGED <<events, deleted, incidents, notifications, due>> /\ SameBounds

\* recordNotification: the delivery-log row, sent or failed (here with the time its
\* policy was evaluated at, which triggeredAt follows within the request).  Its channel is one
\* of AlertNotificationEntity's, which has no "none": the row is refused then,
\* and the whole request ends with it.
RecordNotification(s) ==
    /\ sweeps[s].step = "record"
    /\ IF Policies[sweeps[s].policy].channel \in {"email", "webhook"}
       THEN /\ notifications' = notifications \cup
                  {[policy |-> sweeps[s].policy, zone |-> sweeps[s].zone, at |-> sweeps[s].at,
                    status |-> IF sweeps[s].delivered THEN "sent" ELSE "failed"]}
            /\ Goto(s, [step |-> "fire", todo |-> sweeps[s].todo, page |-> sweeps[s].page,
                        policy |-> sweeps[s].policy, zones |-> sweeps[s].zones,
                        at |-> sweeps[s].at])
       ELSE Goto(s, Idle) /\ UNCHANGED notifications
    /\ UNCHANGED <<events, deleted, incidents, due>> /\ SameBounds

\* Every zone of the policy had its turn: the next policy, or the answer.
EndPolicy(s) ==
    /\ sweeps[s].step = "fire" /\ sweeps[s].zones = {}
    /\ Goto(s, [step |-> "policies", todo |-> sweeps[s].todo, page |-> sweeps[s].page])
    /\ UNCHANGED <<events, deleted, incidents, notifications, due>> /\ SameBounds

EndEvaluate(s) ==
    /\ sweeps[s].step = "policies" /\ sweeps[s].todo = {}
    /\ Goto(s, Idle)
    /\ UNCHANGED <<events, deleted, incidents, notifications, due>> /\ SameBounds

----------------------------------------------------------------------------
(* cleanupSecurityEvents *)

Expired(cutoff) == {e \in Rows : e.at < cutoff}

\* The cutoff is taken once.  (History: the rows that are due by then.)
StartCleanup(s) ==
    /\ LET cutoff == now - Retention
       IN Begin(s, [step |-> "select", cutoff |-> cutoff, due |-> Expired(cutoff)])
    /\ UNCHANGED <<events, deleted, incidents, notifications, due>>

Locked == UNION {IF sweeps[s].step = "delete" THEN sweeps[s].batch ELSE {} : s \in Sweeps}

\* SELECT ... LIMIT ... FOR UPDATE SKIP LOCKED.
SelectBatch(s) ==
    /\ sweeps[s].step = "select"
    /\ LET rows == Expired(sweeps[s].cutoff) \ Locked
       IN \E batch \in SUBSET rows :
            /\ batch = rows \/ Cardinality(batch) = BatchSize
            /\ Cardinality(batch) <= BatchSize
            /\ Goto(s, [step |-> "delete", cutoff |-> sweeps[s].cutoff, due |-> sweeps[s].due,
                        batch |-> batch])
    /\ UNCHANGED <<events, deleted, incidents, notifications, due>> /\ SameBounds

StopAfterFull(s) ==                              \* mutant of DeleteBatch
    /\ sweeps[s].step = "delete"
    /\ deleted' = deleted \cup sweeps[s].batch
    /\ Goto(s, Idle)
    /\ due' = due \cup sweeps[s].due
    /\ UNCHANGED <<events, incidents, notifications>> /\ SameBounds

\* The batch is deleted; one that was not full was the last.
DeleteBatch(s) ==
    /\ sweeps[s].step = "delete"
    /\ deleted' = deleted \cup sweeps[s].batch
    /\ IF Cardinality(sweeps[s].batch) < BatchSize
       THEN Goto(s, Idle) /\ due' = due \cup sweeps[s].due
       ELSE /\ Goto(s, [step |-> "select", cutoff |-> sweeps[s].cutoff, due |-> sweeps[s].due])
            /\ UNCHANGED due
    /\ UNCHANGED <<events, incidents, notifications>> /\ SameBounds

----------------------------------------------------------------------------
\* A call of the database fails, or the client goes away: the request ends, and
\* a batch that was locked is rolled back.
Break(s) ==
    /\ sweeps[s] # Idle /\ faults < MaxFaults
    /\ faults' = faults + 1
    /\ rolledBack' = rolledBack \cup (IF sweeps[s].step = "delete" THEN sweeps[s].batch ELSE {})
    /\ Goto(s, Idle)
    /\ UNCHANGED <<events, deleted, incidents, notifications, due, now, made>>

\* control-plane writes an event, at once or late.
WriteEvent(z, i, at) ==
    /\ Cardinality(events) < MaxEvents /\ at <= now /\ now - at <= MaxDelay
    /\ LET same == {e \in events : e.zone = z /\ e.ip = i /\ e.at = at}
       IN events' = events \cup {[zone |-> z, ip |-> i, at |-> at, copy |-> Cardinality(same)]}
    /\ UNCHANGED <<deleted, incidents, notifications, sweeps, due>> /\ SameBounds

\* The portal takes an incident on.
Acknowledge(j) ==
    /\ incidents[j].status = "open"
    /\ incidents' = [incidents EXCEPT ![j].status = "acknowledged"]
    /\ UNCHANGED <<events, deleted, notifications, sweeps, due>> /\ SameBounds

Tick ==
    /\ now < MaxClock
    /\ now' = now + 1
    /\ UNCHANGED <<events, deleted, incidents, notifications, sweeps, due, made, faults, rolledBack>>

AlertingInit ==
    /\ events = {} /\ deleted = {} /\ incidents = <<>> /\ notifications = {}
    /\ sweeps = [s \in Sweeps |-> Idle]
    /\ now = 0 /\ made = 0 /\ faults = 0
    /\ due = {} /\ rolledBack = {}

AlertingNext ==
    \/ \E s \in Sweeps :
        \/ \E zones \in {Zones} \cup {{z} : z \in Zones} : StartCorrelate(s, zones)
        \/ sweeps[s].step = "groups" /\ \E g \in sweeps[s].todo : CheckOpen(s, g)
        \/ OpenIncident(s) \/ EndCorrelate(s)
        \/ StartEvaluate(s) \/ ReadEvents(s) \/ EndPolicy(s) \/ EndEvaluate(s) \/ RecordNotification(s)
        \/ \E p \in DOMAIN Policies : StartPolicy(s, p) \/ StartTest(s, p)
        \/ \E z \in Zones \cup {NoZone}, delivered \in BOOLEAN : Deliver(s, z, delivered)
        \/ StartCleanup(s) \/ SelectBatch(s) \/ DeleteBatch(s)
        \/ Break(s)
    \/ \E z \in Zones, i \in Ips, at \in 0..MaxClock : WriteEvent(z, i, at)
    \/ \E j \in DOMAIN incidents : Acknowledge(j)
    \/ Tick

AlertingSpec == AlertingInit /\ [][AlertingNext]_vars

----------------------------------------------------------------------------
(* Properties. *)

\* There is an incident of the zone and the address that was open when the sweep
\* read the events, or one that was opened since.
Raised(s, zone, ip) ==
    \E j \in DOMAIN incidents :
        /\ incidents[j].zone = zone /\ incidents[j].ip = ip
        /\ j \in sweeps[s].open \/ j > sweeps[s].last

\* "opens one Incident per group above the threshold" (correlateIncidents): every
\* group that a sweep is done with has an incident of its own.
OneIncidentPerGroup ==
    \A s \in Sweeps : sweeps[s].step = "groups" =>
        \A g \in sweeps[s].found \ sweeps[s].todo : Raised(s, g.zone, g.ip)

\* The check compares text, so that is not so of every group; but only an incident
\* of another address that the group's own is a part of, raised in the same zone,
\* keeps a group from having one.
GroupsAreRaised ==
    \A s \in Sweeps : sweeps[s].step = "groups" =>
        \A g \in sweeps[s].found \ sweeps[s].todo :
            \/ Raised(s, g.zone, g.ip)
            \/ \E i \in Ips \ {g.ip} : IsIn(g.ip, i) /\ Raised(s, g.zone, i)

\* "it keeps a re-run idempotent" (correlateIncidents): two open incidents of
\* one zone and address come only of two sweeps that overlapped, or of a zone
\* with more open incidents than one check reads.
DuplicatesOnlyByOverlap ==
    \A j, k \in DOMAIN incidents :
        /\ j < k /\ incidents[j].status = "open" /\ incidents[k].status = "open"
        /\ incidents[j].zone = incidents[k].zone /\ incidents[j].ip = incidents[k].ip
        => \/ j > incidents[k].last
           \/ Cardinality({i \in DOMAIN incidents : incidents[i].zone = incidents[j].zone})
                 > OpenLimit

\* A policy notifies of a zone only if that zone alone had enough events within
\* the policy's window, whatever other zones, policies and sweeps did.
AlertsCountPerZone ==
    \A n \in notifications : n.zone # NoZone =>
        Cardinality({e \in events : e.zone = n.zone /\ e.at >= n.at - Policies[n.policy].window})
            >= Policies[n.policy].threshold

\* Cleanups that overlap split the rows and leave none: a row that was due when
\* a finished one began is deleted, in the hands of another, or of a batch that
\* failed.
CleanupsLeaveNothingDue == due \subseteq deleted \cup Locked \cup rolledBack

=============================================================================
