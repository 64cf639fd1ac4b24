----------------------------- MODULE Distributor -----------------------------
(***************************************************************************)
(* waf-config-distributor (control-plane/go): replicas that compile zones  *)
(* and publish them to Redis.  Each replica runs two concurrent loops:     *)
(*                                                                         *)
(*   sub    the RabbitMQ consumer: one message at a time, re-read the zone *)
(*          it names, recompile and republish it (subscribe, sync.Zone);   *)
(*   sweep  the periodic full resync: read every zone, republish it, then  *)
(*          remove every indexed hostname the sweep did not publish        *)
(*          (resync.RunOnce); the first sweep ends before the consumer     *)
(*          starts.                                                        *)
(*                                                                         *)
(* Every query of the data plane and every Redis transaction is a step, so *)
(* the loops of all replicas and the clients interleave between them.      *)
(***************************************************************************)
EXTENDS DataPlane, Sequences

CONSTANTS
    Workers,      \* the replicas of the process
    Schema,       \* [Workers -> Schemas], the contract version a build writes
    ReadOrder,    \* the entities listed for one zone, in order
    TenantOrder,  \* the entities listed once per sweep for the whole tenant
    Rank,         \* [Zones -> Nat], the sort key of the zone list
    PageLimit,    \* zones returned by one list query (AllZones reads one page)
    MaxFaults     \* bound on the number of failures

ASSUME DistributorAssumption ==
    /\ Schema \in [Workers -> Schemas]
    /\ ReadOrder \in Seq({"ddos", "rule", "list"}) \ {<<>>}
    /\ TenantOrder \in Seq({"rule", "list"}) \ {<<>>}
    /\ Rank \in [Zones -> Nat]
    /\ PageLimit \in Nat
    /\ MaxFaults \in Nat

VARIABLES
    sub,          \* [Workers -> the consumer loop's local state]
    sweep,        \* [Workers -> the resync loop's local state]
    up,           \* replicas whose boot sweep is over
    faults        \* number of failures so far (bounded by MaxFaults)

workerVars == <<sub, sweep, up, faults>>

SubIdle ==
    [pc |-> "idle", msg |-> Nil, rec |-> Nil, k |-> 1, rules |-> {}, host |-> Nil]

SweepIdle ==
    [pc |-> "idle", seen |-> [z \in Zones |-> Nil], cur |-> Nil, k |-> 1, tenant |-> {},
     rules |-> {}, expected |-> {}, orphans |-> {}]

SubState ==
    [pc: {"idle", "zone", "records", "rename", "publish", "unpublish"},
     msg: Message \cup {Nil}, rec: ZoneRecord \cup {Nil}, k: Nat,
     rules: SUBSET Records, host: Hostnames \cup {Nil}]

SweepState ==
    [pc: {"idle", "tenant", "zones", "publish", "orphans"},
     seen: [Zones -> ZoneRecord \cup {Nil}], cur: Zones \cup {Nil}, k: Nat,
     tenant: SUBSET Records, rules: SUBSET Records,
     expected: SUBSET Hostnames, orphans: SUBSET Hostnames]

WorkerTypeOK ==
    /\ sub \in [Workers -> SubState]
    /\ sweep \in [Workers -> SweepState]
    /\ up \subseteq Workers
    /\ faults \in 0..MaxFaults

WorkerInit ==
    /\ sub = [w \in Workers |-> SubIdle]
    /\ sweep = [w \in Workers |-> SweepIdle]
    /\ up = {}
    /\ faults = 0

\* compile.CompileZone: one rule-set from a zone record and the records read.
Compile(w, z, rec, rules) ==
    [zone |-> z, hostname |-> rec.hostname, status |-> rec.status,
     version |-> rec.version, rules |-> rules, schema |-> Schema[w]]

(***************************************************************************)
(* The consumer: subscribe.handle and sync.Zone.                           *)
(***************************************************************************)

\* No zone to resolve: acknowledged, left to the next sweep.
AckUnresolvable(w) ==
    /\ w \in up
    /\ sub[w].pc = "idle"
    /\ \E m \in queue : m.zone = Nil /\ queue' = queue \ {m}
    /\ UNCHANGED <<storeVars, zone, stored, writes, owed, touched, workerVars>>

SubBecomes(w, s) == sub' = [sub EXCEPT ![w] = s]

SubDone(w) == SubBecomes(w, SubIdle)

Deliver(w) ==
    /\ w \in up
    /\ sub[w].pc = "idle"
    /\ \E m \in queue :
           /\ m.zone # Nil
           /\ queue' = queue \ {m}
           /\ SubBecomes(w, [sub[w] EXCEPT !.pc = "zone", !.msg = m])
    /\ UNCHANGED <<storeVars, zone, stored, writes, owed, touched, sweep, up, faults>>

\* Nack with requeue.
Requeue(w) == SubDone(w) /\ queue' = queue \cup {sub[w].msg}

\* A JSON null zoneId unmarshals to "" and resolves; asking for the zone with
\* that id is an error, whatever the state of the system.
RequeueTenantWide(w) ==
    /\ sub[w].pc = "zone"
    /\ sub[w].msg.zone = Global
    /\ Requeue(w)
    /\ UNCHANGED <<storeVars, zone, stored, writes, owed, touched, sweep, up, faults>>

SubReadZone(w) ==
    LET m == sub[w].msg
        z == m.zone
    IN  /\ sub[w].pc = "zone"
        /\ z # Global
        /\ \/ /\ zone[z] = Nil
              /\ m.hostname = Nil
              /\ SubDone(w)
           \/ /\ zone[z] = Nil
              /\ m.hostname # Nil
              /\ SubBecomes(w, [sub[w] EXCEPT !.pc = "unpublish", !.host = m.hostname])
           \/ /\ zone[z] # Nil
              /\ zone[z].status \notin Servable
              /\ SubBecomes(w, [sub[w] EXCEPT !.pc = "unpublish",
                                                      !.host = zone[z].hostname])
           \/ /\ IsServable(z)
              /\ SubBecomes(w, [sub[w] EXCEPT !.pc = "records", !.rec = zone[z]])
        /\ UNCHANGED <<storeVars, dataVars, sweep, up, faults>>

\* Zone-scoped lists only; the last one decides what is written first.
SubReadRecords(w) ==
    LET s == sub[w]
        last == s.k = Len(ReadOrder)
    IN  /\ s.pc = "records"
        /\ SubBecomes(w, [s EXCEPT
               !.rules = @ \cup RecordsOf(s.msg.zone, ReadOrder[s.k]),
               !.k = @ + 1,
               !.pc = IF ~last THEN "records"
                      ELSE IF s.msg.hostname \in {Nil, s.rec.hostname} THEN "publish"
                      ELSE "rename"])
        /\ UNCHANGED <<storeVars, dataVars, sweep, up, faults>>

SubUnpublishOld(w) ==
    /\ sub[w].pc = "rename"
    /\ Unpublish(sub[w].msg.hostname)
    /\ SubBecomes(w, [sub[w] EXCEPT !.pc = "publish"])
    /\ UNCHANGED <<dataVars, sweep, up, faults>>

\* Mutant: the version announced is read again when publishing.
SubCompiledVersionReread(w) ==
    LET z == sub[w].msg.zone
        v == IF zone[z] = Nil THEN sub[w].rec.version ELSE zone[z].version
    IN  Compile(w, z, [sub[w].rec EXCEPT !.version = v], sub[w].rules)

SubCompiled(w) == Compile(w, sub[w].msg.zone, sub[w].rec, sub[w].rules)

\* Mutant: not one transaction, and the version key comes later.
SubPublishTwoKeys(w) ==
    LET p == SubCompiled(w)
    IN  /\ sub[w].pc = "publish"
        /\ ruleset' = [ruleset EXCEPT ![p.hostname] = p]
        /\ index' = index \cup {p.hostname}
        /\ SubDone(w)
        /\ UNCHANGED <<version, epoch, dataVars, sweep, up, faults>>

SubPublish(w) ==
    /\ sub[w].pc = "publish"
    /\ Publish(SubCompiled(w))
    /\ SubDone(w)
    /\ UNCHANGED <<dataVars, sweep, up, faults>>

SubUnpublish(w) ==
    /\ sub[w].pc = "unpublish"
    /\ Unpublish(sub[w].host)
    /\ SubDone(w)
    /\ UNCHANGED <<dataVars, sweep, up, faults>>

Fault == faults < MaxFaults /\ faults' = faults + 1

\* A query or a Redis write fails: the message is requeued.  A failed write
\* may have been applied before its answer was lost.
SubFails(w) ==
    /\ sub[w].pc # "idle"
    /\ Fault
    /\ \/ UNCHANGED storeVars
       \/ sub[w].pc = "rename" /\ Unpublish(sub[w].msg.hostname)
       \/ sub[w].pc = "publish" /\ Publish(SubCompiled(w))
       \/ sub[w].pc = "unpublish" /\ Unpublish(sub[w].host)
    /\ Requeue(w)
    /\ UNCHANGED <<zone, stored, writes, owed, touched, sweep, up>>

SubStep(w) ==
    \/ AckUnresolvable(w) \/ Deliver(w) \/ RequeueTenantWide(w)
    \/ SubReadZone(w) \/ SubReadRecords(w)
    \/ SubUnpublishOld(w) \/ SubPublish(w) \/ SubUnpublish(w)

(***************************************************************************)
(* The sweep: resync.RunOnce, at boot and then at every tick.              *)
(***************************************************************************)

\* AllZones: the first page of the sorted list (equal keys in any order).
IsFirstPage(page) ==
    LET all == {z \in Zones : zone[z] # Nil}
    IN  /\ page \subseteq all
        /\ Cardinality(page) = PageLimit \/ (Cardinality(page) < PageLimit /\ page = all)
        /\ \A z \in page, y \in all \ page : Rank[z] <= Rank[y]

SweepBecomes(w, s) == sweep' = [sweep EXCEPT ![w] = s]

\* Zones of the page without a servable status are skipped.
SweepStart(w) ==
    /\ sweep[w].pc = "idle"
    /\ \E page \in SUBSET Zones :
           /\ IsFirstPage(page)
           /\ SweepBecomes(w, [sweep[w] EXCEPT
                  !.pc = "tenant",
                  !.seen = [z \in Zones |-> IF z \in page /\ IsServable(z)
                                            THEN zone[z] ELSE Nil]])
    /\ UNCHANGED <<storeVars, dataVars, sub, up, faults>>

SweepReadTenant(w) ==
    LET k == sweep[w].k
        last == k = Len(TenantOrder)
    IN  /\ sweep[w].pc = "tenant"
        /\ SweepBecomes(w, [sweep[w] EXCEPT
               !.tenant = @ \cup RecordsOf(Global, TenantOrder[k]),
               !.k = IF last THEN 1 ELSE k + 1,
               !.pc = IF last THEN "zones" ELSE "tenant"])
        /\ UNCHANGED <<storeVars, dataVars, sub, up, faults>>

\* The next list of the zone being compiled, or the first of the next zone.
SweepReadRecords(w) ==
    LET s == sweep[w]
    IN  /\ s.pc = "zones"
        /\ \E z \in IF s.cur = Nil THEN {y \in Zones : s.seen[y] # Nil} ELSE {s.cur} :
               SweepBecomes(w, [s EXCEPT
                   !.cur = z,
                   !.rules = @ \cup RecordsOf(z, ReadOrder[s.k]),
                   !.k = s.k + 1,
                   !.pc = IF s.k = Len(ReadOrder) THEN "publish" ELSE "zones"])
        /\ UNCHANGED <<storeVars, dataVars, sub, up, faults>>

\* Mutant: the tenant-wide records are not merged.
SweepCompiledZoneOnly(w) ==
    LET s == sweep[w] IN Compile(w, s.cur, s.seen[s.cur], s.rules)

SweepCompiled(w) ==
    LET s == sweep[w] IN Compile(w, s.cur, s.seen[s.cur], s.rules \cup s.tenant)

\* Mutant: what is published is not counted as expected.
SweepPublishUncounted(w) ==
    LET s == sweep[w]
    IN  /\ s.pc = "publish"
        /\ Publish(SweepCompiled(w))
        /\ SweepBecomes(w, [s EXCEPT
               !.pc = "zones", !.cur = Nil, !.k = 1, !.rules = {},
               !.seen = [@ EXCEPT ![s.cur] = Nil]])
        /\ UNCHANGED <<dataVars, sub, up, faults>>

SweepPublish(w) ==
    LET s == sweep[w]
    IN  /\ s.pc = "publish"
        /\ Publish(SweepCompiled(w))
        /\ SweepBecomes(w, [s EXCEPT
               !.pc = "zones", !.cur = Nil, !.k = 1, !.rules = {},
               !.seen = [@ EXCEPT ![s.cur] = Nil],
               !.expected = @ \cup {s.seen[s.cur].hostname}])
        /\ UNCHANGED <<dataVars, sub, up, faults>>

SweepReadIndex(w) ==
    /\ sweep[w].pc = "zones"
    /\ sweep[w].seen = [z \in Zones |-> Nil]
    /\ SweepBecomes(w, [sweep[w] EXCEPT !.pc = "orphans",
                                        !.orphans = index \ sweep[w].expected])
    /\ UNCHANGED <<storeVars, dataVars, sub, up, faults>>

SweepUnpublish(w) ==
    /\ sweep[w].pc = "orphans"
    /\ \E h \in sweep[w].orphans :
           /\ Unpublish(h)
           /\ SweepBecomes(w, [sweep[w] EXCEPT !.orphans = @ \ {h}])
    /\ UNCHANGED <<dataVars, sub, up, faults>>

SweepDone(w) ==
    /\ SweepBecomes(w, SweepIdle)
    /\ up' = up \cup {w}

SweepEnd(w) ==
    /\ sweep[w].pc = "orphans"
    /\ sweep[w].orphans = {}
    /\ BumpEpoch
    /\ SweepDone(w)
    /\ UNCHANGED <<dataVars, sub, faults>>

\* Mutant: an error while reading the zones is skipped over, and what was not
\* read is taken for orphaned.
SweepFailsForward(w) ==
    /\ sweep[w].pc = "zones"
    /\ Fault
    /\ SweepBecomes(w, [sweep[w] EXCEPT !.pc = "orphans",
                                        !.orphans = index \ sweep[w].expected])
    /\ UNCHANGED <<storeVars, dataVars, sub, up>>

\* Any error ends the sweep where it stands: no orphan removal, no epoch.
SweepFails(w) ==
    /\ sweep[w].pc # "idle"
    /\ Fault
    /\ \/ UNCHANGED storeVars
       \/ sweep[w].pc = "publish" /\ Publish(SweepCompiled(w))
       \/ sweep[w].pc = "orphans" /\ \E h \in sweep[w].orphans : Unpublish(h)
    /\ SweepDone(w)
    /\ UNCHANGED <<dataVars, sub>>

SweepStep(w) ==
    \/ SweepStart(w) \/ SweepReadTenant(w) \/ SweepReadRecords(w) \/ SweepPublish(w)
    \/ SweepReadIndex(w) \/ SweepUnpublish(w) \/ SweepEnd(w)

(***************************************************************************)
(* Failures of the process and of the broker.                              *)
(***************************************************************************)

\* The process dies: the message it held is delivered again.
Crash(w) ==
    /\ Fault
    /\ queue' = IF sub[w].pc = "idle" THEN queue ELSE queue \cup {sub[w].msg}
    /\ SubDone(w)
    /\ SweepBecomes(w, SweepIdle)
    /\ up' = up \ {w}
    /\ UNCHANGED <<storeVars, zone, stored, writes, owed, touched>>

\* A message dead-letters.
LoseMessage ==
    /\ Fault
    /\ \E m \in queue : queue' = queue \ {m}
    /\ UNCHANGED <<storeVars, zone, stored, writes, owed, touched, sub, sweep, up>>

Failure ==
    \/ \E w \in Workers : SubFails(w) \/ SweepFails(w) \/ Crash(w)
    \/ LoseMessage

(***************************************************************************)
(* The control plane over its environment.                                 *)
(***************************************************************************)
distVars == <<storeVars, dataVars, workerVars>>

DistInit == StoreInit /\ DataInit /\ WorkerInit

DistNext ==
    \/ ClientWrite /\ UNCHANGED <<storeVars, workerVars>>
    \/ \E w \in Workers : SubStep(w) \/ SweepStep(w)
    \/ Failure

\* A running process keeps consuming and its ticker keeps firing; nothing
\* obliges a client to write or a fault to happen.  (Every step of a loop
\* changes the variables its subscript names.)
DistFairness == \A w \in Workers : WF_<<queue, sub>>(SubStep(w)) /\ WF_sweep(SweepStep(w))

DistSpec == DistInit /\ [][DistNext]_distVars /\ DistFairness

(***************************************************************************)
(* Every variable of the control plane stays in its type; in particular    *)
(* what is in Redis was compiled from a zone in a servable state.          *)
(* (compile.Publishable, checked by both entry points)                     *)
(***************************************************************************)
DistTypeOK == StoreTypeOK /\ DataTypeOK /\ WorkerTypeOK

-----------------------------------------------------------------------------
\* What should be published for zone z right now: its own records and the
\* tenant-wide ones (resync.RunOnce; schema is the writer's).
Wanted(z) == [hostname |-> zone[z].hostname, status |-> zone[z].status,
              version |-> zone[z].version,
              rules |-> {r \in stored : Owner[r] \in {z, Global}}]

Matches(p, z) ==
    /\ p # Nil
    /\ p.zone = z
    /\ [hostname |-> p.hostname, status |-> p.status, version |-> p.version,
        rules |-> p.rules] = Wanted(z)

ServableHosts == {zone[z].hostname : z \in {y \in Zones : IsServable(y)}}

StoreCurrent ==
    /\ index = ServableHosts
    /\ \A z \in Zones : IsServable(z) => Matches(ruleset[zone[z].hostname], z)

(***************************************************************************)
(* Convergence of the store: once clients and failures stop, Redis holds   *)
(* exactly the servable zones, compiled from the current records, the      *)
(* tenant-wide ones included, whatever messages were lost, repeated or     *)
(* handled late.  (resync: "what actually guarantees the edge converges")  *)
(***************************************************************************)
StoreConverges == <>[]StoreCurrent

(***************************************************************************)
(* A zone nobody creates, renames, deletes or moves keeps its place in     *)
(* Redis once published, whatever happens to the other zones, to messages  *)
(* handled late or twice, to sweeps cut short and to crashing replicas:    *)
(* neither loop ever unpublishes it.  (sync.Zone, resync.RunOnce)          *)
(***************************************************************************)
UntouchedStaysPublished ==
    [][\A z \in Zones :
           z \notin touched' /\ IsServable(z) /\ zone[z].hostname \in index
               => zone[z].hostname \in index']_distVars

(***************************************************************************)
(* A sweep removes only what the data plane does not consider servable.    *)
(* (comment of resync.RunOnce's second half)                               *)
(***************************************************************************)
SweepRemovesUnservable ==
    [][\A w \in Workers : SweepUnpublish(w) => (index \ index') \cap ServableHosts = {}]_distVars

(***************************************************************************)
(* The two paths agree: republishing a zone from an event keeps the        *)
(* tenant-wide records a sweep compiled into it.  (sync package comment)   *)
(***************************************************************************)
EventKeepsTenantWide ==
    [][\A w \in Workers : SubPublish(w) =>
           LET old == ruleset[sub[w].rec.hostname]
               new == ruleset'[sub[w].rec.hostname]
           IN  old # Nil => {r \in old.rules \cap stored : Owner[r] = Global}
                                \subseteq new.rules]_distVars

(***************************************************************************)
(* A message about a tenant-wide record is acknowledged in the end.        *)
(* (comments of sync.ZoneIDFromEvent and subscribe.handle)                 *)
(***************************************************************************)
TenantWideAcknowledged ==
    <>[](/\ \A m \in queue : m.zone # Global
         /\ \A w \in Workers : sub[w].msg # Nil => sub[w].msg.zone # Global)
==============================================================================
