------------------------------ MODULE DataPlane ------------------------------
(***************************************************************************)
(* The data plane as control-plane sees it: the zone records with their    *)
(* workflow (zonesservice/entities/zone.go), the policy, rule and          *)
(* access-list records, and the outbox queue every write feeds.  Portal    *)
(* users and API clients write at any time.  configVersion is an ordinary  *)
(* writable number: no service derives it.                                 *)
(***************************************************************************)
EXTENDS RuleStore, FiniteSets

CONSTANTS
    Kind,         \* [Records -> {"ddos", "rule", "list"}], the entity of a record
    Owner,        \* [Records -> Zones \cup {Global}], its zoneId
    Global,       \* zoneId of a tenant-wide record (JSON null)
    ClientBumps,  \* TRUE: clients raise configVersion after each change
    MaxWrites     \* bound on the number of client writes

VARIABLES
    zone,         \* [Zones -> ZoneRecord or Nil], the waf.zones table
    stored,       \* the enabled records of the other tables
    queue,        \* outbox messages published and not yet delivered
    writes,       \* number of client writes so far (bounded by MaxWrites)
    owed,         \* zones changed since their configVersion was last raised
    touched       \* zones created, renamed, deleted or moved by a transition
                  \* (so an id that is in touched without a record is used up)

dataVars == <<zone, stored, queue, writes, owed, touched>>

Statuses == Servable \cup {"pending", "suspended"}

ZoneRecord == [hostname: Hostnames, status: Statuses, version: Versions]

\* An outbox message: the zone its payload resolves to (Nil: it carries no
\* zoneId at all) and the hostname in its data (Nil: none there).
Message == [zone: Zones \cup {Global, Nil}, hostname: Hostnames \cup {Nil}]

ASSUME DataPlaneAssumption ==
    /\ Kind \in [Records -> {"ddos", "rule", "list"}]
    /\ Owner \in [Records -> Zones \cup {Global}]
    /\ Global \notin Zones
    /\ Nil \notin Zones \cup {Global} \cup Versions \cup ZoneRecord \cup Message
    /\ 1 \in Versions
    /\ ClientBumps \in BOOLEAN
    /\ MaxWrites \in Nat

DataTypeOK ==
    /\ zone \in [Zones -> ZoneRecord \cup {Nil}]
    /\ stored \subseteq Records
    /\ queue \subseteq Message
    /\ writes \in 0..MaxWrites
    /\ owed \subseteq Zones
    /\ touched \subseteq Zones

\* zoneId and enabled select what the lists return.
RecordsOf(owner, kind) == {r \in stored : Owner[r] = owner /\ Kind[r] = kind}

\* Mutant: any state is served.
ServableInAnyState(z) == zone[z] # Nil

IsServable(z) == zone[z] # Nil /\ zone[z].status \in Servable

\* Zone.hostname is unique across the table.
HostnameFree(h) == \A z \in Zones : zone[z] # Nil => zone[z].hostname # h

Workflow ==
    {<<"pending", "active">>, <<"active", "paused">>, <<"paused", "active">>,
     <<"active", "suspended">>, <<"paused", "suspended">>}

\* Control-plane may be deployed over a table that is already populated, and
\* nothing sits in its queue before its first start.
DataInit ==
    /\ zone \in [Zones -> {Nil} \cup
                          [hostname: Hostnames, status: {"active"}, version: {1}]]
    /\ \A y, z \in Zones :
           y # z /\ zone[y] # Nil /\ zone[z] # Nil => zone[y].hostname # zone[z].hostname
    /\ stored = {}
    /\ queue = {}
    /\ writes = 0
    /\ owed = {}
    /\ touched = {}

Emit(m) == queue' = queue \cup {m}

Write == writes < MaxWrites /\ writes' = writes + 1

\* A change of zone z; the event may or may not carry the hostname field.
ZoneChange(z, record) ==
    /\ Write
    /\ zone' = [zone EXCEPT ![z] = record]
    /\ owed' = owed \cup {z}
    /\ touched' = touched \cup {z}
    /\ \E h \in {record.hostname, Nil} : Emit([zone |-> z, hostname |-> h])
    /\ UNCHANGED stored

\* Ids are generated: a deleted one never comes back.
CreateZone(z, h) ==
    /\ zone[z] = Nil
    /\ z \notin touched
    /\ HostnameFree(h)
    /\ ZoneChange(z, [hostname |-> h, status |-> "pending", version |-> 1])

Transition(z, s) ==
    /\ zone[z] # Nil
    /\ <<zone[z].status, s>> \in Workflow
    /\ ZoneChange(z, [zone[z] EXCEPT !.status = s])

Rename(z, h) ==
    /\ zone[z] # Nil
    /\ HostnameFree(h)
    /\ ZoneChange(z, [zone[z] EXCEPT !.hostname = h])

\* A delete event carries the record id and no data.
DeleteZone(z) ==
    /\ zone[z] # Nil
    /\ Write
    /\ zone' = [zone EXCEPT ![z] = Nil]
    /\ owed' = owed \ {z}
    /\ touched' = touched \cup {z}
    /\ Emit([zone |-> z, hostname |-> Nil])
    /\ UNCHANGED stored

\* A record change concerns its zone, or every zone when it is tenant-wide.
RecordOwed(r) ==
    owed \cup {z \in Zones : zone[z] # Nil /\ Owner[r] \in {z, Global}}

\* Creating or enabling: the event's data may leave zoneId out.
PutRecord(r) ==
    /\ r \notin stored
    /\ Owner[r] # Global => zone[Owner[r]] # Nil
    /\ Write
    /\ stored' = stored \cup {r}
    /\ owed' = RecordOwed(r)
    /\ \E z \in {Owner[r], Nil} : Emit([zone |-> z, hostname |-> Nil])
    /\ UNCHANGED <<zone, touched>>

\* Disabling or deleting: a delete event carries no data at all.
DropRecord(r) ==
    /\ r \in stored
    /\ Write
    /\ stored' = stored \ {r}
    /\ owed' = RecordOwed(r)
    /\ \E z \in {Owner[r], Nil} : Emit([zone |-> z, hostname |-> Nil])
    /\ UNCHANGED <<zone, touched>>

\* The client discipline the edge's version check relies on.
BumpVersion(z) ==
    /\ ClientBumps
    /\ z \in owed
    /\ zone[z] # Nil
    /\ zone[z].version + 1 \in Versions
    /\ zone' = [zone EXCEPT ![z].version = @ + 1]
    /\ owed' = owed \ {z}
    /\ \E h \in {zone[z].hostname, Nil} : Emit([zone |-> z, hostname |-> h])
    /\ UNCHANGED <<stored, writes, touched>>

ClientWrite ==
    \/ \E z \in Zones, h \in Hostnames : CreateZone(z, h) \/ Rename(z, h)
    \/ \E z \in Zones, s \in Statuses : Transition(z, s)
    \/ \E z \in Zones : DeleteZone(z) \/ BumpVersion(z)
    \/ \E r \in Records : PutRecord(r) \/ DropRecord(r)
==============================================================================
