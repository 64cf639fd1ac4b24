---------------------------- MODULE ZoneLifecycle ----------------------------
(***************************************************************************)
(* zones-service (data-plane/go): the handlers that take a zone from its   *)
(* creation to its deletion, each a sequence of calls of the CRUD layer    *)
(* with nothing held between them:                                         *)
(*                                                                         *)
(*   create   GuardedZonesBackend.Create: resolveDomainID, then the insert *)
(*   verify   VerifyDomainDNS: prove the domain, cascade onto its zones    *)
(*   sync     SyncConfigState: count the zone's records, write hasConfig   *)
(*   change   a versioned workflow transition of the portal                *)
(*   edit     a versioned update of a zone, VerifyDNS's and the clients'    *)
(*   delete   GuardedZonesBackend.Delete: zoneReferencedBy, then the       *)
(*            delete                                                       *)
(*                                                                         *)
(* The CRUD layer is not in this repository.  It writes a record only if   *)
(* the caller names its current version, applies a transition only from    *)
(* its source state and under its guard, and keeps hostnames and apex      *)
(* domains unique among the records that are not deleted.  Every field but *)
(* the state of a workflow is the clients' to write: a zone's copy of the  *)
(* verification, its domain and its flag too, and all of a domain.         *)
(***************************************************************************)
EXTENDS Integers, Sequences, FiniteSets

CONSTANTS
    Calls,          \* the requests that may be in progress together
    ZoneIds,        \* the ids zones may be given
    DomainIds,      \* the ids domains may be given
    Hosts,          \* hostnames, each a sequence of labels
    Created,        \* [a subset of ZoneIds -> Hosts], the zones there at first
    Known,          \* [a subset of DomainIds -> Apexes], the domains there at first
    CascadeLimit,   \* zones one list query returns (100 in VerifyDomainDNS)
    MaxFields,      \* bound on the fields one update changes
    MaxCalls,       \* bound on the number of requests
    MaxChanges      \* bound on the outside writes, the deletion of such a row aside

\* The last two labels of a hostname, once its trailing dots (empty labels)
\* are trimmed; a hostname no longer than that is returned as it came.
ApexDomain(hostname) ==
    LET labels == {i \in DOMAIN hostname : hostname[i] # ""}
        last == CHOOSE i \in labels \cup {0} : \A j \in labels : j <= i
    IN IF last <= 2 THEN hostname ELSE <<hostname[last - 1], hostname[last]>>

Apexes == {ApexDomain(h) : h \in Hosts}

\* The zones that are there at first have ids and hostnames of the model's own,
\* and are under the domains that are; an id is of a zone or of a domain.
ASSUME ZoneLifecycleAssumption ==
    /\ ZoneIds \cap DomainIds = {}
    /\ DOMAIN Created \subseteq ZoneIds /\ \A z \in DOMAIN Created : Created[z] \in Hosts
    /\ DOMAIN Known \subseteq DomainIds /\ \A d \in DOMAIN Known : Known[d] \in Apexes
    /\ \A z \in DOMAIN Created : \E d \in DOMAIN Known : Known[d] = ApexDomain(Created[z])

VARIABLES
    domains,        \* domain id -> its record
    zones,          \* zone id -> its record, "none" before and "deleted" after
    policies,       \* zone id -> the entities with a record of the zone
    refs,           \* entity of a sibling service -> the zones its rows name
    calls,          \* [Calls -> the local state of the request]
    proven,         \* the domains whose token was found in the DNS (history)
    vouched,        \* the zones and domains a client spoke for (history)
    synced,         \* zone id -> how its last change was synced (history)
    watch,          \* [Calls -> what else happened during the request] (history)
    made,           \* number of requests so far (bounded by MaxCalls)
    changes         \* number of outside writes so far (at most MaxChanges)

vars == <<domains, zones, policies, refs, calls, proven, vouched, synced, watch, made, changes>>

attested == <<proven, vouched>>

----------------------------------------------------------------------------
(* The records. *)

NoDomain == [there |-> FALSE, apex |-> <<>>, verified |-> FALSE, version |-> 0]

Unverified(apex) == [there |-> TRUE, apex |-> apex, verified |-> FALSE, version |-> 1]

NoZone == [host |-> <<>>, domain |-> <<>>, status |-> "none",
           verified |-> FALSE, hasConfig |-> FALSE, version |-> 0]

ZoneUnderName(h, d, verified, hasConfig) ==      \* mutant of NewZone
    [host |-> h, domain |-> ApexDomain(h), status |-> "pending",
     verified |-> verified, hasConfig |-> hasConfig, version |-> 1]

NewZone(h, d, verified, hasConfig) ==
    [host |-> h, domain |-> d, status |-> "pending",
     verified |-> verified, hasConfig |-> hasConfig, version |-> 1]

\* The transitions of ZoneEntity's workflow: <<action, from, to>>.
Workflow == {<<"activate", "pending", "active">>, <<"pause", "active", "paused">>,
             <<"resume", "paused", "active">>, <<"suspend", "active", "suspended">>,
             <<"suspend", "paused", "suspended">>}

\* activateGuard; no other transition has a guard.
GuardHolds(zone, action) == action = "activate" => zone.hasConfig /\ zone.verified

Live(z) == zones[z].status \notin {"none", "deleted"}

\* A hostname is unique across the live zones, an apex across the domains.
Taken(host, others) == \E y \in others : Live(y) /\ zones[y].host = host

Named(apex) == {d \in DomainIds : domains[d].there /\ domains[d].apex = apex}

FirstTwoChecks == <<"scan_jobs", "incidents">>   \* mutant of Checks

\* The sibling entities zoneReferencedBy asks for, in its order.
Checks == <<"scan_jobs", "incidents", "security_events">>

Entities == {"scan_jobs", "incidents", "security_events"}

Idle == [step |-> "idle"]

----------------------------------------------------------------------------
(* Requests: each begins in an idle call, and every answer, error or not,  *)
(* makes the call idle again.                                              *)

Unwatched == [fresh |-> TRUE, alone |-> TRUE, held |-> {}]

Goto(c, state) == calls' = [calls EXCEPT ![c] = state] /\ UNCHANGED watch

BeginWatched(c, state, watched) ==
    /\ calls[c] = Idle /\ made < MaxCalls
    /\ made' = made + 1
    /\ calls' = [calls EXCEPT ![c] = state]
    /\ watch' = watched

Begin(c, state) == BeginWatched(c, state, watch)

Answer(c) == calls' = [calls EXCEPT ![c] = Idle] /\ watch' = [watch EXCEPT ![c] = Unwatched]

\* CrudService.Update: refused unless the caller knows the current version.
Write(z, version, record) ==
    zones' = [zones EXCEPT ![z] =
                 IF Live(z) /\ zones[z].version = version THEN record ELSE @]

\* The CRUD layer fails, or the client goes away: nothing more is written.
Abandon(c) ==
    /\ calls[c] # Idle
    /\ Answer(c)
    /\ UNCHANGED <<domains, zones, policies, refs, attested, synced, made, changes>>

\* Create, resolveDomainID: the domain is looked up by the apex of the hostname.
StartCreate(c, h) ==
    /\ \/ /\ Named(ApexDomain(h)) = {}
          /\ Begin(c, [step |-> "domain", host |-> h])
       \/ \E d \in Named(ApexDomain(h)) :
            Begin(c, [step |-> "insert", host |-> h, domain |-> d])
    /\ UNCHANGED <<domains, zones, policies, refs, attested, synced, changes>>

\* resolveDomainID: none was found, so one is created, unless another request
\* has created it since: apexDomain is unique, and the whole create fails.
CreateDomain(c) ==
    /\ calls[c].step = "domain"
    /\ LET apex == ApexDomain(calls[c].host)
       IN \/ Named(apex) # {} /\ Answer(c) /\ UNCHANGED domains
          \/ /\ Named(apex) = {}
             /\ \E d \in DomainIds :
                  /\ ~ domains[d].there
                  /\ domains' = [domains EXCEPT ![d] = Unverified(apex)]
                  /\ Goto(c, [step |-> "insert", host |-> calls[c].host, domain |-> d])
    /\ UNCHANGED <<zones, policies, refs, attested, synced, made, changes>>

\* Create: the insert itself.  The payload is the client's but for the domain,
\* its verificationStatus and its hasConfig too.
InsertZone(c, verified, hasConfig) ==
    /\ calls[c].step = "insert"
    /\ \/ Taken(calls[c].host, ZoneIds) /\ UNCHANGED <<zones, vouched, synced>>
       \/ /\ ~ Taken(calls[c].host, ZoneIds)
          /\ \E z \in ZoneIds :
                /\ zones[z].status = "none"
                /\ zones' = [zones EXCEPT ![z] =
                                NewZone(calls[c].host, calls[c].domain, verified, hasConfig)]
                /\ vouched' = IF verified THEN vouched \cup {z} ELSE vouched
                /\ synced' = IF hasConfig THEN [synced EXCEPT ![z] = "no"] ELSE synced
    /\ Answer(c)
    /\ UNCHANGED <<domains, policies, refs, proven, made, changes>>

\* VerifyDomainDNS: the domain is read, and its version kept for the write.  The
\* token to look for is the domain's own, unless the caller names another.
StartVerify(c, d, own) ==
    /\ domains[d].there
    /\ Begin(c, [step |-> "prove", domain |-> d, own |-> own, version |-> domains[d].version])
    /\ UNCHANGED <<domains, zones, policies, refs, attested, synced, changes>>

VerifyUnproven(c, found) ==                      \* mutant of ProveDomain
    /\ calls[c].step = "prove"
    /\ LET d == calls[c].domain
       IN /\ domains' = [domains EXCEPT ![d].verified = @ \/ found]
          /\ proven' = IF found /\ calls[c].own THEN proven \cup {d} ELSE proven
          /\ vouched' = IF found /\ ~ calls[c].own THEN vouched \cup {d} ELSE vouched
          /\ Goto(c, [step |-> "list", domain |-> d])
    /\ UNCHANGED <<zones, policies, refs, synced, made, changes>>

\* VerifyDomainDNS: the TXT lookup finds the token or not; only if it does is
\* the domain marked, and only if that write succeeds are its zones listed.
ProveDomain(c, found) ==
    /\ calls[c].step = "prove"
    /\ LET d == calls[c].domain
       IN IF found /\ domains[d].version = calls[c].version
          THEN /\ domains' = [domains EXCEPT ![d] =
                     [there |-> TRUE, apex |-> @.apex, verified |-> TRUE,
                      version |-> @.version + 1]]
               /\ proven' = IF calls[c].own THEN proven \cup {d} ELSE proven
               /\ vouched' = IF calls[c].own THEN vouched ELSE vouched \cup {d}
               /\ Goto(c, [step |-> "list", domain |-> d])
          ELSE Answer(c) /\ UNCHANGED <<domains, attested>>
    /\ UNCHANGED <<zones, policies, refs, synced, made, changes>>

\* VerifyDomainDNS: one page of the domain's zones, each with its version.
ListZones(c) ==
    /\ calls[c].step = "list"
    /\ LET under == {z \in ZoneIds : Live(z) /\ zones[z].domain = calls[c].domain}
       IN \E page \in SUBSET under :
            /\ page = under \/ Cardinality(page) = CascadeLimit
            /\ Cardinality(page) <= CascadeLimit
            /\ Goto(c, [step |-> "cascade", domain |-> calls[c].domain, failed |-> {},
                        todo |-> page, listed |-> [z \in page |-> zones[z].version]])
    /\ UNCHANGED <<domains, zones, policies, refs, attested, synced, made, changes>>

StopAtFirst(c, z, fails) ==                      \* mutant of CascadeOnto
    /\ calls[c].step = "cascade" /\ z \in calls[c].todo
    /\ LET stale == zones[z].version # calls[c].listed[z]
       IN /\ IF fails THEN UNCHANGED zones
             ELSE Write(z, calls[c].listed[z], [zones[z] EXCEPT !.verified = TRUE,
                                                 !.version = @ + 1])
          /\ Goto(c, [calls[c] EXCEPT !.todo = IF fails \/ stale THEN {} ELSE @ \ {z},
                                      !.failed = IF fails THEN @ \cup {z} ELSE @])
    /\ UNCHANGED <<domains, policies, refs, attested, synced, made, changes>>

\* VerifyDomainDNS: one zone of the page.  A write that fails is logged, one
\* that is refused is not even that, and the loop goes on to the next zone.
CascadeOnto(c, z, fails) ==
    /\ calls[c].step = "cascade" /\ z \in calls[c].todo
    /\ IF fails THEN UNCHANGED zones
       ELSE Write(z, calls[c].listed[z],
                  [host |-> zones[z].host, domain |-> zones[z].domain,
                   status |-> zones[z].status, verified |-> TRUE,
                   hasConfig |-> zones[z].hasConfig, version |-> zones[z].version + 1])
    /\ Goto(c, [step |-> "cascade", domain |-> calls[c].domain,
                failed |-> IF fails THEN calls[c].failed \cup {z} ELSE calls[c].failed,
                todo |-> calls[c].todo \ {z}, listed |-> calls[c].listed])
    /\ UNCHANGED <<domains, policies, refs, attested, synced, made, changes>>

\* VerifyDomainDNS: the answer, once every listed zone had its turn.
EndVerify(c) == calls[c].step = "cascade" /\ calls[c].todo = {} /\ Abandon(c)

Syncing(z) == {c \in Calls : calls[c].step \in {"firewall", "reread", "flag"}
                             /\ calls[c].zone = z}

\* SyncConfigState: is there a DDoS policy of the zone?  (History: from here on
\* it overlaps with every other sync of the zone in progress.)
StartSync(c, z) ==
    /\ BeginWatched(c, [step |-> "firewall", zone |-> z, hasConfig |-> "ddos" \in policies[z]],
           [d \in Calls |->
               CASE d = c -> [fresh |-> TRUE, alone |-> Syncing(z) = {}, held |-> {}]
                 [] d \in Syncing(z) -> [watch[d] EXCEPT !.alone = FALSE]
                 [] OTHER -> watch[d]])
    /\ UNCHANGED <<domains, zones, policies, refs, attested, synced, changes>>

CountAgain(c) ==                                 \* mutant of CountFirewallRules
    /\ calls[c].step = "firewall"
    /\ Goto(c, [step |-> "reread", zone |-> calls[c].zone,
                hasConfig |-> "firewall" \in policies[calls[c].zone]])
    /\ UNCHANGED <<domains, zones, policies, refs, attested, synced, made, changes>>

\* SyncConfigState: is there a firewall rule?
CountFirewallRules(c) ==
    /\ calls[c].step = "firewall"
    /\ Goto(c, [step |-> "reread", zone |-> calls[c].zone,
                hasConfig |-> calls[c].hasConfig \/ "firewall" \in policies[calls[c].zone]])
    /\ UNCHANGED <<domains, zones, policies, refs, attested, synced, made, changes>>

\* History: the zone's flag was found right, or written, by this sync.
Synced(c) == synced' = [synced EXCEPT ![calls[c].zone] =
                           IF ~ watch[c].fresh THEN @
                           ELSE IF watch[c].alone THEN "alone"
                           ELSE IF @ = "alone" THEN @ ELSE "overlapped"]

\* SyncConfigState: the zone and its version are read after the counts, and a
\* flag that is already right is not written.
RereadZone(c) ==
    /\ calls[c].step = "reread"
    /\ LET z == calls[c].zone
       IN IF ~ Live(z)
          THEN Answer(c) /\ UNCHANGED synced
          ELSE IF zones[z].hasConfig = calls[c].hasConfig
          THEN Answer(c) /\ Synced(c)
          ELSE /\ Goto(c, [step |-> "flag", zone |-> z, hasConfig |-> calls[c].hasConfig,
                           version |-> zones[z].version])
               /\ UNCHANGED synced
    /\ UNCHANGED <<domains, zones, policies, refs, attested, made, changes>>

\* SyncConfigState: the versioned write of the flag.
WriteFlag(c) ==
    /\ calls[c].step = "flag"
    /\ LET z == calls[c].zone
       IN /\ Write(z, calls[c].version,
                   [host |-> zones[z].host, domain |-> zones[z].domain,
                    status |-> zones[z].status, verified |-> zones[z].verified,
                    hasConfig |-> calls[c].hasConfig, version |-> zones[z].version + 1])
          /\ IF Live(z) /\ zones[z].version = calls[c].version
             THEN Synced(c) ELSE UNCHANGED synced
    /\ Answer(c)
    /\ UNCHANGED <<domains, policies, refs, attested, made, changes>>

\* The portal shows a zone, and the user acts on the version shown.
ShowZone(c, z, action) ==
    /\ Live(z)
    /\ Begin(c, [step |-> "act", zone |-> z, action |-> action,
                 version |-> zones[z].version])
    /\ UNCHANGED <<domains, zones, policies, refs, attested, synced, changes>>

\* CrudService.Transition.
ActOnZone(c, to) ==
    /\ calls[c].step = "act"
    /\ LET z == calls[c].zone
       IN /\ <<calls[c].action, zones[z].status, to>> \in Workflow
          /\ GuardHolds(zones[z], calls[c].action)
          /\ Write(z, calls[c].version,
                   [host |-> zones[z].host, domain |-> zones[z].domain, status |-> to,
                    verified |-> zones[z].verified, hasConfig |-> zones[z].hasConfig,
                    version |-> zones[z].version + 1])
    /\ Answer(c)
    /\ UNCHANGED <<domains, policies, refs, attested, synced, made, changes>>

\* How many of the fields modelled here an update of the zone changes.
FieldsOf(z, h, d, verified, hasConfig) ==
    Cardinality({f \in {"host", "domain", "verified", "hasConfig"} :
        zones[z][f] # [host |-> h, domain |-> d, verified |-> verified, hasConfig |-> hasConfig][f]})

\* Update lets through whatever the client writes of a zone: another hostname
\* (its domain stays), another domain, the copy of the verification, the flag, or
\* only fields not modelled here, as VerifyDNS does.
EditZone(c, h, d, verified, hasConfig) ==
    /\ calls[c].step = "act" /\ calls[c].action = "edit"
    /\ domains[d].there /\ FieldsOf(calls[c].zone, h, d, verified, hasConfig) <= MaxFields
    /\ LET z == calls[c].zone
           own == d # zones[z].domain \/ (verified /\ ~ zones[z].verified)
       IN IF Live(z) /\ zones[z].version = calls[c].version /\ ~ Taken(h, ZoneIds \ {z})
          THEN /\ zones' = [zones EXCEPT ![z] =
                     [host |-> h, domain |-> d, status |-> zones[z].status, verified |-> verified,
                      hasConfig |-> hasConfig, version |-> zones[z].version + 1]]
               /\ vouched' = IF own THEN vouched \cup {z} ELSE vouched
               /\ synced' = IF hasConfig = zones[z].hasConfig THEN synced
                            ELSE [synced EXCEPT ![z] = "no"]
          ELSE UNCHANGED <<zones, vouched, synced>>
    /\ Answer(c)
    /\ UNCHANGED <<domains, policies, refs, proven, made, changes>>

\* Delete of a zone.  (History: the entities that already refer to the zone, and
\* from here on those that have not stopped since.)
StartDelete(c, z) ==
    /\ Live(z)
    /\ BeginWatched(c, [step |-> "delete", zone |-> z, version |-> zones[z].version,
                        unchecked |-> Checks],
           [watch EXCEPT ![c] = [fresh |-> TRUE, alone |-> TRUE,
                                 held |-> {e \in Entities : z \in refs[e]}]])
    /\ UNCHANGED <<domains, zones, policies, refs, attested, synced, changes>>

\* zoneReferencedBy: one entity; a row of the zone, or no answer, refuses.
CheckReference(c, reachable) ==
    /\ calls[c].step = "delete" /\ calls[c].unchecked # <<>>
    /\ IF reachable /\ calls[c].zone \notin refs[Head(calls[c].unchecked)]
       THEN Goto(c, [step |-> "delete", zone |-> calls[c].zone,
                     version |-> calls[c].version, unchecked |-> Tail(calls[c].unchecked)])
       ELSE Answer(c)
    /\ UNCHANGED <<domains, zones, policies, refs, attested, synced, made, changes>>

\* Delete: every check passed.
DeleteZone(c) ==
    /\ calls[c].step = "delete" /\ calls[c].unchecked = <<>>
    /\ LET z == calls[c].zone
       IN Write(z, calls[c].version,
                [host |-> zones[z].host, domain |-> zones[z].domain, status |-> "deleted",
                 verified |-> zones[z].verified, hasConfig |-> zones[z].hasConfig,
                 version |-> zones[z].version])
    /\ Answer(c)
    /\ UNCHANGED <<domains, policies, refs, attested, synced, made, changes>>

----------------------------------------------------------------------------
(* What others write. *)

\* A client creates a domain or updates one: its apex, its verificationStatus,
\* or the token and the method of its verification.
WriteDomain(d, apex, verified) ==
    /\ Named(apex) \subseteq {d} /\ changes < MaxChanges
    /\ changes' = changes + 1
    /\ domains' = [domains EXCEPT ![d] = [there |-> TRUE, apex |-> apex, verified |-> verified,
                                         version |-> @.version + 1]]
    /\ vouched' = vouched \cup {d}
    /\ UNCHANGED <<zones, policies, refs, calls, proven, synced, watch, made>>

\* A DDoS policy or firewall rule of the zone is created, or its last deleted.
ChangePolicy(z, entity) ==
    /\ Live(z) /\ changes < MaxChanges
    /\ changes' = changes + 1
    /\ policies' = [policies EXCEPT ![z] = IF entity \in @ THEN @ \ {entity} ELSE @ \cup {entity}]
    /\ synced' = [synced EXCEPT ![z] = "no"]
    /\ watch' = [c \in Calls |-> IF c \in Syncing(z) THEN [watch[c] EXCEPT !.fresh = FALSE]
                                 ELSE watch[c]]
    /\ UNCHANGED <<domains, zones, refs, attested, calls, made>>

\* scanning-service or alerting-service creates the first row that names the
\* zone (zoneId is a plain string there: nothing asks if the zone still is).
Refer(e, z) ==
    /\ zones[z].status # "none" /\ z \notin refs[e] /\ changes < MaxChanges
    /\ changes' = changes + 1
    /\ refs' = [refs EXCEPT ![e] = @ \cup {z}]
    /\ UNCHANGED <<domains, zones, policies, calls, attested, synced, watch, made>>

\* The last row of the entity that names the zone is deleted, or expires.
Release(e, z) ==
    /\ z \in refs[e]
    /\ refs' = [refs EXCEPT ![e] = @ \ {z}]
    /\ watch' = [c \in Calls |->
                    IF calls[c].step = "delete" /\ calls[c].zone = z
                    THEN [watch[c] EXCEPT !.held = @ \ {e}] ELSE watch[c]]
    /\ UNCHANGED <<domains, zones, policies, calls, attested, synced, made, changes>>

----------------------------------------------------------------------------
ZoneLifecycleInit ==
    /\ domains = [d \in DomainIds |->
                    IF d \in DOMAIN Known THEN Unverified(Known[d]) ELSE NoDomain]
    /\ zones = [z \in ZoneIds |->
                  IF z \in DOMAIN Created
                  THEN NewZone(Created[z], CHOOSE d \in DOMAIN Known :
                                               Known[d] = ApexDomain(Created[z]), FALSE, FALSE)
                  ELSE NoZone]
    /\ policies = [z \in ZoneIds |-> {}]
    /\ refs = [e \in Entities |-> {}]
    /\ calls = [c \in Calls |-> Idle]
    /\ proven = {} /\ vouched = {}
    /\ synced = [z \in ZoneIds |-> "alone"]
    /\ watch = [c \in Calls |-> Unwatched]
    /\ made = 0
    /\ changes = 0

Actions == {"edit", "activate", "pause", "resume", "suspend"}

ZoneLifecycleNext ==
    \/ \E c \in Calls :
        \/ \E h \in Hosts : StartCreate(c, h)
        \/ CreateDomain(c)
        \/ \E verified, hasConfig \in BOOLEAN : InsertZone(c, verified, hasConfig)
        \/ \E d \in DomainIds, own \in BOOLEAN : StartVerify(c, d, own)
        \/ \E found \in BOOLEAN : ProveDomain(c, found)
        \/ ListZones(c)
        \/ \E z \in ZoneIds, fails \in BOOLEAN : CascadeOnto(c, z, fails)
        \/ EndVerify(c)
        \/ CountFirewallRules(c) \/ RereadZone(c) \/ WriteFlag(c)
        \/ \E z \in ZoneIds : StartSync(c, z) \/ StartDelete(c, z)
        \/ \E z \in ZoneIds, action \in Actions : ShowZone(c, z, action)
        \/ \E to \in {"pending", "active", "paused", "suspended"} : ActOnZone(c, to)
        \/ \E h \in Hosts, d \in DomainIds, verified, hasConfig \in BOOLEAN :
              EditZone(c, h, d, verified, hasConfig)
        \/ \E reachable \in BOOLEAN : CheckReference(c, reachable)
        \/ DeleteZone(c)
        \/ Abandon(c)
    \/ \E d \in DomainIds, a \in Apexes, verified \in BOOLEAN : WriteDomain(d, a, verified)
    \/ \E z \in ZoneIds, e \in {"ddos", "firewall"} : ChangePolicy(z, e)
    \/ \E z \in ZoneIds, e \in Entities : Refer(e, z) \/ Release(e, z)

ZoneLifecycleSpec == ZoneLifecycleInit /\ [][ZoneLifecycleNext]_vars

----------------------------------------------------------------------------
(* Properties. *)

\* Types of the records; each call is idle or at a step of a handler.
ZoneTypeOK ==
    /\ domains \in [DomainIds -> [there : BOOLEAN, apex : Apexes \cup {<<>>},
                                  verified : BOOLEAN, version : Nat]]
    /\ zones \in [ZoneIds ->
            [host : Hosts \cup {<<>>}, domain : DomainIds \cup {<<>>},
             status : {"none", "pending", "active", "paused", "suspended", "deleted"},
             verified : BOOLEAN, hasConfig : BOOLEAN, version : Nat]]
    /\ refs \in [Entities -> SUBSET ZoneIds]
    /\ proven \subseteq DomainIds /\ vouched \subseteq ZoneIds \cup DomainIds

Serving(z) == zones[z].status \in {"active", "paused", "suspended"}

\* A zone has left "pending" only if its domain's own token was found in the DNS,
\* or a client spoke for it: wrote the verification or the domain of the zone, a
\* field of the domain, or named the token to look for.  The zone's
\* verificationStatus is a copy, written zone by zone after the domain's own, and
\* only the copy is in the guard.
ServedIsProven ==
    \A z \in ZoneIds : Serving(z) =>
        z \in vouched \/ zones[z].domain \in proven \cup vouched

\* "proves the customer controls the hostname before edge-plane ever routes
\* traffic for it" (zone.go): the same of the hostname a zone is served under.
ServedHostIsProven ==
    \A z \in ZoneIds : Serving(z) =>
        LET d == zones[z].domain
        IN \/ z \in vouched \/ d \in vouched
           \/ d \in proven /\ domains[d].apex = ApexDomain(zones[z].host)

\* A cascade passes over no zone it listed: each one it is done with is
\* verified, unless another request wrote or deleted the zone after it was
\* listed, or the write of that zone itself failed.
CascadePassesNoZone ==
    \A c \in Calls : calls[c].step = "cascade" =>
        \A z \in DOMAIN calls[c].listed \ (calls[c].todo \cup calls[c].failed) :
            zones[z].verified \/ ~ Live(z) \/ zones[z].version > calls[c].listed[z]

\* A zone is not deleted over a row that referred to it before the request and
\* has not gone away since, in whichever of the sibling services.
NoHeldReferenceDangles ==
    [][\A z \in ZoneIds : Live(z) /\ zones'[z].status = "deleted" =>
          \E c \in Calls : /\ calls[c].step = "delete" /\ calls[c].zone = z
                           /\ watch[c].held = {}]_vars

HasConfigIsRight(z) == zones[z].hasConfig = (policies[z] # {})

\* Once a sync that began after the last change of the zone's records has
\* succeeded, with no other sync of the zone in progress meanwhile, hasConfig
\* tells whether the zone has any.
QuietSyncIsRight == \A z \in ZoneIds : Live(z) /\ synced[z] = "alone" => HasConfigIsRight(z)

\* "calling it at any time (or twice) is harmless" (routes.go): the same when
\* such a sync overlapped with others and all of them are over.
SyncIsHarmless ==
    \A z \in ZoneIds : Live(z) /\ synced[z] # "no" /\ Syncing(z) = {} => HasConfigIsRight(z)

=============================================================================
