------------------------- MODULE ZoneLifecycle_proofs -------------------------
(***************************************************************************)
(* What zones-service's handlers keep of each other's work, for every      *)
(* number of requests, zones, domains and hostnames: no zone is served     *)
(* under a domain that was never proven unless a client spoke for it, a    *)
(* cascade passes over no zone, an undisturbed sync leaves the right flag, *)
(* and no zone is deleted over a row that refers to it.                    *)
(*                                                                         *)
(* The guard of "activate" reads the zone's copy of the verification, and  *)
(* the copy is written by a cascade that began with the domain's own: so   *)
(* the first invariant follows the domain through the cascade's state, and *)
(* the zones a client moves to another domain in mid-cascade.              *)
(***************************************************************************)
EXTENDS ZoneLifecycle, TLAPS

ServingStatuses == {"active", "paused", "suspended"}

\* The domain was proven, or a client spoke for it.
Backed(d, prov, vouch) == d \in prov \/ d \in vouch

\* Who is marked verified, or was ever activated, has such a domain, or a client
\* that spoke for the zone itself.
ZoneProven(z, zone, prov, vouch) ==
    zone.verified \/ zone.status \in ServingStatuses =>
        z \in vouch \/ Backed(zone.domain, prov, vouch)

\* A cascade is under such a domain, and so are the zones it has left to do,
\* unless a client moved them.
CallProven(call, zs, prov, vouch) ==
    /\ call.step \in {"list", "cascade"} => Backed(call.domain, prov, vouch)
    /\ call.step = "cascade" =>
        \A z \in call.todo :
            /\ z \in ZoneIds /\ zs[z].status # "none"
            /\ zs[z].domain = call.domain \/ z \in vouch

ProvenInv ==
    /\ DOMAIN zones = ZoneIds /\ DOMAIN calls = Calls
    /\ \A z \in ZoneIds : ZoneProven(z, zones[z], proven, vouched)
    /\ \A c \in Calls : CallProven(calls[c], zones, proven, vouched)

\* What was proven or vouched for stays so.
HistoryGrows == proven \subseteq proven' /\ vouched \subseteq vouched'

\* A zone stays as it is, or has such a domain, if it needs one; and it is moved
\* to another domain by a client only.
ZonesMove ==
    /\ DOMAIN zones' = ZoneIds
    /\ \A z \in ZoneIds :
        \/ zones'[z] = zones[z]
        \/ /\ ZoneProven(z, zones'[z], proven', vouched')
           /\ zones[z].status # "none" =>
                /\ zones'[z].status # "none"
                /\ zones'[z].domain = zones[z].domain \/ z \in vouched'

\* A request stays as it is, or moves to a state with such a domain, if any.
CallsMove ==
    /\ DOMAIN calls' = Calls
    /\ \A c \in Calls :
        calls'[c] = calls[c] \/ CallProven(calls'[c], zones', proven', vouched')

\* Steps that move so keep the invariant: who was backed stays so.
LEMMA MovesKeep ==
    ASSUME ProvenInv, HistoryGrows, ZonesMove, CallsMove
    PROVE  ProvenInv'
<1>1. \A d : Backed(d, proven, vouched) => Backed(d, proven', vouched')
  BY DEF HistoryGrows, Backed
<1>2. \A z \in ZoneIds : ZoneProven(z, zones'[z], proven', vouched')
  <2> SUFFICES ASSUME NEW z \in ZoneIds, zones'[z] = zones[z]
               PROVE  ZoneProven(z, zones'[z], proven', vouched')
    BY DEF ZonesMove
  <2>1. ZoneProven(z, zones[z], proven, vouched)
    BY DEF ProvenInv
  <2> QED BY <1>1, <2>1 DEF ZoneProven, HistoryGrows
<1>3. \A c \in Calls : CallProven(calls[c], zones', proven', vouched')
  <2> SUFFICES ASSUME NEW c \in Calls PROVE CallProven(calls[c], zones', proven', vouched')
    OBVIOUS
  <2>1. CallProven(calls[c], zones, proven, vouched)
    BY DEF ProvenInv
  <2>2. \A z \in ZoneIds : zones[z].status # "none" =>
            /\ zones'[z].status # "none"
            /\ zones'[z].domain = zones[z].domain \/ z \in vouched'
    BY DEF ZonesMove
  <2> QED BY <1>1, <2>1, <2>2 DEF CallProven, HistoryGrows
<1>4. \A c \in Calls : CallProven(calls'[c], zones', proven', vouched')
  BY <1>3 DEF CallsMove
<1> QED BY <1>2, <1>4 DEF ProvenInv, ZonesMove, CallsMove

LEMMA SameHistory == ASSUME UNCHANGED attested PROVE HistoryGrows
BY DEF attested, HistoryGrows

LEMMA SameZones == ASSUME ProvenInv, zones' = zones PROVE ZonesMove
BY DEF ProvenInv, ZonesMove

\* A request that moves to a state of no such domain's concern.
LEMMA CallMoves ==
    ASSUME ProvenInv, NEW c \in Calls, NEW state, calls' = [calls EXCEPT ![c] = state],
           CallProven(state, zones', proven', vouched')
    PROVE  CallsMove
BY DEF ProvenInv, CallsMove

LEMMA CallAnswered ==
    ASSUME ProvenInv, NEW c \in Calls, Answer(c)
    PROVE  CallsMove
<1>1. CallProven(Idle, zones', proven', vouched')
  BY DEF CallProven, Idle
<1> QED BY <1>1, CallMoves DEF Answer

\* A versioned write of a record that is as proven as the zone's domain.
LEMMA WriteMoves ==
    ASSUME ProvenInv, NEW z, NEW version, NEW record, Write(z, version, record),
           z \in ZoneIds /\ Live(z) =>
              /\ ZoneProven(z, record, proven', vouched')
              /\ record.status # "none"
              /\ record.domain = zones[z].domain \/ z \in vouched'
    PROVE  ZonesMove
<1>1. zones' = [zones EXCEPT ![z] =
                   IF Live(z) /\ zones[z].version = version THEN record ELSE zones[z]]
  BY DEF Write
<1>2. DOMAIN zones' = ZoneIds
  BY <1>1 DEF ProvenInv
<1>3. ASSUME NEW y \in ZoneIds, zones'[y] # zones[y]
      PROVE  y = z /\ Live(z) /\ zones'[y] = record
  BY <1>1, <1>3 DEF ProvenInv
<1> QED BY <1>2, <1>3 DEF ZonesMove

LEMMA InitProven == ZoneLifecycleInit => ProvenInv
<1> SUFFICES ASSUME ZoneLifecycleInit PROVE ProvenInv
  OBVIOUS
<1>1. DOMAIN zones = ZoneIds /\ DOMAIN calls = Calls
  BY DEF ZoneLifecycleInit
<1>2. \A z \in ZoneIds : ~ zones[z].verified /\ zones[z].status \notin ServingStatuses
  BY DEF ZoneLifecycleInit, NewZone, NoZone, ServingStatuses
<1>3. \A c \in Calls : calls[c].step = "idle"
  BY DEF ZoneLifecycleInit, Idle
<1> QED BY <1>1, <1>2, <1>3 DEF ProvenInv, ZoneProven, CallProven

\* Requests that begin.
LEMMA BeginKeeps ==
    ASSUME ProvenInv, NEW c \in Calls, NEW state, NEW watched,
           BeginWatched(c, state, watched), UNCHANGED <<zones, attested>>,
           state.step \notin {"list", "cascade"}
    PROVE  ProvenInv'
<1>1. CallProven(state, zones', proven', vouched')
  BY DEF CallProven
<1>2. CallsMove
  BY <1>1, CallMoves DEF BeginWatched
<1> QED BY <1>2, MovesKeep, SameHistory, SameZones

\* Create.
LEMMA CreateDomainKeeps ==
    ASSUME ProvenInv, NEW c \in Calls, CreateDomain(c)
    PROVE  ProvenInv'
<1>1. zones' = zones /\ UNCHANGED attested
  BY DEF CreateDomain
<1>2. PICK state : /\ Answer(c) \/ calls' = [calls EXCEPT ![c] = state]
                   /\ state.step = "insert"
  <2> DEFINE state(d) == [step |-> "insert", host |-> calls[c].host, domain |-> d]
  <2>1. PICK d : Answer(c) \/ calls' = [calls EXCEPT ![c] = state(d)]
    BY DEF CreateDomain, Goto
  <2>2. state(d).step = "insert"
    OBVIOUS
  <2> HIDE DEF state
  <2> QED BY <2>1, <2>2
<1>3. CallProven(state, zones', proven', vouched')
  BY <1>2 DEF CallProven
<1>4. CallsMove
  BY <1>2, <1>3, CallAnswered, CallMoves
<1> QED BY <1>1, <1>4, SameHistory, SameZones, MovesKeep

LEMMA InsertKeeps ==
    ASSUME ProvenInv, NEW c \in Calls, NEW verified \in BOOLEAN, NEW hasConfig \in BOOLEAN,
           InsertZone(c, verified, hasConfig)
    PROVE  ProvenInv'
<1> DEFINE record == NewZone(calls[c].host, calls[c].domain, verified, hasConfig)
<1>1. Answer(c) /\ proven' = proven
  BY DEF InsertZone
<1>2. CASE UNCHANGED <<zones, vouched>>
  <2>1. HistoryGrows
    BY <1>1, <1>2 DEF HistoryGrows
  <2> QED BY <1>1, <1>2, <2>1, CallAnswered, SameZones, MovesKeep
<1>3. CASE \E z \in ZoneIds :
             /\ zones[z].status = "none" /\ zones' = [zones EXCEPT ![z] = record]
             /\ vouched' = IF verified THEN vouched \cup {z} ELSE vouched
  <2>1. PICK z \in ZoneIds :
            /\ zones[z].status = "none" /\ zones' = [zones EXCEPT ![z] = record]
            /\ vouched' = IF verified THEN vouched \cup {z} ELSE vouched
    BY <1>3
  <2>2. record.verified = verified /\ record.status = "pending"
    BY DEF NewZone
  <2> HIDE DEF record
  <2>3. ZoneProven(z, record, proven', vouched')
    BY <2>1, <2>2 DEF ZoneProven, ServingStatuses
  <2>4. HistoryGrows
    BY <1>1, <2>1 DEF HistoryGrows
  <2>5. ZonesMove
    BY <2>1, <2>3 DEF ProvenInv, ZonesMove
  <2> QED BY <1>1, <2>4, <2>5, CallAnswered, MovesKeep
<1> QED BY <1>2, <1>3 DEF InsertZone

\* VerifyDomainDNS: the domain first, ...
LEMMA ProveKeeps ==
    ASSUME ProvenInv, NEW c \in Calls, NEW found \in BOOLEAN, ProveDomain(c, found)
    PROVE  ProvenInv'
<1> DEFINE d == calls[c].domain
           state == [step |-> "list", domain |-> d]
<1>1. /\ zones' = zones
      /\ \/ Answer(c) /\ UNCHANGED attested
         \/ /\ calls' = [calls EXCEPT ![c] = state]
            /\ proven' = IF calls[c].own THEN proven \cup {d} ELSE proven
            /\ vouched' = IF calls[c].own THEN vouched ELSE vouched \cup {d}
  BY DEF ProveDomain, Goto
<1>2. CASE Answer(c) /\ UNCHANGED attested
  BY <1>1, <1>2, CallAnswered, SameHistory, SameZones, MovesKeep
<1>3. CASE /\ calls' = [calls EXCEPT ![c] = state]
           /\ proven' = IF calls[c].own THEN proven \cup {d} ELSE proven
           /\ vouched' = IF calls[c].own THEN vouched ELSE vouched \cup {d}
  <2>1. HistoryGrows /\ Backed(d, proven', vouched')
    BY <1>3 DEF HistoryGrows, Backed
  <2>2. CallProven(state, zones', proven', vouched')
    BY <2>1 DEF CallProven
  <2> HIDE DEF state, d
  <2>3. CallsMove
    BY <1>3, <2>2, CallMoves
  <2> QED BY <1>1, <2>1, <2>3, SameZones, MovesKeep
<1> QED BY <1>1, <1>2, <1>3

\* ... then the zones under it, ...
LEMMA ListKeeps ==
    ASSUME ProvenInv, NEW c \in Calls, ListZones(c)
    PROVE  ProvenInv'
<1> DEFINE under == {z \in ZoneIds : Live(z) /\ zones[z].domain = calls[c].domain}
           state(page) == [step |-> "cascade", domain |-> calls[c].domain, failed |-> {},
                           todo |-> page, listed |-> [z \in page |-> zones[z].version]]
<1>1. zones' = zones /\ UNCHANGED attested
  BY DEF ListZones
<1>2. PICK page \in SUBSET under : calls' = [calls EXCEPT ![c] = state(page)]
  BY DEF ListZones, Goto
<1>3. Backed(calls[c].domain, proven', vouched')
  BY <1>1 DEF ListZones, ProvenInv, CallProven, attested
<1>4. \A z \in page : z \in ZoneIds /\ zones[z].status # "none" /\ zones[z].domain = calls[c].domain
  BY DEF Live
<1>5. CallProven(state(page), zones', proven', vouched')
  BY <1>1, <1>3, <1>4 DEF CallProven
<1> HIDE DEF state
<1>6. CallsMove
  BY <1>2, <1>5, CallMoves
<1> QED BY <1>1, <1>6, SameHistory, SameZones, MovesKeep

\* ... one by one.
LEMMA CascadeKeeps ==
    ASSUME ProvenInv, NEW c \in Calls, NEW z \in ZoneIds, NEW fails \in BOOLEAN,
           CascadeOnto(c, z, fails)
    PROVE  ProvenInv'
<1> DEFINE record == [host |-> zones[z].host, domain |-> zones[z].domain,
                      status |-> zones[z].status, verified |-> TRUE,
                      hasConfig |-> zones[z].hasConfig, version |-> zones[z].version + 1]
           state == [step |-> "cascade", domain |-> calls[c].domain,
                     failed |-> IF fails THEN calls[c].failed \cup {z} ELSE calls[c].failed,
                     todo |-> calls[c].todo \ {z}, listed |-> calls[c].listed]
<1>1. /\ UNCHANGED attested /\ calls[c].step = "cascade" /\ z \in calls[c].todo
      /\ calls' = [calls EXCEPT ![c] = state]
      /\ IF fails THEN UNCHANGED zones ELSE Write(z, calls[c].listed[z], record)
  BY DEF CascadeOnto, Goto
<1>2. /\ Backed(calls[c].domain, proven', vouched')
      /\ \A y \in calls[c].todo : /\ y \in ZoneIds /\ zones[y].status # "none"
                                  /\ zones[y].domain = calls[c].domain \/ y \in vouched'
  BY <1>1 DEF ProvenInv, CallProven, attested
<1>3. ZonesMove
  <2>1. /\ ZoneProven(z, record, proven', vouched')
        /\ record.status # "none" /\ record.domain = zones[z].domain
    BY <1>1, <1>2 DEF ZoneProven
  <2> HIDE DEF record
  <2> QED BY <1>1, <2>1, SameZones, WriteMoves
<1>4. CallProven(state, zones', proven', vouched')
  <2>1. \A y \in ZoneIds : zones[y].status # "none" =>
            /\ zones'[y].status # "none"
            /\ zones'[y].domain = zones[y].domain \/ y \in vouched'
    BY <1>3 DEF ZonesMove
  <2>2. \A y \in calls[c].todo \ {z} :
            /\ y \in ZoneIds /\ zones'[y].status # "none"
            /\ zones'[y].domain = calls[c].domain \/ y \in vouched'
    BY <1>2, <2>1
  <2> QED BY <1>1, <1>2, <2>2 DEF CallProven
<1> HIDE DEF state
<1>5. CallsMove
  BY <1>1, <1>4, CallMoves
<1> QED BY <1>1, <1>3, <1>5, SameHistory, MovesKeep

\* SyncConfigState writes one flag and keeps the rest of the zone.
LEMMA SyncKeeps ==
    ASSUME ProvenInv, NEW c \in Calls, CountFirewallRules(c) \/ RereadZone(c) \/ WriteFlag(c)
    PROVE  ProvenInv'
<1>1. UNCHANGED attested
  BY DEF CountFirewallRules, RereadZone, WriteFlag
<1>2. CASE CountFirewallRules(c)
  <2>1. zones' = zones /\ CallsMove
    BY <1>2, CallMoves DEF CountFirewallRules, Goto, CallProven
  <2> QED BY <1>1, <2>1, SameHistory, SameZones, MovesKeep
<1>3. CASE RereadZone(c)
  <2>1. zones' = zones
    BY <1>3 DEF RereadZone
  <2> DEFINE state == [step |-> "flag", zone |-> calls[c].zone, hasConfig |-> calls[c].hasConfig,
                       version |-> zones[calls[c].zone].version]
  <2>2. Answer(c) \/ calls' = [calls EXCEPT ![c] = state]
    BY <1>3 DEF RereadZone, Goto
  <2>3. CallProven(state, zones', proven', vouched')
    BY DEF CallProven
  <2> HIDE DEF state
  <2>4. CallsMove
    BY <2>2, <2>3, CallAnswered, CallMoves
  <2> QED BY <1>1, <2>1, <2>4, SameHistory, SameZones, MovesKeep
<1>4. CASE WriteFlag(c)
  <2> DEFINE z == calls[c].zone
             record == [host |-> zones[z].host, domain |-> zones[z].domain,
                        status |-> zones[z].status, verified |-> zones[z].verified,
                        hasConfig |-> calls[c].hasConfig, version |-> zones[z].version + 1]
  <2>1. Answer(c) /\ Write(z, calls[c].version, record)
    BY <1>4 DEF WriteFlag
  <2>2. z \in ZoneIds /\ Live(z) =>
            /\ ZoneProven(z, record, proven', vouched')
            /\ record.status # "none" /\ record.domain = zones[z].domain
    BY <1>1 DEF ProvenInv, ZoneProven, Live, attested
  <2> HIDE DEF record, z
  <2>3. ZonesMove
    BY <2>1, <2>2, WriteMoves
  <2> QED BY <1>1, <2>1, <2>3, CallAnswered, SameHistory, MovesKeep
<1> QED BY <1>2, <1>3, <1>4

\* A transition: "activate" needs the zone verified, and every other one
\* starts from a zone that has been activated.
LEMMA ActKeeps ==
    ASSUME ProvenInv, NEW c \in Calls, NEW to, ActOnZone(c, to)
    PROVE  ProvenInv'
<1> DEFINE z == calls[c].zone
           record == [host |-> zones[z].host, domain |-> zones[z].domain, status |-> to,
                      verified |-> zones[z].verified, hasConfig |-> zones[z].hasConfig,
                      version |-> zones[z].version + 1]
<1>1. /\ UNCHANGED attested /\ Answer(c) /\ Write(z, calls[c].version, record)
      /\ <<calls[c].action, zones[z].status, to>> \in Workflow
      /\ GuardHolds(zones[z], calls[c].action)
  BY DEF ActOnZone
<1>2. z \in ZoneIds /\ Live(z) =>
          /\ ZoneProven(z, record, proven', vouched')
          /\ record.status # "none" /\ record.domain = zones[z].domain
  <2> SUFFICES ASSUME z \in ZoneIds, Live(z)
               PROVE  /\ ZoneProven(z, record, proven', vouched')
                      /\ record.status # "none" /\ record.domain = zones[z].domain
    OBVIOUS
  <2>1. ZoneProven(z, zones[z], proven, vouched)
    BY DEF ProvenInv
  <2>2. /\ to # "none"
        /\ to \in ServingStatuses => zones[z].verified \/ zones[z].status \in ServingStatuses
    BY <1>1 DEF Workflow, GuardHolds, Live, ServingStatuses
  <2> QED BY <1>1, <2>1, <2>2 DEF ZoneProven, attested
<1> HIDE DEF record, z
<1>3. ZonesMove
  BY <1>1, <1>2, WriteMoves
<1> QED BY <1>1, <1>3, CallAnswered, SameHistory, MovesKeep

\* An update: what it verifies or moves, the client speaks for.
LEMMA EditKeeps ==
    ASSUME ProvenInv, NEW c \in Calls, NEW h, NEW d, NEW verified \in BOOLEAN,
           NEW hasConfig \in BOOLEAN, EditZone(c, h, d, verified, hasConfig)
    PROVE  ProvenInv'
<1> DEFINE z == calls[c].zone
           record == [host |-> h, domain |-> d, status |-> zones[z].status,
                      verified |-> verified, hasConfig |-> hasConfig,
                      version |-> zones[z].version + 1]
           own == d # zones[z].domain \/ (verified /\ ~ zones[z].verified)
<1>1. /\ Answer(c) /\ proven' = proven
      /\ \/ UNCHANGED <<zones, vouched>>
         \/ /\ zones' = [zones EXCEPT ![z] = record] /\ Live(z)
            /\ vouched' = IF own THEN vouched \cup {z} ELSE vouched
  BY DEF EditZone
<1>2. HistoryGrows
  BY <1>1 DEF HistoryGrows
<1>3. CASE UNCHANGED zones
  BY <1>1, <1>2, <1>3, CallAnswered, SameZones, MovesKeep
<1>4. CASE /\ zones' = [zones EXCEPT ![z] = record] /\ Live(z)
           /\ vouched' = IF own THEN vouched \cup {z} ELSE vouched
  <2>1. /\ record.status = zones[z].status /\ record.verified = verified /\ record.domain = d
        /\ record.status # "none"
    BY <1>4 DEF Live
  <2>2. z \in ZoneIds => ZoneProven(z, record, proven', vouched')
    <3>1. CASE own
      BY <1>4, <3>1 DEF ZoneProven
    <3>2. CASE ~ own
      <4>1. z \in ZoneIds => ZoneProven(z, zones[z], proven, vouched)
        BY DEF ProvenInv
      <4> QED BY <1>1, <1>4, <2>1, <3>2, <4>1 DEF ZoneProven
    <3> QED BY <3>1, <3>2
  <2>3. record.domain = zones[z].domain \/ z \in vouched'
    BY <1>4, <2>1
  <2> HIDE DEF record, z, own
  <2>4. ZonesMove
    BY <1>4, <2>1, <2>2, <2>3 DEF ProvenInv, ZonesMove
  <2> QED BY <1>1, <1>2, <2>4, CallAnswered, MovesKeep
<1> QED BY <1>1, <1>3, <1>4

\* Delete: a deleted zone keeps its domain and is not served.
LEMMA DeleteKeeps ==
    ASSUME ProvenInv, NEW c \in Calls,
           (\E reachable \in BOOLEAN : CheckReference(c, reachable)) \/ DeleteZone(c)
    PROVE  ProvenInv'
<1>1. UNCHANGED attested
  BY DEF CheckReference, DeleteZone
<1>2. CASE \E reachable \in BOOLEAN : CheckReference(c, reachable)
  <2> DEFINE state == [step |-> "delete", zone |-> calls[c].zone,
                       version |-> calls[c].version, unchecked |-> Tail(calls[c].unchecked)]
  <2>1. zones' = zones /\ (Answer(c) \/ calls' = [calls EXCEPT ![c] = state])
    BY <1>2 DEF CheckReference, Goto
  <2>2. CallProven(state, zones', proven', vouched')
    BY DEF CallProven
  <2> HIDE DEF state
  <2>3. CallsMove
    BY <2>1, <2>2, CallAnswered, CallMoves
  <2> QED BY <1>1, <2>1, <2>3, SameHistory, SameZones, MovesKeep
<1>3. CASE DeleteZone(c)
  <2> DEFINE z == calls[c].zone
             record == [host |-> zones[z].host, domain |-> zones[z].domain, status |-> "deleted",
                        verified |-> zones[z].verified, hasConfig |-> zones[z].hasConfig,
                        version |-> zones[z].version]
  <2>1. Answer(c) /\ Write(z, calls[c].version, record)
    BY <1>3 DEF DeleteZone
  <2>2. z \in ZoneIds /\ Live(z) =>
            /\ ZoneProven(z, record, proven', vouched')
            /\ record.status # "none" /\ record.domain = zones[z].domain
    BY <1>1 DEF ProvenInv, ZoneProven, ServingStatuses, attested
  <2> HIDE DEF record, z
  <2>3. ZonesMove
    BY <2>1, <2>2, WriteMoves
  <2> QED BY <1>1, <2>1, <2>3, CallAnswered, SameHistory, MovesKeep
<1> QED BY <1>2, <1>3

LEMMA StepKeepsProven ==
    ASSUME ProvenInv, [ZoneLifecycleNext]_vars
    PROVE  ProvenInv'
<1>1. ASSUME UNCHANGED <<zones, calls>>, HistoryGrows
      PROVE  ProvenInv'
  <2>1. CallsMove
    BY <1>1 DEF ProvenInv, CallsMove
  <2> QED BY <1>1, <2>1, SameZones, MovesKeep
<1>2. ASSUME NEW c \in Calls, NEW h \in Hosts, StartCreate(c, h)
      PROVE  ProvenInv'
  <2> DEFINE state(d) == [step |-> "insert", host |-> h, domain |-> d]
             none == [step |-> "domain", host |-> h]
  <2>1. /\ UNCHANGED <<zones, attested>>
        /\ BeginWatched(c, none, watch) \/ \E d : BeginWatched(c, state(d), watch)
    BY <1>2 DEF StartCreate, Begin
  <2>2. none.step = "domain" /\ \A d : state(d).step = "insert"
    OBVIOUS
  <2> HIDE DEF state, none
  <2> QED BY <2>1, <2>2, BeginKeeps
<1>3. ASSUME NEW c \in Calls, NEW d \in DomainIds, NEW own \in BOOLEAN, StartVerify(c, d, own)
      PROVE  ProvenInv'
  BY <1>3, BeginKeeps DEF StartVerify, Begin
<1>4. ASSUME NEW c \in Calls, NEW z \in ZoneIds, StartSync(c, z)
      PROVE  ProvenInv'
  <2> DEFINE state == [step |-> "firewall", zone |-> z, hasConfig |-> "ddos" \in policies[z]]
  <2>1. state.step \notin {"list", "cascade"}
    OBVIOUS
  <2>2. (\E watched : BeginWatched(c, state, watched)) /\ UNCHANGED <<zones, attested>>
    BY <1>4 DEF StartSync
  <2> HIDE DEF state
  <2> QED BY <2>1, <2>2, BeginKeeps
<1>5. ASSUME NEW c \in Calls, NEW z \in ZoneIds, StartDelete(c, z)
      PROVE  ProvenInv'
  <2> DEFINE state == [step |-> "delete", zone |-> z, version |-> zones[z].version,
                       unchecked |-> Checks]
  <2>1. state.step \notin {"list", "cascade"}
    OBVIOUS
  <2>2. (\E watched : BeginWatched(c, state, watched)) /\ UNCHANGED <<zones, attested>>
    BY <1>5 DEF StartDelete
  <2> HIDE DEF state
  <2> QED BY <2>1, <2>2, BeginKeeps
<1>6. ASSUME NEW c \in Calls, NEW z \in ZoneIds, NEW action \in Actions, ShowZone(c, z, action)
      PROVE  ProvenInv'
  BY <1>6, BeginKeeps DEF ShowZone, Begin
<1>7. ASSUME NEW c \in Calls, EndVerify(c) \/ Abandon(c)
      PROVE  ProvenInv'
  <2>1. Answer(c) /\ UNCHANGED <<zones, attested>>
    BY <1>7 DEF EndVerify, Abandon
  <2> QED BY <2>1, CallAnswered, SameHistory, SameZones, MovesKeep
<1>8. ASSUME \/ \E d \in DomainIds, a \in Apexes, verified \in BOOLEAN :
                    WriteDomain(d, a, verified)
             \/ \E z \in ZoneIds, e \in {"ddos", "firewall"} : ChangePolicy(z, e)
             \/ \E z \in ZoneIds, e \in Entities : Refer(e, z) \/ Release(e, z)
      PROVE  ProvenInv'
  BY <1>1, <1>8 DEF WriteDomain, ChangePolicy, Refer, Release, HistoryGrows, attested
<1>9. CASE UNCHANGED vars
  BY <1>1, <1>9 DEF vars, HistoryGrows
<1>10. CASE ZoneLifecycleNext
  BY <1>2, <1>3, <1>4, <1>5, <1>6, <1>7, <1>8, <1>10, CreateDomainKeeps, InsertKeeps,
     ProveKeeps, ListKeeps, CascadeKeeps, SyncKeeps, ActKeeps, EditKeeps, DeleteKeeps DEF ZoneLifecycleNext
<1> QED BY <1>9, <1>10

\* A zone leaves "pending" only under a domain whose own token was found in the
\* DNS, or on a client's word for the zone or the domain: although the guard
\* reads a copy that a cascade of separate writes keeps, and although
\* verifications, renames, moves, transitions, syncs and deletions of any number
\* of requests run between those writes (VerifyDomainDNS, activateGuard).
THEOREM ServedZonesAreProven == ZoneLifecycleSpec => []ServedIsProven
<1>1. ProvenInv => ServedIsProven
  BY DEF ProvenInv, ZoneProven, Backed, ServedIsProven, Serving, ServingStatuses
<1> QED BY <1>1, InitProven, StepKeepsProven, PTL DEF ZoneLifecycleSpec

----------------------------------------------------------------------------
(* The records: their types, and the cascade that passes over no zone.     *)
(*                                                                         *)
(* A zone a cascade is done with was verified by it, or was not at the     *)
(* version listed when its turn came; and versions only grow.              *)

LiveStatuses == {"pending", "active", "paused", "suspended"}

DomainRecords == [there : BOOLEAN, apex : Apexes \cup {<<>>}, verified : BOOLEAN, version : Nat]

ZoneRecords ==
    [host : Hosts \cup {<<>>}, domain : DomainIds \cup {<<>>},
     status : LiveStatuses \cup {"none", "deleted"},
     verified : BOOLEAN, hasConfig : BOOLEAN, version : Nat]

\* A zone the cascade is done with, and whose own write did not fail.
Passed(zone, listed) ==
    zone.verified \/ zone.status \in {"none", "deleted"} \/ zone.version > listed

\* The part of a cascade's page that is still to be done, and the rest of it.
Cascading(call, zs) ==
    /\ call.todo \subseteq DOMAIN call.listed /\ DOMAIN call.listed \subseteq ZoneIds
    /\ \A z \in DOMAIN call.listed :
        /\ call.listed[z] \in Nat
        /\ zs[z].status # "none" /\ zs[z].version >= call.listed[z]
        /\ z \notin call.todo \cup call.failed => Passed(zs[z], call.listed[z])

\* What is still to be asked before a zone is deleted.
Remaining == {Checks, <<"incidents", "security_events">>, <<"security_events">>, <<>>}

CallTyped(call, zs) ==
    /\ call.step \in {"domain", "insert"} => call.host \in Hosts
    /\ call.step \in {"insert", "prove", "list", "cascade"} => call.domain \in DomainIds
    /\ call.step = "cascade" => Cascading(call, zs)
    /\ call.step \in {"firewall", "reread", "flag", "act", "delete"} => call.zone \in ZoneIds
    /\ call.step \in {"firewall", "reread", "flag"} => call.hasConfig \in BOOLEAN
    /\ call.step = "delete" => call.unchecked \in Remaining

RecordInv ==
    /\ domains \in [DomainIds -> DomainRecords]
    /\ zones \in [ZoneIds -> ZoneRecords]
    /\ proven \subseteq DomainIds /\ vouched \subseteq ZoneIds \cup DomainIds
    /\ refs \in [Entities -> SUBSET ZoneIds]
    /\ DOMAIN calls = Calls
    /\ \A c \in Calls : CallTyped(calls[c], zones)

\* A record is created once, and grows until it is deleted.
Moved(old, new) ==
    \/ new = old
    \/ old.status = "none" /\ new.status = "pending"
    \/ /\ old.status \in LiveStatuses
       /\ \/ new.status \in LiveStatuses /\ new.version = old.version + 1
          \/ new.status = "deleted" /\ new.version = old.version

RecordsMove ==
    /\ zones' \in [ZoneIds -> ZoneRecords]
    /\ \A z \in ZoneIds : Moved(zones[z], zones'[z])

\* What is known of others' records and of the past keeps its type.
OthersMove ==
    /\ domains' \in [DomainIds -> DomainRecords] /\ refs' \in [Entities -> SUBSET ZoneIds]
    /\ proven' \subseteq DomainIds /\ vouched' \subseteq ZoneIds \cup DomainIds

\* A request stays as it is, or moves to a state of its handler.
RequestsMove ==
    /\ DOMAIN calls' = Calls
    /\ \A c \in Calls : calls'[c] = calls[c] \/ CallTyped(calls'[c], zones')

\* The entities that are among the checks still to be made.
StillAsked(unchecked) == {e \in Entities : \E i \in 1..Len(unchecked) : unchecked[i] = e}

\* What remains after one more check.
LEMMA TailRemains ==
    \A unchecked \in Remaining : unchecked # <<>> =>
        /\ Tail(unchecked) \in Remaining
        /\ StillAsked(unchecked) \subseteq StillAsked(Tail(unchecked)) \cup {Head(unchecked)}
<1>1. \A s \in Seq(Entities) : s # <<>> =>
          StillAsked(s) \subseteq StillAsked(Tail(s)) \cup {Head(s)}
  <2> SUFFICES ASSUME NEW s \in Seq(Entities), s # <<>>, NEW i \in 1..Len(s), i # 1
               PROVE  i - 1 \in 1..Len(Tail(s)) /\ Tail(s)[i - 1] = s[i]
    BY DEF StillAsked
  <2> QED OBVIOUS
<1>2. /\ Tail(<<"scan_jobs", "incidents", "security_events">>) = <<"incidents", "security_events">>
      /\ Tail(<<"incidents", "security_events">>) = <<"security_events">>
      /\ Tail(<<"security_events">>) = <<>>
  OBVIOUS
<1>3. \A unchecked \in Remaining : unchecked \in Seq(Entities)
  <2>1. /\ "scan_jobs" \in Entities /\ "incidents" \in Entities
        /\ "security_events" \in Entities
    BY DEF Entities
  <2>2. /\ <<"scan_jobs", "incidents", "security_events">> \in Seq(Entities)
        /\ <<"incidents", "security_events">> \in Seq(Entities)
        /\ <<"security_events">> \in Seq(Entities) /\ <<>> \in Seq(Entities)
    BY <2>1
  <2> QED BY <2>2 DEF Remaining, Checks
<1>4. \A unchecked \in Remaining : unchecked # <<>> => Tail(unchecked) \in Remaining
  BY <1>2 DEF Remaining, Checks
<1> QED BY <1>1, <1>3, <1>4

LEMMA NewZoneTyped ==
    \A h \in Hosts, d \in DomainIds, verified, hasConfig \in BOOLEAN :
        /\ NewZone(h, d, verified, hasConfig) \in ZoneRecords
        /\ NewZone(h, d, verified, hasConfig).status = "pending"
BY DEF NewZone, ZoneRecords, LiveStatuses

LEMMA SameOthers ==
    ASSUME RecordInv, UNCHANGED <<domains, refs, attested>> PROVE OthersMove
BY DEF RecordInv, OthersMove, attested

\* What a cascade knows of a zone stays true of it.
LEMMA CascadingStays ==
    ASSUME RecordInv, RecordsMove, NEW call, Cascading(call, zones)
    PROVE  Cascading(call, zones')
<1> SUFFICES ASSUME NEW z \in DOMAIN call.listed
             PROVE  /\ zones'[z].status # "none" /\ zones'[z].version >= call.listed[z]
                    /\ Passed(zones[z], call.listed[z]) => Passed(zones'[z], call.listed[z])
  BY DEF Cascading
<1>1. /\ z \in ZoneIds /\ call.listed[z] \in Nat
      /\ zones[z].status # "none" /\ zones[z].version >= call.listed[z]
  BY DEF Cascading
<1>2. /\ zones[z] \in ZoneRecords /\ zones'[z] \in ZoneRecords
      /\ Moved(zones[z], zones'[z])
  BY <1>1 DEF RecordInv, RecordsMove
<1>3. CASE zones'[z] = zones[z]
  BY <1>1, <1>3
<1>4. CASE /\ zones[z].status \in LiveStatuses /\ zones'[z].status \in LiveStatuses
           /\ zones'[z].version = zones[z].version + 1
  <2>1. zones[z].version \in Nat /\ zones'[z].version > call.listed[z]
    BY <1>1, <1>2, <1>4 DEF ZoneRecords
  <2> QED BY <1>1, <1>4, <2>1 DEF Passed, LiveStatuses
<1>5. CASE zones'[z].status = "deleted" /\ zones'[z].version = zones[z].version
  BY <1>1, <1>2, <1>5 DEF Passed
<1> QED BY <1>1, <1>2, <1>3, <1>4, <1>5 DEF Moved

LEMMA RecordsKept ==
    ASSUME RecordInv, RecordsMove, RequestsMove, OthersMove
    PROVE  RecordInv'
<1>1. \A c \in Calls : CallTyped(calls'[c], zones')
  <2> SUFFICES ASSUME NEW c \in Calls PROVE CallTyped(calls'[c], zones')
    OBVIOUS
  <2>1. CASE calls'[c] = calls[c]
    <3>1. CallTyped(calls[c], zones)
      BY DEF RecordInv
    <3>2. calls[c].step = "cascade" => Cascading(calls[c], zones')
      BY <3>1, CascadingStays DEF CallTyped
    <3> QED BY <2>1, <3>1, <3>2 DEF CallTyped
  <2> QED BY <2>1 DEF RequestsMove
<1> QED BY <1>1 DEF RecordInv, RecordsMove, RequestsMove, OthersMove

LEMMA SameRecords == ASSUME RecordInv, zones' = zones PROVE RecordsMove
BY DEF RecordInv, RecordsMove, Moved

LEMMA RequestMoves ==
    ASSUME RecordInv, NEW c \in Calls, NEW state, calls' = [calls EXCEPT ![c] = state],
           CallTyped(state, zones')
    PROVE  RequestsMove
BY DEF RecordInv, RequestsMove

LEMMA RequestAnswered ==
    ASSUME RecordInv, NEW c \in Calls, Answer(c)
    PROVE  RequestsMove
<1>1. CallTyped(Idle, zones')
  BY DEF CallTyped, Idle
<1> QED BY <1>1, RequestMoves DEF Answer

\* A versioned write of a live zone's record.
LEMMA RecordWritten ==
    ASSUME RecordInv, NEW z \in ZoneIds, NEW version, NEW record, Write(z, version, record),
           Live(z) => record \in ZoneRecords /\ Moved(zones[z], record)
    PROVE  RecordsMove
<1>1. zones' = [zones EXCEPT ![z] =
                   IF Live(z) /\ zones[z].version = version THEN record ELSE zones[z]]
  BY DEF Write
<1>2. CASE Live(z) /\ zones[z].version = version
  BY <1>1, <1>2 DEF RecordInv, RecordsMove, Moved
<1>3. CASE ~ (Live(z) /\ zones[z].version = version)
  BY <1>1, <1>3 DEF RecordInv, RecordsMove, Moved
<1> QED BY <1>2, <1>3

\* A record of a zone that is live, rewritten with its names as they were.
LEMMA Rewritten ==
    ASSUME RecordInv, NEW z \in ZoneIds, Live(z),
           NEW status \in LiveStatuses, NEW verified \in BOOLEAN, NEW hasConfig \in BOOLEAN,
           NEW record,
           record = [host |-> zones[z].host, domain |-> zones[z].domain, status |-> status,
                     verified |-> verified, hasConfig |-> hasConfig,
                     version |-> zones[z].version + 1]
    PROVE  record \in ZoneRecords /\ Moved(zones[z], record)
<1>1. zones[z] \in ZoneRecords /\ zones[z].status \in LiveStatuses
  BY DEF RecordInv, Live, ZoneRecords
<1>2. zones[z].version + 1 \in Nat
  BY <1>1 DEF ZoneRecords
<1> QED BY <1>1, <1>2 DEF ZoneRecords, Moved

LEMMA InitRecords == ZoneLifecycleInit => RecordInv
<1> SUFFICES ASSUME ZoneLifecycleInit PROVE RecordInv
  OBVIOUS
<1>1. NoZone \in ZoneRecords
  BY DEF NoZone, ZoneRecords, LiveStatuses
<1>2. \A z \in ZoneIds : zones[z] \in ZoneRecords
  <2> SUFFICES ASSUME NEW z \in DOMAIN Created
               PROVE  NewZone(Created[z], CHOOSE d \in DOMAIN Known :
                                  Known[d] = ApexDomain(Created[z]), FALSE, FALSE) \in ZoneRecords
    BY <1>1 DEF ZoneLifecycleInit
  <2>1. /\ Created[z] \in Hosts
        /\ (CHOOSE d \in DOMAIN Known : Known[d] = ApexDomain(Created[z])) \in DomainIds
    BY ZoneLifecycleAssumption
  <2> QED BY <2>1, NewZoneTyped
<1>3. domains \in [DomainIds -> DomainRecords]
  <2>1. NoDomain \in DomainRecords /\ \A a \in Apexes : Unverified(a) \in DomainRecords
    BY DEF NoDomain, Unverified, DomainRecords
  <2> QED BY <2>1, ZoneLifecycleAssumption DEF ZoneLifecycleInit
<1>4. \A c \in Calls : CallTyped(calls[c], zones)
  BY DEF ZoneLifecycleInit, CallTyped, Idle
<1> QED BY <1>2, <1>3, <1>4 DEF ZoneLifecycleInit, RecordInv

\* Requests that begin.
LEMMA BeginRecords ==
    ASSUME RecordInv, NEW c \in Calls, NEW state, NEW watched,
           BeginWatched(c, state, watched), UNCHANGED <<domains, zones, refs, attested>>,
           CallTyped(state, zones)
    PROVE  RecordInv'
<1>1. RequestsMove
  BY RequestMoves DEF BeginWatched
<1> QED BY <1>1, RecordsKept, SameRecords, SameOthers

LEMMA CreateDomainRecords ==
    ASSUME RecordInv, NEW c \in Calls, CreateDomain(c)
    PROVE  RecordInv'
<1> DEFINE apex == ApexDomain(calls[c].host)
           state(d) == [step |-> "insert", host |-> calls[c].host, domain |-> d]
<1>1. /\ calls[c].host \in Hosts /\ UNCHANGED <<zones, refs, attested>>
      /\ apex \in Apexes
  BY DEF RecordInv, CallTyped, CreateDomain, Apexes
<1>2. CASE Answer(c) /\ UNCHANGED domains
  BY <1>1, <1>2, RequestAnswered, SameRecords, SameOthers, RecordsKept
<1>3. CASE \E d \in DomainIds : /\ domains' = [domains EXCEPT ![d] = Unverified(apex)]
                                /\ calls' = [calls EXCEPT ![c] = state(d)]
  <2>1. PICK d \in DomainIds : /\ domains' = [domains EXCEPT ![d] = Unverified(apex)]
                               /\ calls' = [calls EXCEPT ![c] = state(d)]
    BY <1>3
  <2>2. CallTyped(state(d), zones')
    BY <1>1 DEF CallTyped
  <2>3. Unverified(apex) \in DomainRecords
    BY <1>1 DEF Unverified, DomainRecords
  <2> HIDE DEF apex, state
  <2>4. domains' \in [DomainIds -> DomainRecords]
    BY <2>1, <2>3 DEF RecordInv
  <2>5. OthersMove
    BY <1>1, <2>4 DEF OthersMove, RecordInv, attested
  <2> QED BY <1>1, <2>1, <2>2, <2>5, RequestMoves, SameRecords, RecordsKept
<1> QED BY <1>2, <1>3 DEF CreateDomain, Goto

LEMMA InsertRecords ==
    ASSUME RecordInv, NEW c \in Calls, NEW verified \in BOOLEAN, NEW hasConfig \in BOOLEAN,
           InsertZone(c, verified, hasConfig)
    PROVE  RecordInv'
<1> DEFINE record == NewZone(calls[c].host, calls[c].domain, verified, hasConfig)
<1>1. /\ record \in ZoneRecords /\ record.status = "pending"
      /\ UNCHANGED <<domains, refs, proven>> /\ Answer(c)
  BY NewZoneTyped DEF RecordInv, CallTyped, InsertZone
<1>2. CASE UNCHANGED <<zones, vouched>>
  BY <1>1, <1>2, RequestAnswered, SameRecords, SameOthers, RecordsKept DEF attested
<1>3. CASE \E z \in ZoneIds :
             /\ zones[z].status = "none" /\ zones' = [zones EXCEPT ![z] = record]
             /\ vouched' = IF verified THEN vouched \cup {z} ELSE vouched
  <2>1. PICK z \in ZoneIds :
            /\ zones[z].status = "none" /\ zones' = [zones EXCEPT ![z] = record]
            /\ vouched' = IF verified THEN vouched \cup {z} ELSE vouched
    BY <1>3
  <2> HIDE DEF record
  <2>2. RecordsMove
    BY <1>1, <2>1 DEF RecordInv, RecordsMove, Moved
  <2>3. OthersMove
    BY <1>1, <2>1 DEF OthersMove, RecordInv
  <2> QED BY <1>1, <2>2, <2>3, RequestAnswered, RecordsKept
<1> QED BY <1>2, <1>3 DEF InsertZone

LEMMA ProveRecords ==
    ASSUME RecordInv, NEW c \in Calls, NEW found \in BOOLEAN, ProveDomain(c, found)
    PROVE  RecordInv'
<1> DEFINE d == calls[c].domain
           record == [there |-> TRUE, apex |-> domains[d].apex, verified |-> TRUE,
                      version |-> domains[d].version + 1]
           state == [step |-> "list", domain |-> d]
<1>1. /\ zones' = zones /\ refs' = refs /\ d \in DomainIds
      /\ \/ Answer(c) /\ UNCHANGED <<domains, attested>>
         \/ /\ domains' = [domains EXCEPT ![d] = record]
            /\ calls' = [calls EXCEPT ![c] = state]
            /\ proven' \subseteq proven \cup {d} /\ vouched' \subseteq vouched \cup {d}
  BY DEF ProveDomain, Goto, RecordInv, CallTyped
<1>2. CASE Answer(c) /\ UNCHANGED <<domains, attested>>
  BY <1>1, <1>2, RequestAnswered, SameRecords, SameOthers, RecordsKept
<1>3. CASE /\ domains' = [domains EXCEPT ![d] = record]
           /\ calls' = [calls EXCEPT ![c] = state]
           /\ proven' \subseteq proven \cup {d} /\ vouched' \subseteq vouched \cup {d}
  <2>1. CallTyped(state, zones')
    BY <1>1 DEF CallTyped
  <2>2. record \in DomainRecords
    BY <1>1 DEF RecordInv, DomainRecords
  <2> HIDE DEF d, record, state
  <2>3. domains' \in [DomainIds -> DomainRecords]
    BY <1>3, <2>2 DEF RecordInv
  <2>4. OthersMove
    BY <1>1, <1>3, <2>3 DEF OthersMove, RecordInv
  <2> QED BY <1>1, <1>3, <2>1, <2>4, RequestMoves, SameRecords, RecordsKept
<1> QED BY <1>1, <1>2, <1>3

\* The page that is listed: nothing of it is done.
LEMMA ListRecords ==
    ASSUME RecordInv, NEW c \in Calls, ListZones(c)
    PROVE  RecordInv'
<1> DEFINE under == {z \in ZoneIds : Live(z) /\ zones[z].domain = calls[c].domain}
           state(page) == [step |-> "cascade", domain |-> calls[c].domain, failed |-> {},
                           todo |-> page, listed |-> [z \in page |-> zones[z].version]]
<1>1. UNCHANGED <<domains, zones, refs, attested>> /\ calls[c].domain \in DomainIds
  BY DEF ListZones, RecordInv, CallTyped
<1>2. PICK page \in SUBSET under : calls' = [calls EXCEPT ![c] = state(page)]
  BY DEF ListZones, Goto
<1>3. \A z \in page : /\ z \in ZoneIds /\ zones[z].status # "none"
                      /\ zones[z].version \in Nat
  BY DEF Live, RecordInv, ZoneRecords
<1>4. Cascading(state(page), zones')
  BY <1>1, <1>3 DEF Cascading
<1>5. CallTyped(state(page), zones')
  BY <1>1, <1>4 DEF CallTyped
<1> HIDE DEF state
<1>6. RequestsMove
  BY <1>2, <1>5, RequestMoves
<1> QED BY <1>1, <1>6, SameRecords, RecordsKept, SameOthers

\* One zone is done: it was verified, or had been written or deleted since it
\* was listed, or its own write failed.
LEMMA CascadeRecords ==
    ASSUME RecordInv, NEW c \in Calls, NEW z \in ZoneIds, NEW fails \in BOOLEAN,
           CascadeOnto(c, z, fails)
    PROVE  RecordInv'
<1> DEFINE record == [host |-> zones[z].host, domain |-> zones[z].domain,
                      status |-> zones[z].status, verified |-> TRUE,
                      hasConfig |-> zones[z].hasConfig, version |-> zones[z].version + 1]
           state == [step |-> "cascade", domain |-> calls[c].domain,
                     failed |-> IF fails THEN calls[c].failed \cup {z} ELSE calls[c].failed,
                     todo |-> calls[c].todo \ {z}, listed |-> calls[c].listed]
<1>1. /\ UNCHANGED <<domains, refs, attested>> /\ calls[c].step = "cascade" /\ z \in calls[c].todo
      /\ calls' = [calls EXCEPT ![c] = state]
      /\ IF fails THEN UNCHANGED zones ELSE Write(z, calls[c].listed[z], record)
  BY DEF CascadeOnto, Goto
<1>2. calls[c].domain \in DomainIds /\ Cascading(calls[c], zones)
  BY <1>1 DEF RecordInv, CallTyped
<1>3. RecordsMove
  <2>1. Live(z) => record \in ZoneRecords /\ Moved(zones[z], record)
    BY Rewritten DEF RecordInv, ZoneRecords, Live
  <2> HIDE DEF record
  <2> QED BY <1>1, <2>1, SameRecords, RecordWritten
<1>4. Cascading(calls[c], zones')
  BY <1>2, <1>3, CascadingStays
<1>5. ~ fails => Passed(zones'[z], calls[c].listed[z])
  <2> SUFFICES ASSUME ~ fails PROVE Passed(zones'[z], calls[c].listed[z])
    OBVIOUS
  <2>1. /\ zones[z] \in ZoneRecords /\ z \in DOMAIN calls[c].listed
        /\ calls[c].listed[z] \in Nat /\ zones[z].version >= calls[c].listed[z]
    BY <1>1, <1>2 DEF Cascading, RecordInv
  <2>2. CASE Live(z) /\ zones[z].version = calls[c].listed[z]
    <3>1. zones'[z] = record /\ record.verified
      BY <1>1, <2>2 DEF Write, RecordInv
    <3> QED BY <3>1 DEF Passed
  <2>3. CASE ~ (Live(z) /\ zones[z].version = calls[c].listed[z])
    <3>1. zones'[z] = zones[z]
      BY <1>1, <2>3 DEF Write, RecordInv
    <3>2. zones[z].version # calls[c].listed[z] => zones[z].version > calls[c].listed[z]
      BY <2>1 DEF ZoneRecords
    <3> QED BY <2>3, <3>1, <3>2 DEF Passed, Live
  <2> QED BY <2>2, <2>3
<1>6. CallTyped(state, zones')
  <2>1. Cascading(state, zones')
    BY <1>1, <1>4, <1>5 DEF Cascading
  <2> QED BY <1>2, <2>1 DEF CallTyped
<1> HIDE DEF state
<1>7. RequestsMove
  BY <1>1, <1>6, RequestMoves
<1> QED BY <1>1, <1>3, <1>7, RecordsKept, SameOthers

LEMMA SyncRecords ==
    ASSUME RecordInv, NEW c \in Calls, CountFirewallRules(c) \/ RereadZone(c) \/ WriteFlag(c)
    PROVE  RecordInv'
<1>1. /\ UNCHANGED <<domains, refs, attested>>
      /\ calls[c].zone \in ZoneIds /\ calls[c].hasConfig \in BOOLEAN
  BY DEF CountFirewallRules, RereadZone, WriteFlag, RecordInv, CallTyped
<1>2. CASE CountFirewallRules(c)
  <2> DEFINE state == [step |-> "reread", zone |-> calls[c].zone,
                       hasConfig |-> calls[c].hasConfig \/ "firewall" \in policies[calls[c].zone]]
  <2>1. zones' = zones /\ calls' = [calls EXCEPT ![c] = state]
    BY <1>2 DEF CountFirewallRules, Goto
  <2>2. CallTyped(state, zones')
    BY <1>1 DEF CallTyped
  <2> HIDE DEF state
  <2> QED BY <1>1, <2>1, <2>2, RequestMoves, SameRecords, RecordsKept, SameOthers
<1>3. CASE RereadZone(c)
  <2> DEFINE state == [step |-> "flag", zone |-> calls[c].zone, hasConfig |-> calls[c].hasConfig,
                       version |-> zones[calls[c].zone].version]
  <2>1. zones' = zones /\ (Answer(c) \/ calls' = [calls EXCEPT ![c] = state])
    BY <1>3 DEF RereadZone, Goto
  <2>2. CallTyped(state, zones')
    BY <1>1 DEF CallTyped
  <2> HIDE DEF state
  <2> QED BY <1>1, <2>1, <2>2, RequestAnswered, RequestMoves, SameRecords, RecordsKept, SameOthers
<1>4. CASE WriteFlag(c)
  <2> DEFINE z == calls[c].zone
             record == [host |-> zones[z].host, domain |-> zones[z].domain,
                        status |-> zones[z].status, verified |-> zones[z].verified,
                        hasConfig |-> calls[c].hasConfig, version |-> zones[z].version + 1]
  <2>1. Answer(c) /\ Write(z, calls[c].version, record)
    BY <1>4 DEF WriteFlag
  <2>2. Live(z) => record \in ZoneRecords /\ Moved(zones[z], record)
    BY <1>1, Rewritten DEF RecordInv, ZoneRecords, Live
  <2> HIDE DEF record
  <2>3. RecordsMove
    BY <1>1, <2>1, <2>2, RecordWritten
  <2> QED BY <1>1, <2>1, <2>3, RequestAnswered, RecordsKept, SameOthers
<1> QED BY <1>2, <1>3, <1>4

LEMMA ActRecords ==
    ASSUME RecordInv, NEW c \in Calls, NEW to \in LiveStatuses, ActOnZone(c, to)
    PROVE  RecordInv'
<1> DEFINE z == calls[c].zone
           record == [host |-> zones[z].host, domain |-> zones[z].domain, status |-> to,
                      verified |-> zones[z].verified, hasConfig |-> zones[z].hasConfig,
                      version |-> zones[z].version + 1]
<1>1. /\ UNCHANGED <<domains, refs, attested>> /\ z \in ZoneIds
      /\ Answer(c) /\ Write(z, calls[c].version, record)
  BY DEF ActOnZone, RecordInv, CallTyped
<1>2. Live(z) => record \in ZoneRecords /\ Moved(zones[z], record)
  BY <1>1, Rewritten DEF RecordInv, ZoneRecords
<1> HIDE DEF record
<1>3. RecordsMove
  BY <1>1, <1>2, RecordWritten
<1> QED BY <1>1, <1>3, RequestAnswered, RecordsKept, SameOthers

LEMMA EditRecords ==
    ASSUME RecordInv, NEW c \in Calls, NEW h \in Hosts, NEW d \in DomainIds,
           NEW verified \in BOOLEAN, NEW hasConfig \in BOOLEAN,
           EditZone(c, h, d, verified, hasConfig)
    PROVE  RecordInv'
<1> DEFINE z == calls[c].zone
           record == [host |-> h, domain |-> d, status |-> zones[z].status,
                      verified |-> verified, hasConfig |-> hasConfig,
                      version |-> zones[z].version + 1]
<1>1. /\ UNCHANGED <<domains, refs, proven>> /\ z \in ZoneIds /\ Answer(c)
      /\ \/ UNCHANGED <<zones, vouched>>
         \/ /\ zones' = [zones EXCEPT ![z] = record] /\ Live(z)
            /\ vouched' \subseteq vouched \cup {z}
  BY DEF EditZone, RecordInv, CallTyped
<1>2. OthersMove
  BY <1>1 DEF OthersMove, RecordInv
<1>3. RecordsMove
  <2>1. CASE UNCHANGED zones
    BY <2>1, SameRecords
  <2>2. CASE zones' = [zones EXCEPT ![z] = record] /\ Live(z)
    <3>1. zones[z] \in ZoneRecords /\ zones[z].status \in LiveStatuses
      BY <1>1, <2>2 DEF RecordInv, Live, ZoneRecords
    <3>2. zones[z].version + 1 \in Nat
      BY <3>1 DEF ZoneRecords
    <3>3. record \in ZoneRecords /\ Moved(zones[z], record)
      BY <3>1, <3>2 DEF ZoneRecords, Moved
    <3> HIDE DEF record, z
    <3> QED BY <1>1, <2>2, <3>3 DEF RecordInv, RecordsMove, Moved
  <2> QED BY <1>1, <2>1, <2>2
<1> QED BY <1>1, <1>2, <1>3, RequestAnswered, RecordsKept

LEMMA DeleteRecords ==
    ASSUME RecordInv, NEW c \in Calls,
           (\E reachable \in BOOLEAN : CheckReference(c, reachable)) \/ DeleteZone(c)
    PROVE  RecordInv'
<1>1. /\ UNCHANGED <<domains, refs, attested>>
      /\ calls[c].zone \in ZoneIds /\ calls[c].unchecked \in Remaining
  BY DEF CheckReference, DeleteZone, RecordInv, CallTyped
<1>2. CASE \E reachable \in BOOLEAN : CheckReference(c, reachable)
  <2> DEFINE state == [step |-> "delete", zone |-> calls[c].zone,
                       version |-> calls[c].version, unchecked |-> Tail(calls[c].unchecked)]
  <2>1. /\ zones' = zones /\ calls[c].unchecked # <<>>
        /\ Answer(c) \/ calls' = [calls EXCEPT ![c] = state]
    BY <1>2 DEF CheckReference, Goto
  <2>2. Tail(calls[c].unchecked) \in Remaining
    BY <1>1, <2>1, TailRemains
  <2>3. CallTyped(state, zones')
    BY <1>1, <2>2 DEF CallTyped
  <2> HIDE DEF state
  <2> QED BY <1>1, <2>1, <2>3, RequestAnswered, RequestMoves, SameRecords, RecordsKept, SameOthers
<1>3. CASE DeleteZone(c)
  <2> DEFINE z == calls[c].zone
             record == [host |-> zones[z].host, domain |-> zones[z].domain, status |-> "deleted",
                        verified |-> zones[z].verified, hasConfig |-> zones[z].hasConfig,
                        version |-> zones[z].version]
  <2>1. Answer(c) /\ Write(z, calls[c].version, record)
    BY <1>3 DEF DeleteZone
  <2>2. Live(z) => record \in ZoneRecords /\ Moved(zones[z], record)
    BY <1>1 DEF RecordInv, ZoneRecords, Live, Moved, LiveStatuses
  <2> HIDE DEF record
  <2>3. RecordsMove
    BY <1>1, <2>1, <2>2, RecordWritten
  <2> QED BY <1>1, <2>1, <2>3, RequestAnswered, RecordsKept, SameOthers
<1> QED BY <1>2, <1>3

LEMMA StepKeepsRecords ==
    ASSUME RecordInv, [ZoneLifecycleNext]_vars
    PROVE  RecordInv'
<1>1. ASSUME UNCHANGED <<zones, calls>>, OthersMove
      PROVE  RecordInv'
  <2>1. RequestsMove
    BY <1>1 DEF RecordInv, RequestsMove
  <2> QED BY <1>1, <2>1, SameRecords, RecordsKept
<1>2. ASSUME NEW c \in Calls, NEW h \in Hosts, StartCreate(c, h)
      PROVE  RecordInv'
  <2> DEFINE state(d) == [step |-> "insert", host |-> h, domain |-> d]
             none == [step |-> "domain", host |-> h]
  <2>1. CallTyped(none, zones) /\ \A d \in DomainIds : CallTyped(state(d), zones)
    BY DEF CallTyped
  <2>2. /\ UNCHANGED <<domains, zones, refs, attested>>
        /\ BeginWatched(c, none, watch) \/ \E d \in DomainIds : BeginWatched(c, state(d), watch)
    BY <1>2 DEF StartCreate, Begin, Named
  <2> HIDE DEF state, none
  <2> QED BY <2>1, <2>2, BeginRecords
<1>3. ASSUME NEW c \in Calls, NEW d \in DomainIds, NEW own \in BOOLEAN, StartVerify(c, d, own)
      PROVE  RecordInv'
  <2> DEFINE state == [step |-> "prove", domain |-> d, own |-> own,
                       version |-> domains[d].version]
  <2>1. CallTyped(state, zones)
    BY DEF CallTyped
  <2>2. BeginWatched(c, state, watch) /\ UNCHANGED <<domains, zones, refs, attested>>
    BY <1>3 DEF StartVerify, Begin
  <2> HIDE DEF state
  <2> QED BY <2>1, <2>2, BeginRecords
<1>4. ASSUME NEW c \in Calls, NEW z \in ZoneIds, StartSync(c, z)
      PROVE  RecordInv'
  <2> DEFINE state == [step |-> "firewall", zone |-> z, hasConfig |-> "ddos" \in policies[z]]
  <2>1. CallTyped(state, zones)
    BY DEF CallTyped
  <2>2. (\E watched : BeginWatched(c, state, watched)) /\ UNCHANGED <<domains, zones, refs, attested>>
    BY <1>4 DEF StartSync
  <2> HIDE DEF state
  <2> QED BY <2>1, <2>2, BeginRecords
<1>5. ASSUME NEW c \in Calls, NEW z \in ZoneIds, StartDelete(c, z)
      PROVE  RecordInv'
  <2> DEFINE state == [step |-> "delete", zone |-> z, version |-> zones[z].version,
                       unchecked |-> Checks]
  <2>1. CallTyped(state, zones)
    BY DEF CallTyped, Remaining
  <2>2. (\E watched : BeginWatched(c, state, watched)) /\ UNCHANGED <<domains, zones, refs, attested>>
    BY <1>5 DEF StartDelete
  <2> HIDE DEF state
  <2> QED BY <2>1, <2>2, BeginRecords
<1>6. ASSUME NEW c \in Calls, NEW z \in ZoneIds, NEW action \in Actions, ShowZone(c, z, action)
      PROVE  RecordInv'
  <2> DEFINE state == [step |-> "act", zone |-> z, action |-> action,
                       version |-> zones[z].version]
  <2>1. CallTyped(state, zones)
    BY DEF CallTyped
  <2>2. BeginWatched(c, state, watch) /\ UNCHANGED <<domains, zones, refs, attested>>
    BY <1>6 DEF ShowZone, Begin
  <2> HIDE DEF state
  <2> QED BY <2>1, <2>2, BeginRecords
<1>7. ASSUME NEW c \in Calls, EndVerify(c) \/ Abandon(c)
      PROVE  RecordInv'
  <2>1. Answer(c) /\ UNCHANGED <<domains, zones, refs, attested>>
    BY <1>7 DEF EndVerify, Abandon
  <2> QED BY <2>1, RequestAnswered, SameRecords, RecordsKept, SameOthers
<1>8. ASSUME \/ \E z \in ZoneIds, e \in {"ddos", "firewall"} : ChangePolicy(z, e)
             \/ \E z \in ZoneIds, e \in Entities : Refer(e, z) \/ Release(e, z)
      PROVE  RecordInv'
  <2>1. UNCHANGED <<domains, zones, calls, attested>> /\ refs' \in [Entities -> SUBSET ZoneIds]
    BY <1>8 DEF RecordInv, ChangePolicy, Refer, Release
  <2>2. OthersMove
    BY <2>1 DEF OthersMove, RecordInv, attested
  <2> QED BY <1>1, <2>1, <2>2
<1>9. ASSUME NEW d \in DomainIds, NEW a \in Apexes, NEW verified \in BOOLEAN,
             WriteDomain(d, a, verified)
      PROVE  RecordInv'
  <2> DEFINE record == [there |-> TRUE, apex |-> a, verified |-> verified,
                        version |-> domains[d].version + 1]
  <2>1. record \in DomainRecords
    BY DEF RecordInv, DomainRecords
  <2>2. /\ UNCHANGED <<zones, calls, refs, proven>> /\ vouched' = vouched \cup {d}
        /\ domains' = [domains EXCEPT ![d] = record]
    BY <1>9 DEF WriteDomain
  <2> HIDE DEF record
  <2>3. OthersMove
    BY <2>1, <2>2 DEF OthersMove, RecordInv
  <2> QED BY <1>1, <2>2, <2>3
<1>10. CASE UNCHANGED vars
  <2>1. UNCHANGED <<domains, refs, attested, zones, calls>>
    BY <1>10 DEF vars, attested
  <2> QED BY <1>1, <2>1, SameOthers
<1>11. ASSUME NEW c \in Calls, \E to \in LiveStatuses : ActOnZone(c, to)
       PROVE  RecordInv'
  BY <1>11, ActRecords
<1>12. CASE ZoneLifecycleNext
  BY <1>2, <1>3, <1>4, <1>5, <1>6, <1>7, <1>8, <1>9, <1>11, <1>12, CreateDomainRecords,
     InsertRecords, ProveRecords, ListRecords, CascadeRecords, SyncRecords, EditRecords,
     DeleteRecords DEF ZoneLifecycleNext, LiveStatuses
<1> QED BY <1>10, <1>12

\* The records of zones and domains, and the rows that name zones, keep their
\* types, and who stands behind them is a zone or a domain: what every handler
\* and every client writes (routes.go, guardedbackend.go).
THEOREM RecordsAreTyped == ZoneLifecycleSpec => []ZoneTypeOK
<1>1. RecordInv => ZoneTypeOK
  BY DEF RecordInv, ZoneTypeOK, DomainRecords, ZoneRecords, LiveStatuses
<1> QED BY <1>1, InitRecords, StepKeepsRecords, PTL DEF ZoneLifecycleSpec

\* VerifyDomainDNS leaves no zone of the page it listed unverified, unless that
\* zone was written or deleted in between or its own write failed: whatever
\* other requests do between the writes of the loop.
THEOREM CascadesPassNoZone == ZoneLifecycleSpec => []CascadePassesNoZone
<1>1. RecordInv => CascadePassesNoZone
  BY DEF RecordInv, CascadePassesNoZone, CallTyped, Cascading, Passed, Live
<1> QED BY <1>1, InitRecords, StepKeepsRecords, PTL DEF ZoneLifecycleSpec

----------------------------------------------------------------------------
(* The flag and the references: what a sync has counted is what there is,  *)
(* as long as nothing changed since it began; and a check of a delete that *)
(* was passed found no row that is still held against it.                  *)

SyncSteps == {"firewall", "reread", "flag"}

\* What a sync at this step should have counted.
Counted(call, pols) ==
    IF call.step = "firewall" THEN "ddos" \in pols[call.zone] ELSE pols[call.zone] # {}

HistoryTyped ==
    /\ watch \in [Calls -> [fresh : BOOLEAN, alone : BOOLEAN, held : SUBSET Entities]]
    /\ policies \in [ZoneIds -> SUBSET {"ddos", "firewall"}]
    /\ synced \in [ZoneIds -> {"alone", "overlapped", "no"}]

\* A sync since whose beginning nothing changed has counted right, one that is
\* marked alone is, and after a sync that was, none that began before the last
\* change is left.
SyncInv ==
    /\ \A z \in ZoneIds : zones[z].status = "none" => policies[z] = {}
    /\ \A c \in Calls : calls[c].step \in SyncSteps =>
        /\ watch[c].fresh => (calls[c].hasConfig <=> Counted(calls[c], policies))
        /\ watch[c].alone => \A d \in Calls :
               calls[d].step \in SyncSteps /\ calls[d].zone = calls[c].zone => d = c
        /\ synced[calls[c].zone] = "alone" => watch[c].fresh
    /\ \A z \in ZoneIds : zones[z].status \in LiveStatuses /\ synced[z] = "alone" =>
        (zones[z].hasConfig <=> policies[z] # {})

HeldInv ==
    \A c \in Calls : calls[c].step = "delete" =>
        /\ \A e \in watch[c].held : calls[c].zone \in refs[e]
        /\ watch[c].held \subseteq StillAsked(calls[c].unchecked)

HistoryInv == HistoryTyped /\ SyncInv /\ HeldInv

\* No flag of a live zone changes, and a new zone has no flag, or the zone is
\* marked: its flag is a client's.
FlagsKept ==
    \A z \in ZoneIds :
        /\ zones'[z].status = "none" => zones[z].status = "none"
        /\ zones'[z].status \in LiveStatuses =>
              \/ zones[z].status \in LiveStatuses /\ zones'[z].hasConfig = zones[z].hasConfig
              \/ zones[z].status = "none" /\ zones'[z].hasConfig = FALSE
              \/ synced'[z] = "no"

\* No sync has succeeded.
MarksKept == \A z \in ZoneIds : synced'[z] = synced[z] \/ synced'[z] = "no"

\* No sync begins or moves on, and what is known of it stays.
SyncsKept ==
    \A c \in Calls : calls'[c].step \in SyncSteps =>
        /\ calls'[c] = calls[c]
        /\ watch'[c].fresh = watch[c].fresh /\ watch'[c].alone = watch[c].alone

\* No delete begins or moves on.
DeletesKept ==
    \A c \in Calls : calls'[c].step = "delete" =>
        calls'[c] = calls[c] /\ watch'[c].held = watch[c].held

LEMMA SyncStays ==
    ASSUME RecordInv, SyncInv, FlagsKept, MarksKept, SyncsKept, UNCHANGED policies
    PROVE  SyncInv'
<1>1. \A z \in ZoneIds : zones'[z].status = "none" => policies'[z] = {}
  BY DEF SyncInv, FlagsKept
<1>2. ASSUME NEW c \in Calls, calls'[c].step \in SyncSteps
      PROVE  /\ calls[c].step \in SyncSteps /\ calls'[c] = calls[c]
             /\ watch'[c].fresh = watch[c].fresh /\ watch'[c].alone = watch[c].alone
             /\ calls[c].zone \in ZoneIds
  BY <1>2 DEF SyncsKept, RecordInv, CallTyped, SyncSteps
<1>3. ASSUME NEW c \in Calls, calls'[c].step \in SyncSteps, watch'[c].fresh
      PROVE  calls'[c].hasConfig <=> Counted(calls'[c], policies')
  <2>1. calls[c].step \in SyncSteps /\ calls'[c] = calls[c] /\ watch[c].fresh
    BY <1>2, <1>3
  <2>2. calls[c].hasConfig <=> Counted(calls[c], policies)
    BY <2>1 DEF SyncInv
  <2>3. policies' = policies
    OBVIOUS
  <2> QED BY <2>1, <2>2, <2>3 DEF Counted
<1>4. ASSUME NEW c \in Calls, calls'[c].step \in SyncSteps, watch'[c].alone,
             NEW d \in Calls, calls'[d].step \in SyncSteps, calls'[d].zone = calls'[c].zone
      PROVE  d = c
  BY <1>2, <1>4 DEF SyncInv
<1>5. ASSUME NEW c \in Calls, calls'[c].step \in SyncSteps, synced'[calls'[c].zone] = "alone"
      PROVE  watch'[c].fresh
  BY <1>2, <1>5 DEF SyncInv, MarksKept
<1>6. ASSUME NEW z \in ZoneIds, zones'[z].status \in LiveStatuses, synced'[z] = "alone"
      PROVE  zones'[z].hasConfig <=> policies'[z] # {}
  BY <1>6 DEF SyncInv, FlagsKept, MarksKept
<1> QED BY <1>1, <1>3, <1>4, <1>5, <1>6 DEF SyncInv, Counted

LEMMA HeldStays ==
    ASSUME HeldInv, DeletesKept, UNCHANGED refs
    PROVE  HeldInv'
<1> SUFFICES ASSUME NEW c \in Calls, calls'[c].step = "delete"
             PROVE  /\ \A e \in watch'[c].held : calls'[c].zone \in refs'[e]
                    /\ watch'[c].held \subseteq StillAsked(calls'[c].unchecked)
  BY DEF HeldInv
<1>1. calls'[c] = calls[c] /\ watch'[c].held = watch[c].held
  BY DEF DeletesKept
<1> QED BY <1>1 DEF HeldInv

LEMMA HistoryStays ==
    ASSUME RecordInv, HistoryInv, HistoryTyped', FlagsKept, MarksKept, SyncsKept, DeletesKept,
           UNCHANGED <<policies, refs>>
    PROVE  HistoryInv'
BY SyncStays, HeldStays DEF HistoryInv

LEMMA SameMarks == ASSUME synced' = synced PROVE MarksKept
BY DEF MarksKept

LEMMA SameFlags == ASSUME RecordInv, zones' = zones PROVE FlagsKept
BY DEF RecordInv, FlagsKept, ZoneRecords

\* A write that leaves the flag alone.
LEMMA FlagWritten ==
    ASSUME RecordInv, NEW z \in ZoneIds, NEW version, NEW record, Write(z, version, record),
           Live(z) => record.status # "none" /\ record.hasConfig = zones[z].hasConfig
    PROVE  FlagsKept
<1>1. zones' = [zones EXCEPT ![z] =
                   IF Live(z) /\ zones[z].version = version THEN record ELSE zones[z]]
  BY DEF Write
<1>2. CASE Live(z) /\ zones[z].version = version
  BY <1>1, <1>2 DEF RecordInv, ZoneRecords, FlagsKept, Live
<1>3. CASE ~ (Live(z) /\ zones[z].version = version)
  <2>1. zones' = zones
    BY <1>1, <1>3 DEF RecordInv
  <2> QED BY <2>1, SameFlags
<1> QED BY <1>2, <1>3

\* A request that begins, moves or ends, and is then no sync and no delete.
LEMMA OtherStep ==
    ASSUME RecordInv, HistoryInv, FlagsKept, MarksKept, UNCHANGED <<policies, refs>>,
           synced' \in [ZoneIds -> {"alone", "overlapped", "no"}],
           NEW c \in Calls, NEW state, calls' = [calls EXCEPT ![c] = state],
           watch' = watch \/ watch' = [watch EXCEPT ![c] = Unwatched],
           state.step \notin SyncSteps \cup {"delete"}
    PROVE  HistoryInv'
<1>1. HistoryTyped'
  <2>1. Unwatched \in [fresh : BOOLEAN, alone : BOOLEAN, held : SUBSET Entities]
    BY DEF Unwatched
  <2> QED BY <2>1 DEF HistoryInv, HistoryTyped
<1>2. \A d \in Calls : calls'[d].step \in SyncSteps \cup {"delete"} =>
          calls'[d] = calls[d] /\ watch'[d] = watch[d]
  BY DEF RecordInv, HistoryInv, HistoryTyped
<1> QED BY <1>1, <1>2, HistoryStays DEF SyncsKept, DeletesKept

LEMMA QuietStep ==
    ASSUME RecordInv, HistoryInv, FlagsKept, UNCHANGED <<policies, synced, refs>>,
           NEW c \in Calls, NEW state, calls' = [calls EXCEPT ![c] = state],
           watch' = watch \/ watch' = [watch EXCEPT ![c] = Unwatched],
           state.step \notin SyncSteps \cup {"delete"}
    PROVE  HistoryInv'
<1>1. MarksKept /\ synced' \in [ZoneIds -> {"alone", "overlapped", "no"}]
  BY SameMarks DEF HistoryInv, HistoryTyped
<1> QED BY <1>1, OtherStep

LEMMA QuietAnswer ==
    ASSUME RecordInv, HistoryInv, FlagsKept, UNCHANGED <<policies, synced, refs>>,
           NEW c \in Calls, Answer(c)
    PROVE  HistoryInv'
BY QuietStep DEF Answer, Idle, SyncSteps

\* A request that ends with a zone marked, or none.
LEMMA MarkedAnswer ==
    ASSUME RecordInv, HistoryInv, FlagsKept, UNCHANGED <<policies, refs>>,
           NEW c \in Calls, Answer(c), NEW z \in ZoneIds,
           synced' = synced \/ synced' = [synced EXCEPT ![z] = "no"]
    PROVE  HistoryInv'
<1>1. MarksKept /\ synced' \in [ZoneIds -> {"alone", "overlapped", "no"}]
  BY DEF MarksKept, HistoryInv, HistoryTyped
<1> QED BY <1>1, OtherStep DEF Answer, Idle, SyncSteps

LEMMA InitHistory == ZoneLifecycleInit => HistoryInv
<1> SUFFICES ASSUME ZoneLifecycleInit PROVE HistoryInv
  OBVIOUS
<1>1. HistoryTyped
  <2>1. Unwatched \in [fresh : BOOLEAN, alone : BOOLEAN, held : SUBSET Entities]
    BY DEF Unwatched
  <2> QED BY <2>1 DEF ZoneLifecycleInit, HistoryTyped
<1>2. \A c \in Calls : calls[c].step = "idle"
  BY DEF ZoneLifecycleInit, Idle
<1>3. \A z \in ZoneIds : policies[z] = {} /\ zones[z].hasConfig = FALSE
  BY DEF ZoneLifecycleInit, NewZone, NoZone
<1> QED BY <1>1, <1>2, <1>3 DEF HistoryInv, SyncInv, HeldInv, SyncSteps

\* Handlers that count and check nothing.
LEMMA VerifyHistory ==
    ASSUME RecordInv, HistoryInv, NEW c \in Calls,
           \/ CreateDomain(c) \/ ListZones(c)
           \/ \E found \in BOOLEAN : ProveDomain(c, found)
    PROVE  HistoryInv'
<1>1. UNCHANGED <<zones, policies, synced, refs>>
  BY DEF CreateDomain, ListZones, ProveDomain
<1>2. FlagsKept
  BY <1>1, SameFlags
<1>3. CASE CreateDomain(c)
  <2>1. PICK state : /\ state.step = "insert"
                     /\ Answer(c) \/ (calls' = [calls EXCEPT ![c] = state] /\ watch' = watch)
    <3> DEFINE state(d) == [step |-> "insert", host |-> calls[c].host, domain |-> d]
    <3>1. PICK d : Answer(c) \/ (calls' = [calls EXCEPT ![c] = state(d)] /\ watch' = watch)
      BY <1>3 DEF CreateDomain, Goto
    <3>2. state(d).step = "insert"
      OBVIOUS
    <3> HIDE DEF state
    <3> QED BY <3>1, <3>2
  <2>2. state.step \notin SyncSteps \cup {"delete"}
    BY <2>1 DEF SyncSteps
  <2> QED BY <1>1, <1>2, <2>1, <2>2, QuietStep, QuietAnswer
<1>4. CASE ListZones(c)
  <2>1. PICK state : /\ state.step = "cascade" /\ watch' = watch
                     /\ calls' = [calls EXCEPT ![c] = state]
    <3> DEFINE state(page) == [step |-> "cascade", domain |-> calls[c].domain, failed |-> {},
                               todo |-> page, listed |-> [z \in page |-> zones[z].version]]
    <3>1. PICK page : calls' = [calls EXCEPT ![c] = state(page)] /\ watch' = watch
      BY <1>4 DEF ListZones, Goto
    <3>2. state(page).step = "cascade"
      OBVIOUS
    <3> HIDE DEF state
    <3> QED BY <3>1, <3>2
  <2>2. state.step \notin SyncSteps \cup {"delete"}
    BY <2>1 DEF SyncSteps
  <2> QED BY <1>1, <1>2, <2>1, <2>2, QuietStep
<1>5. CASE \E found \in BOOLEAN : ProveDomain(c, found)
  <2> DEFINE state == [step |-> "list", domain |-> calls[c].domain]
  <2>1. Answer(c) \/ (calls' = [calls EXCEPT ![c] = state] /\ watch' = watch)
    BY <1>5 DEF ProveDomain, Goto
  <2>2. state.step \notin SyncSteps \cup {"delete"}
    BY DEF SyncSteps
  <2> HIDE DEF state
  <2> QED BY <1>1, <1>2, <2>1, <2>2, QuietStep, QuietAnswer
<1> QED BY <1>3, <1>4, <1>5

LEMMA CascadeHistory ==
    ASSUME RecordInv, HistoryInv, NEW c \in Calls, NEW z \in ZoneIds, NEW fails \in BOOLEAN,
           CascadeOnto(c, z, fails)
    PROVE  HistoryInv'
<1> DEFINE record == [host |-> zones[z].host, domain |-> zones[z].domain,
                      status |-> zones[z].status, verified |-> TRUE,
                      hasConfig |-> zones[z].hasConfig, version |-> zones[z].version + 1]
           state == [step |-> "cascade", domain |-> calls[c].domain,
                     failed |-> IF fails THEN calls[c].failed \cup {z} ELSE calls[c].failed,
                     todo |-> calls[c].todo \ {z}, listed |-> calls[c].listed]
<1>1. /\ UNCHANGED <<policies, synced, refs>> /\ watch' = watch
      /\ calls' = [calls EXCEPT ![c] = state]
      /\ IF fails THEN UNCHANGED zones ELSE Write(z, calls[c].listed[z], record)
  BY DEF CascadeOnto, Goto
<1>2. Live(z) => record.status # "none" /\ record.hasConfig = zones[z].hasConfig
  BY DEF Live
<1>3. state.step \notin SyncSteps \cup {"delete"}
  BY DEF SyncSteps
<1> HIDE DEF record, state
<1>4. FlagsKept
  BY <1>1, <1>2, SameFlags, FlagWritten
<1> QED BY <1>1, <1>3, <1>4, QuietStep

LEMMA InsertHistory ==
    ASSUME RecordInv, HistoryInv, NEW c \in Calls, NEW verified \in BOOLEAN,
           NEW hasConfig \in BOOLEAN, InsertZone(c, verified, hasConfig)
    PROVE  HistoryInv'
<1> DEFINE record == NewZone(calls[c].host, calls[c].domain, verified, hasConfig)
<1>1. UNCHANGED <<policies, refs>> /\ Answer(c)
  BY DEF InsertZone
<1>2. CASE UNCHANGED <<zones, synced>>
  BY <1>1, <1>2, SameFlags, QuietAnswer
<1>3. CASE \E z \in ZoneIds :
             /\ zones[z].status = "none" /\ zones' = [zones EXCEPT ![z] = record]
             /\ synced' = IF hasConfig THEN [synced EXCEPT ![z] = "no"] ELSE synced
  <2>1. PICK z \in ZoneIds :
            /\ zones[z].status = "none" /\ zones' = [zones EXCEPT ![z] = record]
            /\ synced' = IF hasConfig THEN [synced EXCEPT ![z] = "no"] ELSE synced
    BY <1>3
  <2>2. record.status = "pending" /\ record.hasConfig = hasConfig
    BY DEF NewZone
  <2>3. hasConfig => synced'[z] = "no"
    BY <2>1 DEF HistoryInv, HistoryTyped
  <2> HIDE DEF record
  <2>4. zones'[z] = record /\ \A y \in ZoneIds \ {z} : zones'[y] = zones[y]
    BY <2>1 DEF RecordInv
  <2>5. FlagsKept
    BY <2>1, <2>2, <2>3, <2>4 DEF FlagsKept, RecordInv, ZoneRecords
  <2> QED BY <1>1, <2>1, <2>5, MarkedAnswer
<1> QED BY <1>2, <1>3 DEF InsertZone

LEMMA ActHistory ==
    ASSUME RecordInv, HistoryInv, NEW c \in Calls, NEW to \in LiveStatuses, ActOnZone(c, to)
    PROVE  HistoryInv'
<1> DEFINE z == calls[c].zone
           record == [host |-> zones[z].host, domain |-> zones[z].domain, status |-> to,
                      verified |-> zones[z].verified, hasConfig |-> zones[z].hasConfig,
                      version |-> zones[z].version + 1]
<1>1. /\ UNCHANGED <<policies, synced, refs>> /\ z \in ZoneIds
      /\ Answer(c) /\ Write(z, calls[c].version, record)
  BY DEF ActOnZone, RecordInv, CallTyped
<1>2. record.status # "none" /\ record.hasConfig = zones[z].hasConfig
  BY DEF LiveStatuses
<1> HIDE DEF record
<1>3. FlagsKept
  BY <1>1, <1>2, FlagWritten
<1> QED BY <1>1, <1>3, QuietAnswer

\* An update of the flag marks the zone.
LEMMA EditHistory ==
    ASSUME RecordInv, HistoryInv, NEW c \in Calls, NEW h, NEW d, NEW verified \in BOOLEAN,
           NEW hasConfig \in BOOLEAN, EditZone(c, h, d, verified, hasConfig)
    PROVE  HistoryInv'
<1> DEFINE z == calls[c].zone
           record == [host |-> h, domain |-> d, status |-> zones[z].status,
                      verified |-> verified, hasConfig |-> hasConfig,
                      version |-> zones[z].version + 1]
<1>1. UNCHANGED <<policies, refs>> /\ Answer(c) /\ z \in ZoneIds
  BY DEF EditZone, RecordInv, CallTyped
<1>2. CASE UNCHANGED <<zones, synced>>
  BY <1>1, <1>2, SameFlags, QuietAnswer
<1>3. CASE /\ zones' = [zones EXCEPT ![z] = record] /\ Live(z)
           /\ synced' = IF hasConfig = zones[z].hasConfig THEN synced
                        ELSE [synced EXCEPT ![z] = "no"]
  <2>1. record.status = zones[z].status /\ record.hasConfig = hasConfig
    OBVIOUS
  <2>2. hasConfig # zones[z].hasConfig => synced'[z] = "no"
    BY <1>1, <1>3 DEF HistoryInv, HistoryTyped
  <2> HIDE DEF record, z
  <2>3. zones'[z] = record /\ \A y \in ZoneIds \ {z} : zones'[y] = zones[y]
    BY <1>1, <1>3 DEF RecordInv
  <2>4. FlagsKept
    BY <1>1, <1>3, <2>1, <2>2, <2>3 DEF FlagsKept, RecordInv, ZoneRecords, Live
  <2> QED BY <1>1, <1>3, <2>4, MarkedAnswer
<1> QED BY <1>2, <1>3 DEF EditZone

\* A client writes a domain.
LEMMA WriteDomainHistory ==
    ASSUME RecordInv, HistoryInv, UNCHANGED <<zones, policies, refs, calls, synced, watch>>
    PROVE  HistoryInv'
BY HistoryStays, SameFlags, SameMarks DEF HistoryInv, HistoryTyped, SyncsKept, DeletesKept

\* A delete: each check it passes is of an entity with no row of the zone, and
\* once all are passed nothing is held against it.
LEMMA DeleteHistory ==
    ASSUME RecordInv, HistoryInv, NEW c \in Calls,
           (\E reachable \in BOOLEAN : CheckReference(c, reachable)) \/ DeleteZone(c)
    PROVE  HistoryInv'
<1>1. UNCHANGED <<policies, synced, refs>> /\ calls[c].zone \in ZoneIds
  BY DEF CheckReference, DeleteZone, RecordInv, CallTyped
<1>2. CASE \E reachable \in BOOLEAN : CheckReference(c, reachable)
  <2> DEFINE left == Tail(calls[c].unchecked)
             state == [step |-> "delete", zone |-> calls[c].zone,
                       version |-> calls[c].version, unchecked |-> left]
  <2>1. /\ zones' = zones /\ calls[c].step = "delete" /\ calls[c].unchecked # <<>>
        /\ \/ Answer(c)
           \/ /\ calls' = [calls EXCEPT ![c] = state] /\ watch' = watch
              /\ calls[c].zone \notin refs[Head(calls[c].unchecked)]
    BY <1>2 DEF CheckReference, Goto
  <2>2. FlagsKept
    BY <2>1, SameFlags
  <2>3. StillAsked(calls[c].unchecked) \subseteq StillAsked(left) \cup {Head(calls[c].unchecked)}
    BY <2>1, TailRemains DEF RecordInv, CallTyped
  <2>4. CASE Answer(c)
    BY <1>1, <2>2, <2>4, QuietAnswer
  <2>5. CASE /\ calls' = [calls EXCEPT ![c] = state] /\ watch' = watch
             /\ calls[c].zone \notin refs[Head(calls[c].unchecked)]
    <3>1. /\ \A e \in watch[c].held : calls[c].zone \in refs[e]
          /\ watch[c].held \subseteq StillAsked(calls[c].unchecked)
      BY <2>1 DEF HistoryInv, HeldInv
    <3>2. watch[c].held \subseteq StillAsked(left)
      BY <2>3, <2>5, <3>1
    <3>3. /\ calls'[c] = state /\ \A d \in Calls : d # c => calls'[d] = calls[d]
          /\ state.step = "delete" /\ state.zone = calls[c].zone /\ state.unchecked = left
      BY <2>5 DEF RecordInv
    <3> HIDE DEF state, left
    <3>4. HeldInv'
      BY <1>1, <2>5, <3>1, <3>2, <3>3 DEF HistoryInv, HeldInv
    <3>5. SyncsKept
      BY <2>5, <3>3 DEF SyncsKept, SyncSteps
    <3> QED BY <1>1, <2>2, <2>5, <3>4, <3>5, SyncStays, SameMarks DEF HistoryInv, HistoryTyped
  <2> QED BY <2>1, <2>4, <2>5
<1>3. CASE DeleteZone(c)
  <2> DEFINE z == calls[c].zone
             record == [host |-> zones[z].host, domain |-> zones[z].domain, status |-> "deleted",
                        verified |-> zones[z].verified, hasConfig |-> zones[z].hasConfig,
                        version |-> zones[z].version]
  <2>1. Answer(c) /\ Write(z, calls[c].version, record)
    BY <1>3 DEF DeleteZone
  <2>2. record.status # "none" /\ record.hasConfig = zones[z].hasConfig
    OBVIOUS
  <2> HIDE DEF record
  <2>3. FlagsKept
    BY <1>1, <2>1, <2>2, FlagWritten
  <2> QED BY <1>1, <2>1, <2>3, QuietAnswer
<1> QED BY <1>2, <1>3

\* A sync ends: the flag of its zone is what it has counted.
LEMMA SyncEnds ==
    ASSUME RecordInv, HistoryInv, NEW c \in Calls, calls[c].step \in {"reread", "flag"},
           Answer(c), Synced(c), UNCHANGED <<policies, refs>>,
           \A z \in ZoneIds : zones'[z].status = zones[z].status,
           \A z \in ZoneIds \ {calls[c].zone} : zones'[z] = zones[z],
           zones'[calls[c].zone].hasConfig = calls[c].hasConfig
    PROVE  HistoryInv'
<1> DEFINE z == calls[c].zone
<1>1. z \in ZoneIds /\ calls[c].step \in SyncSteps
  BY DEF RecordInv, CallTyped, SyncSteps
<1>2. /\ watch[c].fresh => (calls[c].hasConfig <=> policies[z] # {})
      /\ watch[c].alone => \A d \in Calls :
             calls[d].step \in SyncSteps /\ calls[d].zone = z => d = c
      /\ synced[z] = "alone" => watch[c].fresh
  BY <1>1 DEF HistoryInv, SyncInv, Counted
<1>3. \A d \in Calls : calls'[d].step \in SyncSteps \cup {"delete"} =>
          d # c /\ calls'[d] = calls[d] /\ watch'[d] = watch[d]
  BY DEF Answer, Idle, SyncSteps, RecordInv, HistoryInv, HistoryTyped
<1>4. /\ \A y \in ZoneIds \ {z} : synced'[y] = synced[y]
      /\ synced'[z] = IF ~ watch[c].fresh THEN synced[z]
                      ELSE IF watch[c].alone THEN "alone"
                      ELSE IF synced[z] = "alone" THEN synced[z] ELSE "overlapped"
  BY <1>1 DEF Synced, HistoryInv, HistoryTyped
<1>5. HistoryTyped'
  <2>1. Unwatched \in [fresh : BOOLEAN, alone : BOOLEAN, held : SUBSET Entities]
    BY DEF Unwatched
  <2>2. synced' \in [ZoneIds -> {"alone", "overlapped", "no"}]
    BY <1>1 DEF Synced, HistoryInv, HistoryTyped
  <2> QED BY <2>1, <2>2 DEF Answer, HistoryInv, HistoryTyped
<1>6. DeletesKept
  BY <1>3 DEF DeletesKept
<1> HIDE DEF z
<1>7. ASSUME NEW d \in Calls, calls'[d].step \in SyncSteps, synced'[calls'[d].zone] = "alone"
      PROVE  watch'[d].fresh
  <2>1. d # c /\ calls'[d] = calls[d] /\ watch'[d] = watch[d] /\ calls[d].zone \in ZoneIds
    BY <1>3, <1>7 DEF RecordInv, CallTyped, SyncSteps
  <2>2. synced[calls[d].zone] = "alone"
    BY <1>2, <1>4, <1>7, <2>1
  <2> QED BY <1>7, <2>1, <2>2 DEF HistoryInv, SyncInv
<1>8. ASSUME NEW y \in ZoneIds, zones'[y].status \in LiveStatuses, synced'[y] = "alone"
      PROVE  zones'[y].hasConfig <=> policies'[y] # {}
  <2>1. CASE y = z
    <3>1. watch[c].fresh
      BY <1>2, <1>4, <1>8, <2>1
    <3>2. zones'[y].hasConfig = calls[c].hasConfig
      BY <2>1 DEF z
    <3> QED BY <1>2, <2>1, <3>1, <3>2
  <2>2. CASE y # z
    <3>1. zones'[y] = zones[y] /\ synced'[y] = synced[y]
      BY <1>4, <2>2 DEF z
    <3> QED BY <1>8, <3>1 DEF HistoryInv, SyncInv
  <2> QED BY <2>1, <2>2
<1>9. ASSUME NEW d \in Calls, calls'[d].step \in SyncSteps
      PROVE  /\ watch'[d].fresh => (calls'[d].hasConfig <=> Counted(calls'[d], policies'))
             /\ watch'[d].alone => \A e \in Calls :
                    calls'[e].step \in SyncSteps /\ calls'[e].zone = calls'[d].zone => e = d
  <2>1. calls'[d] = calls[d] /\ watch'[d] = watch[d]
    BY <1>3, <1>9
  <2>2. \A e \in Calls : calls'[e].step \in SyncSteps => calls'[e] = calls[e]
    BY <1>3
  <2>3. /\ watch[d].fresh => (calls[d].hasConfig <=> Counted(calls[d], policies))
        /\ watch[d].alone => \A e \in Calls :
               calls[e].step \in SyncSteps /\ calls[e].zone = calls[d].zone => e = d
    BY <1>9, <2>1 DEF HistoryInv, SyncInv
  <2>4. policies' = policies
    OBVIOUS
  <2>5. ASSUME watch'[d].alone, NEW e \in Calls, calls'[e].step \in SyncSteps,
               calls'[e].zone = calls'[d].zone
        PROVE  e = d
    BY <2>1, <2>2, <2>3, <2>5
  <2>6. Counted(calls'[d], policies') <=> Counted(calls[d], policies)
    BY <2>1, <2>4
  <2> QED BY <2>1, <2>3, <2>5, <2>6
<1>10. \A y \in ZoneIds : zones'[y].status = "none" => policies'[y] = {}
  BY DEF HistoryInv, SyncInv
<1>11. SyncInv'
  BY <1>7, <1>8, <1>9, <1>10 DEF SyncInv
<1> QED BY <1>5, <1>6, <1>11, HeldStays DEF HistoryInv

\* The steps of SyncConfigState after it began.
LEMMA SyncHistory ==
    ASSUME RecordInv, HistoryInv, NEW c \in Calls,
           CountFirewallRules(c) \/ RereadZone(c) \/ WriteFlag(c)
    PROVE  HistoryInv'
<1> DEFINE z == calls[c].zone
<1>1. /\ z \in ZoneIds /\ calls[c].hasConfig \in BOOLEAN /\ calls[c].step \in SyncSteps
      /\ UNCHANGED <<policies, refs>>
  BY DEF CountFirewallRules, RereadZone, WriteFlag, RecordInv, CallTyped, SyncSteps
<1>2. /\ watch[c].fresh => (calls[c].hasConfig <=> Counted(calls[c], policies))
      /\ watch[c].alone => \A d \in Calls :
             calls[d].step \in SyncSteps /\ calls[d].zone = z => d = c
      /\ synced[z] = "alone" => watch[c].fresh
  BY <1>1 DEF HistoryInv, SyncInv
<1>3. ASSUME NEW state, calls' = [calls EXCEPT ![c] = state], watch' = watch,
             UNCHANGED <<zones, synced>>, state.step \in SyncSteps, state.zone = z,
             watch[c].fresh => (state.hasConfig <=> Counted(state, policies))
      PROVE  HistoryInv'
  <2>1. calls'[c] = state /\ \A d \in Calls : d # c => calls'[d] = calls[d]
    BY <1>3 DEF RecordInv
  <2>2. DeletesKept
    BY <1>3, <2>1 DEF DeletesKept, SyncSteps
  <2>3. \A d \in Calls : calls'[d].step \in SyncSteps =>
            calls[d].step \in SyncSteps /\ calls'[d].zone = calls[d].zone
    BY <1>1, <1>3, <2>1
  <2>4. ASSUME NEW d \in Calls, calls'[d].step \in SyncSteps, watch'[d].fresh
        PROVE  calls'[d].hasConfig <=> Counted(calls'[d], policies')
    <3>1. policies' = policies /\ watch' = watch
      BY <1>1, <1>3
    <3>2. CASE d = c
      BY <1>3, <2>1, <2>4, <3>1, <3>2
    <3>3. CASE d # c
      BY <2>1, <2>4, <3>1, <3>3 DEF HistoryInv, SyncInv
    <3> QED BY <3>2, <3>3
  <2>5. ASSUME NEW d \in Calls, calls'[d].step \in SyncSteps
        PROVE  /\ watch'[d].alone => \A e \in Calls :
                      calls'[e].step \in SyncSteps /\ calls'[e].zone = calls'[d].zone => e = d
               /\ synced'[calls'[d].zone] = "alone" => watch'[d].fresh
    BY <1>3, <2>3, <2>5 DEF HistoryInv, SyncInv
  <2>6. /\ \A y \in ZoneIds : zones'[y].status = "none" => policies'[y] = {}
        /\ \A y \in ZoneIds : zones'[y].status \in LiveStatuses /\ synced'[y] = "alone" =>
               (zones'[y].hasConfig <=> policies'[y] # {})
    BY <1>1, <1>3 DEF HistoryInv, SyncInv
  <2>7. SyncInv'
    BY <2>4, <2>5, <2>6 DEF SyncInv
  <2> QED BY <1>1, <1>3, <2>2, <2>7, HeldStays DEF HistoryInv, HistoryTyped
<1>4. CASE CountFirewallRules(c)
  <2> DEFINE count == calls[c].hasConfig \/ "firewall" \in policies[z]
             state == [step |-> "reread", zone |-> z, hasConfig |-> count]
  <2>1. /\ calls' = [calls EXCEPT ![c] = state] /\ watch' = watch
        /\ UNCHANGED <<zones, synced>> /\ calls[c].step = "firewall"
    BY <1>4 DEF CountFirewallRules, Goto
  <2>2. state.step = "reread" /\ state.zone = z /\ state.hasConfig = count
    OBVIOUS
  <2>3. policies[z] \subseteq {"ddos", "firewall"}
    BY <1>1 DEF HistoryInv, HistoryTyped
  <2>4. watch[c].fresh => (count <=> policies[z] # {})
    BY <1>2, <2>1, <2>3 DEF Counted
  <2> HIDE DEF state, count
  <2>5. watch[c].fresh => (state.hasConfig <=> Counted(state, policies))
    BY <2>2, <2>4 DEF Counted
  <2>6. state.step \in SyncSteps
    BY <2>2 DEF SyncSteps
  <2> QED BY <1>3, <2>1, <2>2, <2>5, <2>6
<1>5. CASE RereadZone(c)
  <2> DEFINE state == [step |-> "flag", zone |-> z, hasConfig |-> calls[c].hasConfig,
                       version |-> zones[z].version]
  <2>1. /\ zones' = zones /\ calls[c].step = "reread"
        /\ \/ Answer(c) /\ synced' = synced
           \/ Answer(c) /\ Synced(c) /\ zones[z].hasConfig = calls[c].hasConfig
           \/ calls' = [calls EXCEPT ![c] = state] /\ watch' = watch /\ synced' = synced
    BY <1>5 DEF RereadZone, Goto
  <2>2. state.step = "flag" /\ state.zone = z /\ state.hasConfig = calls[c].hasConfig
    OBVIOUS
  <2> HIDE DEF state
  <2>3. CASE Answer(c) /\ synced' = synced
    BY <1>1, <2>1, <2>3, QuietAnswer, SameFlags
  <2>4. CASE Answer(c) /\ Synced(c) /\ zones[z].hasConfig = calls[c].hasConfig
    BY <1>1, <2>1, <2>4, SyncEnds
  <2>5. CASE calls' = [calls EXCEPT ![c] = state] /\ watch' = watch /\ synced' = synced
    <3>1. watch[c].fresh => (state.hasConfig <=> Counted(state, policies))
      BY <1>2, <2>1, <2>2 DEF Counted
    <3>2. state.step \in SyncSteps
      BY <2>2 DEF SyncSteps
    <3> QED BY <1>3, <2>1, <2>2, <2>5, <3>1, <3>2
  <2> QED BY <2>1, <2>3, <2>4, <2>5
<1>6. CASE WriteFlag(c)
  <2> DEFINE record == [host |-> zones[z].host, domain |-> zones[z].domain,
                        status |-> zones[z].status, verified |-> zones[z].verified,
                        hasConfig |-> calls[c].hasConfig, version |-> zones[z].version + 1]
  <2>1. /\ Answer(c) /\ Write(z, calls[c].version, record) /\ calls[c].step = "flag"
        /\ IF Live(z) /\ zones[z].version = calls[c].version
           THEN Synced(c) ELSE UNCHANGED synced
    BY <1>6 DEF WriteFlag
  <2>2. record.status = zones[z].status /\ record.hasConfig = calls[c].hasConfig
    OBVIOUS
  <2> HIDE DEF record
  <2>3. CASE Live(z) /\ zones[z].version = calls[c].version
    <3>1. zones' = [zones EXCEPT ![z] = record] /\ Synced(c)
      BY <2>1, <2>3 DEF Write
    <3>2. /\ \A y \in ZoneIds : zones'[y].status = zones[y].status
          /\ \A y \in ZoneIds \ {z} : zones'[y] = zones[y]
          /\ zones'[z].hasConfig = calls[c].hasConfig
      BY <1>1, <2>2, <3>1 DEF RecordInv
    <3> QED BY <1>1, <2>1, <3>1, <3>2, SyncEnds
  <2>4. CASE ~ (Live(z) /\ zones[z].version = calls[c].version)
    <3>1. zones' = zones /\ synced' = synced
      BY <1>1, <2>1, <2>4 DEF Write, RecordInv
    <3> QED BY <1>1, <2>1, <3>1, QuietAnswer, SameFlags
  <2> QED BY <2>3, <2>4
<1> QED BY <1>4, <1>5, <1>6

\* A sync that begins overlaps with those of its zone that are in progress.
LEMMA StartSyncHistory ==
    ASSUME RecordInv, HistoryInv, NEW c \in Calls, NEW z \in ZoneIds, StartSync(c, z)
    PROVE  HistoryInv'
<1> DEFINE begun == [fresh |-> TRUE, alone |-> Syncing(z) = {}, held |-> {}]
           state == [step |-> "firewall", zone |-> z, hasConfig |-> "ddos" \in policies[z]]
<1>1. /\ calls[c] = Idle /\ calls' = [calls EXCEPT ![c] = state]
      /\ watch' = [d \in Calls |-> CASE d = c -> begun
                                     [] d \in Syncing(z) -> [watch[d] EXCEPT !.alone = FALSE]
                                     [] OTHER -> watch[d]]
      /\ UNCHANGED <<zones, policies, refs, synced>>
  BY DEF StartSync, BeginWatched
<1>2. c \notin Syncing(z)
  BY <1>1 DEF Syncing, Idle
<1>3. /\ watch'[c] = begun /\ calls'[c] = state
      /\ \A d \in Calls : d # c =>
            /\ calls'[d] = calls[d] /\ watch'[d].fresh = watch[d].fresh
            /\ watch'[d].held = watch[d].held
            /\ watch'[d].alone => watch[d].alone /\ d \notin Syncing(z)
  BY <1>1, <1>2 DEF RecordInv, HistoryInv, HistoryTyped
<1>4. /\ state.step = "firewall" /\ state.zone = z
      /\ state.hasConfig <=> "ddos" \in policies[z]
      /\ begun.fresh /\ (begun.alone <=> Syncing(z) = {}) /\ begun.held = {}
  OBVIOUS
<1>5. HistoryTyped'
  <2>1. begun \in [fresh : BOOLEAN, alone : BOOLEAN, held : SUBSET Entities]
    OBVIOUS
  <2>2. \A d \in Calls : [watch[d] EXCEPT !.alone = FALSE]
                            \in [fresh : BOOLEAN, alone : BOOLEAN, held : SUBSET Entities]
    BY DEF HistoryInv, HistoryTyped
  <2> HIDE DEF begun, state
  <2> QED BY <1>1, <2>1, <2>2 DEF HistoryInv, HistoryTyped
<1> HIDE DEF begun, state
<1>6. DeletesKept
  BY <1>3, <1>4 DEF DeletesKept
<1>7. ASSUME NEW d \in Calls, calls'[d].step \in SyncSteps
      PROVE  /\ watch'[d].fresh => (calls'[d].hasConfig <=> Counted(calls'[d], policies'))
             /\ synced'[calls'[d].zone] = "alone" => watch'[d].fresh
  <2>1. CASE d = c
    <3>1. Counted(state, policies') <=> "ddos" \in policies[z]
      BY <1>1, <1>4 DEF Counted
    <3>2. watch'[d].fresh /\ calls'[d] = state
      BY <1>3, <1>4, <2>1
    <3> QED BY <1>4, <3>1, <3>2
  <2>2. CASE d # c
    <3>1. /\ watch[d].fresh => (calls[d].hasConfig <=> Counted(calls[d], policies))
          /\ synced[calls[d].zone] = "alone" => watch[d].fresh
      BY <1>3, <1>7, <2>2 DEF HistoryInv, SyncInv
    <3>2. calls'[d] = calls[d] /\ policies' = policies /\ synced' = synced
      BY <1>1, <1>3, <2>2
    <3>3. Counted(calls'[d], policies') <=> Counted(calls[d], policies)
      BY <3>2
    <3> QED BY <1>3, <2>2, <3>1, <3>2, <3>3
  <2> QED BY <2>1, <2>2
<1>8. ASSUME NEW d \in Calls, calls'[d].step \in SyncSteps, watch'[d].alone,
             NEW e \in Calls, calls'[e].step \in SyncSteps, calls'[e].zone = calls'[d].zone
      PROVE  e = d
  <2>1. CASE d = c
    <3>1. Syncing(z) = {} /\ calls'[d].zone = z
      BY <1>3, <1>4, <1>8, <2>1
    <3> QED BY <1>3, <1>8, <2>1, <3>1 DEF Syncing, SyncSteps
  <2>2. CASE d # c
    <3>1. d \notin Syncing(z) /\ watch[d].alone /\ calls'[d] = calls[d]
      BY <1>3, <1>8, <2>2
    <3>2. calls[d].zone # z
      BY <1>8, <3>1 DEF Syncing, SyncSteps
    <3>3. e # c
      BY <1>3, <1>4, <1>8, <3>1, <3>2
    <3> QED BY <1>3, <1>8, <3>1, <3>3 DEF HistoryInv, SyncInv
  <2> QED BY <2>1, <2>2
<1>9. /\ \A y \in ZoneIds : zones'[y].status = "none" => policies'[y] = {}
      /\ \A y \in ZoneIds : zones'[y].status \in LiveStatuses /\ synced'[y] = "alone" =>
             (zones'[y].hasConfig <=> policies'[y] # {})
  BY <1>1 DEF HistoryInv, SyncInv
<1>10. SyncInv'
  BY <1>7, <1>8, <1>9 DEF SyncInv
<1> QED BY <1>1, <1>5, <1>6, <1>10, HeldStays DEF HistoryInv

\* A delete begins: what refers to the zone is held against it, and asked for.
LEMMA StartDeleteHistory ==
    ASSUME RecordInv, HistoryInv, NEW c \in Calls, NEW z \in ZoneIds, StartDelete(c, z)
    PROVE  HistoryInv'
<1> DEFINE begun == [fresh |-> TRUE, alone |-> TRUE, held |-> {e \in Entities : z \in refs[e]}]
           state == [step |-> "delete", zone |-> z, version |-> zones[z].version,
                     unchecked |-> Checks]
<1>1. /\ calls' = [calls EXCEPT ![c] = state] /\ watch' = [watch EXCEPT ![c] = begun]
      /\ UNCHANGED <<zones, policies, refs, synced>>
  BY DEF StartDelete, BeginWatched
<1>2. /\ state.step = "delete" /\ state.zone = z /\ state.unchecked = Checks
      /\ begun.held \subseteq Entities /\ \A e \in begun.held : z \in refs[e]
      /\ begun \in [fresh : BOOLEAN, alone : BOOLEAN, held : SUBSET Entities]
  OBVIOUS
<1> HIDE DEF begun, state
<1>3. /\ watch'[c] = begun /\ calls'[c] = state
      /\ \A d \in Calls : d # c => calls'[d] = calls[d] /\ watch'[d] = watch[d]
  BY <1>1 DEF RecordInv, HistoryInv, HistoryTyped
<1>4. HistoryTyped'
  BY <1>1, <1>2 DEF HistoryInv, HistoryTyped
<1>5. SyncsKept
  BY <1>2, <1>3 DEF SyncsKept, SyncSteps
<1>6. Entities \subseteq StillAsked(Checks)
  <2>1. Len(Checks) = 3 /\ Checks[1] = "scan_jobs" /\ Checks[2] = "incidents"
        /\ Checks[3] = "security_events"
    BY DEF Checks
  <2> QED BY <2>1 DEF StillAsked, Entities
<1>7. HeldInv'
  <2> SUFFICES ASSUME NEW d \in Calls, calls'[d].step = "delete"
               PROVE  /\ \A e \in watch'[d].held : calls'[d].zone \in refs'[e]
                      /\ watch'[d].held \subseteq StillAsked(calls'[d].unchecked)
    BY DEF HeldInv
  <2>1. CASE d = c
    BY <1>1, <1>2, <1>3, <1>6, <2>1
  <2>2. CASE d # c
    BY <1>1, <1>3, <2>2 DEF HistoryInv, HeldInv
  <2> QED BY <2>1, <2>2
<1> QED BY <1>1, <1>4, <1>5, <1>7, SyncStays, SameMarks, SameFlags DEF HistoryInv

\* A policy or rule changes: no sync in progress has counted it for sure.
LEMMA ChangeHistory ==
    ASSUME RecordInv, HistoryInv, NEW z \in ZoneIds, NEW entity \in {"ddos", "firewall"},
           ChangePolicy(z, entity)
    PROVE  HistoryInv'
<1>1. /\ zones[z].status # "none" /\ UNCHANGED <<zones, calls, refs>>
      /\ policies' = [policies EXCEPT ![z] = IF entity \in @ THEN @ \ {entity} ELSE @ \cup {entity}]
      /\ synced' = [synced EXCEPT ![z] = "no"]
      /\ watch' = [c \in Calls |-> IF c \in Syncing(z) THEN [watch[c] EXCEPT !.fresh = FALSE]
                                   ELSE watch[c]]
  BY DEF ChangePolicy, Live
<1>2. HistoryTyped'
  <2>1. \A c \in Calls : [watch[c] EXCEPT !.fresh = FALSE]
                            \in [fresh : BOOLEAN, alone : BOOLEAN, held : SUBSET Entities]
    BY DEF HistoryInv, HistoryTyped
  <2>2. policies' \in [ZoneIds -> SUBSET {"ddos", "firewall"}]
    BY <1>1 DEF HistoryInv, HistoryTyped
  <2> QED BY <1>1, <2>1, <2>2 DEF HistoryInv, HistoryTyped
<1>3. \A c \in Calls : /\ watch'[c].alone = watch[c].alone /\ watch'[c].held = watch[c].held
                       /\ watch'[c].fresh => watch[c].fresh /\ c \notin Syncing(z)
                       /\ c \notin Syncing(z) => watch'[c] = watch[c]
  BY <1>1 DEF HistoryInv, HistoryTyped
<1>4. /\ synced'[z] = "no" /\ \A y \in ZoneIds \ {z} : synced'[y] = synced[y]
      /\ \A y \in ZoneIds \ {z} : policies'[y] = policies[y]
  BY <1>1 DEF HistoryInv, HistoryTyped
<1>5. DeletesKept
  BY <1>1, <1>3 DEF DeletesKept
<1>6. ASSUME NEW c \in Calls, calls'[c].step \in SyncSteps
      PROVE  /\ watch'[c].fresh => (calls'[c].hasConfig <=> Counted(calls'[c], policies'))
             /\ watch'[c].alone => \A d \in Calls :
                    calls'[d].step \in SyncSteps /\ calls'[d].zone = calls'[c].zone => d = c
             /\ synced'[calls'[c].zone] = "alone" => watch'[c].fresh
  <2>1. /\ watch[c].fresh => (calls[c].hasConfig <=> Counted(calls[c], policies))
        /\ watch[c].alone => \A d \in Calls :
               calls[d].step \in SyncSteps /\ calls[d].zone = calls[c].zone => d = c
        /\ synced[calls[c].zone] = "alone" => watch[c].fresh
        /\ calls' = calls /\ calls[c].step \in SyncSteps /\ calls[c].zone \in ZoneIds
    BY <1>1, <1>6 DEF HistoryInv, SyncInv, RecordInv, CallTyped, SyncSteps
  <2>2. CASE calls[c].zone = z
    <3>1. ~ watch'[c].fresh
      BY <1>3, <2>1, <2>2 DEF Syncing, SyncSteps
    <3>2. synced'[calls'[c].zone] # "alone"
      BY <1>4, <2>1, <2>2
    <3> QED BY <1>3, <2>1, <3>1, <3>2
  <2>3. CASE calls[c].zone # z
    <3>1. watch'[c] = watch[c]
      BY <1>3, <2>3 DEF Syncing
    <3>2. Counted(calls'[c], policies') <=> Counted(calls[c], policies)
      BY <1>4, <2>1, <2>3 DEF Counted
    <3> QED BY <1>4, <2>1, <2>3, <3>1, <3>2
  <2> QED BY <2>2, <2>3
<1>7. /\ \A y \in ZoneIds : zones'[y].status = "none" => policies'[y] = {}
      /\ \A y \in ZoneIds : zones'[y].status \in LiveStatuses /\ synced'[y] = "alone" =>
             (zones'[y].hasConfig <=> policies'[y] # {})
  BY <1>1, <1>4 DEF HistoryInv, SyncInv
<1>8. SyncInv'
  BY <1>6, <1>7 DEF SyncInv
<1> QED BY <1>1, <1>2, <1>5, <1>8, HeldStays DEF HistoryInv

\* Rows that name the zone appear and go: what has gone is not held any more.
LEMMA ReferHistory ==
    ASSUME RecordInv, HistoryInv, NEW z \in ZoneIds, NEW e \in Entities,
           Refer(e, z) \/ Release(e, z)
    PROVE  HistoryInv'
<1>1. UNCHANGED <<zones, policies, calls, synced>>
  BY DEF Refer, Release
<1>2. FlagsKept
  BY <1>1, SameFlags
<1>3. CASE Refer(e, z)
  <2>1. watch' = watch /\ refs' = [refs EXCEPT ![e] = @ \cup {z}]
    BY <1>3 DEF Refer
  <2>2. \A f \in Entities : refs[f] \subseteq refs'[f]
    BY <2>1 DEF RecordInv
  <2>3. \A c \in Calls : watch[c].held \subseteq Entities
    BY DEF HistoryInv, HistoryTyped
  <2>4. HeldInv'
    BY <1>1, <2>1, <2>2, <2>3 DEF HistoryInv, HeldInv
  <2>5. SyncsKept /\ HistoryTyped'
    BY <1>1, <2>1 DEF SyncsKept, HistoryInv, HistoryTyped
  <2> QED BY <1>1, <1>2, <2>4, <2>5, SyncStays, SameMarks DEF HistoryInv
<1>4. CASE Release(e, z)
  <2>1. /\ refs' = [refs EXCEPT ![e] = @ \ {z}]
        /\ watch' = [c \in Calls |->
                        IF calls[c].step = "delete" /\ calls[c].zone = z
                        THEN [watch[c] EXCEPT !.held = @ \ {e}] ELSE watch[c]]
    BY <1>4 DEF Release
  <2>2. HistoryTyped'
    <3>1. \A c \in Calls : [watch[c] EXCEPT !.held = @ \ {e}]
                              \in [fresh : BOOLEAN, alone : BOOLEAN, held : SUBSET Entities]
      BY DEF HistoryInv, HistoryTyped
    <3> QED BY <1>1, <2>1, <3>1 DEF HistoryInv, HistoryTyped
  <2>3. SyncsKept
    BY <1>1, <2>1 DEF SyncsKept, SyncSteps
  <2>4. HeldInv'
    <3> SUFFICES ASSUME NEW c \in Calls, calls'[c].step = "delete"
                 PROVE  /\ \A f \in watch'[c].held : calls'[c].zone \in refs'[f]
                        /\ watch'[c].held \subseteq StillAsked(calls'[c].unchecked)
      BY DEF HeldInv
    <3>1. /\ calls' = calls /\ watch[c].held \subseteq Entities
          /\ \A f \in watch[c].held : calls[c].zone \in refs[f]
          /\ watch[c].held \subseteq StillAsked(calls[c].unchecked)
      BY <1>1 DEF HistoryInv, HistoryTyped, HeldInv
    <3>2. CASE calls[c].zone = z
      <4>1. watch'[c].held = watch[c].held \ {e}
        BY <2>1, <3>1, <3>2 DEF HistoryInv, HistoryTyped
      <4>2. \A f \in Entities \ {e} : refs'[f] = refs[f]
        BY <2>1 DEF RecordInv
      <4> QED BY <3>1, <4>1, <4>2
    <3>3. CASE calls[c].zone # z
      <4>1. watch'[c] = watch[c]
        BY <2>1, <3>3
      <4>2. \A f \in Entities : refs[f] \ {z} \subseteq refs'[f]
        BY <2>1 DEF RecordInv
      <4> QED BY <3>1, <3>3, <4>1, <4>2
    <3> QED BY <3>2, <3>3
  <2> QED BY <1>1, <1>2, <2>2, <2>3, <2>4, SyncStays, SameMarks DEF HistoryInv
<1> QED BY <1>3, <1>4

LEMMA StepKeepsHistory ==
    ASSUME RecordInv, HistoryInv, [ZoneLifecycleNext]_vars
    PROVE  HistoryInv'
<1>1. ASSUME NEW c \in Calls, NEW h \in Hosts, StartCreate(c, h)
      PROVE  HistoryInv'
  <2>1. PICK state : /\ state.step \in {"insert", "domain"} /\ watch' = watch
                     /\ calls' = [calls EXCEPT ![c] = state]
    <3> DEFINE state(d) == [step |-> "insert", host |-> h, domain |-> d]
               none == [step |-> "domain", host |-> h]
    <3>1. /\ watch' = watch
          /\ calls' = [calls EXCEPT ![c] = none] \/ \E d : calls' = [calls EXCEPT ![c] = state(d)]
      BY <1>1 DEF StartCreate, Begin, BeginWatched
    <3>2. none.step = "domain" /\ \A d : state(d).step = "insert"
      OBVIOUS
    <3> HIDE DEF state, none
    <3> QED BY <3>1, <3>2
  <2>2. state.step \notin SyncSteps \cup {"delete"}
    BY <2>1 DEF SyncSteps
  <2>3. UNCHANGED <<zones, policies, refs, synced>>
    BY <1>1 DEF StartCreate
  <2> QED BY <2>1, <2>2, <2>3, QuietStep, SameFlags
<1>2. ASSUME NEW c \in Calls, NEW d \in DomainIds, NEW own \in BOOLEAN, StartVerify(c, d, own)
      PROVE  HistoryInv'
  <2> DEFINE state == [step |-> "prove", domain |-> d, own |-> own,
                       version |-> domains[d].version]
  <2>1. /\ calls' = [calls EXCEPT ![c] = state] /\ watch' = watch
        /\ UNCHANGED <<zones, policies, refs, synced>>
    BY <1>2 DEF StartVerify, Begin, BeginWatched
  <2>2. state.step \notin SyncSteps \cup {"delete"}
    BY DEF SyncSteps
  <2> HIDE DEF state
  <2> QED BY <2>1, <2>2, QuietStep, SameFlags
<1>3. ASSUME NEW c \in Calls, NEW z \in ZoneIds, NEW action \in Actions, ShowZone(c, z, action)
      PROVE  HistoryInv'
  <2> DEFINE state == [step |-> "act", zone |-> z, action |-> action,
                       version |-> zones[z].version]
  <2>1. /\ calls' = [calls EXCEPT ![c] = state] /\ watch' = watch
        /\ UNCHANGED <<zones, policies, refs, synced>>
    BY <1>3 DEF ShowZone, Begin, BeginWatched
  <2>2. state.step \notin SyncSteps \cup {"delete"}
    BY DEF SyncSteps
  <2> HIDE DEF state
  <2> QED BY <2>1, <2>2, QuietStep, SameFlags
<1>4. ASSUME NEW c \in Calls, EndVerify(c) \/ Abandon(c)
      PROVE  HistoryInv'
  <2>1. Answer(c) /\ UNCHANGED <<zones, policies, refs, synced>>
    BY <1>4 DEF EndVerify, Abandon
  <2> QED BY <2>1, QuietAnswer, SameFlags
<1>5. ASSUME NEW c \in Calls, \E to \in LiveStatuses : ActOnZone(c, to)
      PROVE  HistoryInv'
  BY <1>5, ActHistory
<1>6. CASE UNCHANGED vars
  BY <1>6, WriteDomainHistory DEF vars
<1>8. ASSUME NEW d \in DomainIds, NEW a \in Apexes, NEW verified \in BOOLEAN,
             WriteDomain(d, a, verified)
      PROVE  HistoryInv'
  BY <1>8, WriteDomainHistory DEF WriteDomain
<1>7. CASE ZoneLifecycleNext
  BY <1>1, <1>2, <1>3, <1>4, <1>5, <1>7, <1>8, VerifyHistory, CascadeHistory, InsertHistory,
     EditHistory, SyncHistory, DeleteHistory, StartSyncHistory, StartDeleteHistory, ChangeHistory,
     ReferHistory DEF ZoneLifecycleNext, LiveStatuses
<1> QED BY <1>6, <1>7

\* The flag that admits "activate" is right after an undisturbed sync: one
\* that began after the last change of the zone's records and overlapped with
\* no other sync of the zone, whatever else was written to the zone meanwhile
\* (SyncConfigState, activateGuard).
THEOREM SyncsAreRight == ZoneLifecycleSpec => []QuietSyncIsRight
<1>1. RecordInv /\ HistoryInv => QuietSyncIsRight
  <2> SUFFICES ASSUME RecordInv, HistoryInv, NEW z \in ZoneIds, Live(z), synced[z] = "alone"
               PROVE  zones[z].hasConfig = (policies[z] # {})
    BY DEF QuietSyncIsRight, HasConfigIsRight
  <2>1. zones[z].status \in LiveStatuses /\ zones[z].hasConfig \in BOOLEAN
    BY DEF RecordInv, ZoneRecords, Live
  <2>2. zones[z].hasConfig <=> policies[z] # {}
    BY <2>1 DEF HistoryInv, SyncInv
  <2> QED BY <2>1, <2>2
<1>2. ZoneLifecycleInit => RecordInv /\ HistoryInv
  BY InitRecords, InitHistory
<1>3. RecordInv /\ HistoryInv /\ [ZoneLifecycleNext]_vars => RecordInv' /\ HistoryInv'
  BY StepKeepsRecords, StepKeepsHistory
<1> QED BY <1>1, <1>2, <1>3, PTL DEF ZoneLifecycleSpec

\* Only a delete deletes a zone, and only after it has passed every check.
LEMMA OnlyDeletesDelete ==
    ASSUME RecordInv, HistoryInv, ZoneLifecycleNext, NEW z \in ZoneIds,
           Live(z), zones'[z].status = "deleted"
    PROVE  \E c \in Calls : calls[c].step = "delete" /\ calls[c].zone = z /\ watch[c].held = {}
<1>1. zones[z].status # "deleted" /\ DOMAIN zones = ZoneIds
  BY DEF Live, RecordInv
<1>2. ASSUME NEW y, NEW version, NEW record, Write(y, version, record), record.status # "deleted"
      PROVE  FALSE
  BY <1>1, <1>2 DEF Write
<1>3. ASSUME NEW c \in Calls, NEW y \in ZoneIds, NEW fails \in BOOLEAN, CascadeOnto(c, y, fails)
      PROVE  FALSE
  <2> DEFINE record == [host |-> zones[y].host, domain |-> zones[y].domain,
                        status |-> zones[y].status, verified |-> TRUE,
                        hasConfig |-> zones[y].hasConfig, version |-> zones[y].version + 1]
  <2>1. zones' = zones \/ Write(y, calls[c].listed[y], record)
    BY <1>3 DEF CascadeOnto
  <2>2. record.status = zones[y].status
    OBVIOUS
  <2> HIDE DEF record
  <2>3. Live(y) /\ y = z
    BY <1>1, <2>1 DEF Write
  <2> QED BY <1>1, <1>2, <2>1, <2>2, <2>3
<1>4. ASSUME NEW c \in Calls, WriteFlag(c)
      PROVE  FALSE
  <2> DEFINE y == calls[c].zone
             record == [host |-> zones[y].host, domain |-> zones[y].domain,
                        status |-> zones[y].status, verified |-> zones[y].verified,
                        hasConfig |-> calls[c].hasConfig, version |-> zones[y].version + 1]
  <2>1. Write(y, calls[c].version, record)
    BY <1>4 DEF WriteFlag
  <2>2. record.status = zones[y].status
    OBVIOUS
  <2> HIDE DEF record, y
  <2>3. y = z
    BY <1>1, <2>1 DEF Write
  <2> QED BY <1>1, <1>2, <2>1, <2>2, <2>3
<1>5. ASSUME NEW c \in Calls, NEW to \in LiveStatuses, ActOnZone(c, to)
      PROVE  FALSE
  <2> DEFINE y == calls[c].zone
             record == [host |-> zones[y].host, domain |-> zones[y].domain, status |-> to,
                        verified |-> zones[y].verified, hasConfig |-> zones[y].hasConfig,
                        version |-> zones[y].version + 1]
  <2>1. Write(y, calls[c].version, record)
    BY <1>5 DEF ActOnZone
  <2>2. record.status # "deleted"
    BY DEF LiveStatuses
  <2> HIDE DEF record, y
  <2> QED BY <1>2, <2>1, <2>2
<1>6. ASSUME NEW c \in Calls, NEW verified \in BOOLEAN, NEW hasConfig \in BOOLEAN,
             InsertZone(c, verified, hasConfig)
      PROVE  FALSE
  <2>1. NewZone(calls[c].host, calls[c].domain, verified, hasConfig).status = "pending"
    BY DEF NewZone
  <2> QED BY <1>1, <1>6, <2>1 DEF InsertZone
<1>12. ASSUME NEW c \in Calls, NEW h, NEW d, NEW verified \in BOOLEAN, NEW hasConfig \in BOOLEAN,
              EditZone(c, h, d, verified, hasConfig)
       PROVE  FALSE
  <2> DEFINE y == calls[c].zone
             record == [host |-> h, domain |-> d, status |-> zones[y].status,
                        verified |-> verified, hasConfig |-> hasConfig,
                        version |-> zones[y].version + 1]
  <2>1. zones' = zones \/ zones' = [zones EXCEPT ![y] = record]
    BY <1>12 DEF EditZone
  <2>2. record.status = zones[y].status
    OBVIOUS
  <2> HIDE DEF record, y
  <2> QED BY <1>1, <2>1, <2>2
<1>7. zones' # zones
  BY <1>1
<1>8. PICK c \in Calls : DeleteZone(c)
  <2> DEFINE Reads(c) ==
        \/ \E h \in Hosts : StartCreate(c, h)
        \/ CreateDomain(c)
        \/ \E d \in DomainIds, own \in BOOLEAN : StartVerify(c, d, own)
        \/ \E found \in BOOLEAN : ProveDomain(c, found)
        \/ ListZones(c) \/ EndVerify(c) \/ CountFirewallRules(c) \/ RereadZone(c)
        \/ \E y \in ZoneIds : StartSync(c, y) \/ StartDelete(c, y)
        \/ \E y \in ZoneIds, action \in Actions : ShowZone(c, y, action)
        \/ \E reachable \in BOOLEAN : CheckReference(c, reachable)
        \/ Abandon(c)
  <2>1. ASSUME NEW c \in Calls, Reads(c) PROVE zones' = zones
    BY <2>1 DEF StartCreate, CreateDomain, StartVerify, ProveDomain, ListZones, EndVerify,
                CountFirewallRules, RereadZone, StartSync, StartDelete, ShowZone,
                CheckReference, Abandon
  <2>2. ASSUME NEW y \in ZoneIds, NEW e,
               ChangePolicy(y, e) \/ Refer(e, y) \/ Release(e, y)
        PROVE  zones' = zones
    BY <2>2 DEF ChangePolicy, Refer, Release
  <2>4. ASSUME NEW d, NEW a, NEW verified, WriteDomain(d, a, verified)
        PROVE  zones' = zones
    BY <2>4 DEF WriteDomain
  <2>3. \/ \E c \in Calls :
               \/ Reads(c) \/ WriteFlag(c) \/ DeleteZone(c)
               \/ \E verified, hasConfig \in BOOLEAN : InsertZone(c, verified, hasConfig)
               \/ \E h \in Hosts, d \in DomainIds, verified, hasConfig \in BOOLEAN :
                     EditZone(c, h, d, verified, hasConfig)
               \/ \E y \in ZoneIds, fails \in BOOLEAN : CascadeOnto(c, y, fails)
               \/ \E to \in LiveStatuses : ActOnZone(c, to)
        \/ \E d \in DomainIds, a \in Apexes, verified \in BOOLEAN : WriteDomain(d, a, verified)
        \/ \E y \in ZoneIds, e \in {"ddos", "firewall"} : ChangePolicy(y, e)
        \/ \E y \in ZoneIds, e \in Entities : Refer(e, y) \/ Release(e, y)
    BY DEF ZoneLifecycleNext, LiveStatuses
  <2> HIDE DEF Reads
  <2> QED BY <1>3, <1>4, <1>5, <1>6, <1>7, <1>12, <2>1, <2>2, <2>3, <2>4
<1>9. calls[c].step = "delete" /\ calls[c].unchecked = <<>>
  BY <1>8 DEF DeleteZone
<1>10. calls[c].zone = z
  BY <1>1, <1>8 DEF DeleteZone, Write
<1>11. watch[c].held = {}
  BY <1>9 DEF HistoryInv, HeldInv, StillAsked
<1> QED BY <1>9, <1>10, <1>11

\* No zone is deleted over a row of a sibling service that was there when the
\* delete began and has stayed: zoneReferencedBy asks every entity, one after
\* the other, while rows come and go (GuardedZonesBackend.Delete).
THEOREM HeldReferencesRefuse == ZoneLifecycleSpec => NoHeldReferenceDangles
<1> DEFINE A == \A z \in ZoneIds : Live(z) /\ zones'[z].status = "deleted" =>
                   \E c \in Calls : /\ calls[c].step = "delete" /\ calls[c].zone = z
                                    /\ watch[c].held = {}
<1>1. RecordInv /\ HistoryInv /\ [ZoneLifecycleNext]_vars => [A]_vars
  BY OnlyDeletesDelete
<1>2. ZoneLifecycleInit => RecordInv /\ HistoryInv
  BY InitRecords, InitHistory
<1>3. RecordInv /\ HistoryInv /\ [ZoneLifecycleNext]_vars => RecordInv' /\ HistoryInv'
  BY StepKeepsRecords, StepKeepsHistory
<1> HIDE DEF A
<1>4. ZoneLifecycleSpec => [][A]_vars
  BY <1>1, <1>2, <1>3, PTL DEF ZoneLifecycleSpec
<1> QED BY <1>4 DEF A, NoHeldReferenceDangles
=============================================================================
