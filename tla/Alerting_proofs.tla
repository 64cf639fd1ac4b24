---------------------------- MODULE Alerting_proofs ----------------------------
(***************************************************************************)
(* Proofs about alerting-service, for any number of sweeps, zones,         *)
(* addresses, policies and events, and whatever fails.                     *)
(*                                                                         *)
(* Each sweep is a sequence of calls with nothing held between them, so    *)
(* every invariant says what a sweep knows at each step, of records that   *)
(* other sweeps and the portal change meanwhile: what it knows must be of  *)
(* a kind that only grows.                                                 *)
(***************************************************************************)
EXTENDS Alerting, SequenceTheorems, FiniteSetTheorems, TLAPS

-----------------------------------------------------------------------------
(* Incidents.                                                              *)

Group == [zone : Zones, ip : Ips]

Incident == [zone : Zones, ip : Ips, status : {"open", "acknowledged"}, last : Nat]

Crowded(zone, incs) == Cardinality({i \in DOMAIN incs : incs[i].zone = zone}) > OpenLimit

Named(g, state, incs) ==
    \E j \in DOMAIN incs : /\ incs[j].zone = g.zone /\ IsIn(g.ip, incs[j].ip)
                           /\ j \in state.open \/ j > state.last

\* A correlation knows every incident that was open when it began and still is,
\* has raised what it is done with, and about to open an incident it found none
\* of the same zone and address there at first, unless it could not see them all.
SweepKnows(state, incs) ==
    state.step \in {"groups", "open"} =>
        /\ state.found \subseteq Group /\ state.todo \subseteq state.found
        /\ state.last \in 0..Len(incs)
        /\ \A j \in 1..state.last : incs[j].status = "open" => j \in state.open
        /\ \A g \in state.found \ state.todo :
                Named(g, state, incs) \/ (state.step = "open" /\ g = state.group)
        /\ state.step = "open" =>
                /\ state.group \in Group
                /\ \A j \in 1..state.last :
                      /\ incs[j].status = "open"
                      /\ incs[j].zone = state.group.zone /\ incs[j].ip = state.group.ip
                      => Crowded(state.group.zone, incs)

IncidentInv ==
    /\ incidents \in Seq(Incident)
    /\ DOMAIN sweeps = Sweeps
    /\ \A s \in Sweeps : SweepKnows(sweeps[s], incidents)
    /\ DuplicatesOnlyByOverlap

\* Incidents are added at the end, and of one there only the status changes,
\* and never to "open".
IncidentsGrow ==
    /\ incidents' \in Seq(Incident)
    /\ Len(incidents) <= Len(incidents')
    /\ \A j \in 1..Len(incidents) :
        /\ incidents'[j].zone = incidents[j].zone /\ incidents'[j].ip = incidents[j].ip
        /\ incidents'[j].last = incidents[j].last
        /\ incidents'[j].status = "open" => incidents[j].status = "open"

\* The incidents of a zone are finitely many.
LEMMA OfZoneFinite ==
    ASSUME NEW incs \in Seq(Incident), NEW zone
    PROVE  LET those == {i \in DOMAIN incs : incs[i].zone = zone}
           IN IsFiniteSet(those) /\ Cardinality(those) \in Nat
<1> DEFINE those == {i \in DOMAIN incs : incs[i].zone = zone}
<1>1. those \in SUBSET (1..Len(incs)) /\ Len(incs) \in Nat
  BY LenProperties
<1>2. IsFiniteSet(1..Len(incs))
  BY <1>1, FS_Interval
<1> HIDE DEF those
<1>3. IsFiniteSet(those)
  BY <1>1, <1>2, FS_Subset
<1>4. Cardinality(those) \in Nat
  BY <1>3, FS_CardinalityType
<1> QED BY <1>3, <1>4 DEF those

\* A crowded zone stays crowded.
LEMMA CrowdedStays ==
    ASSUME incidents \in Seq(Incident), IncidentsGrow, NEW zone, Crowded(zone, incidents)
    PROVE  Crowded(zone, incidents')
<1> DEFINE before == {i \in DOMAIN incidents : incidents[i].zone = zone}
           after == {i \in DOMAIN incidents' : incidents'[i].zone = zone}
<1>1. before \in SUBSET after
  BY LenProperties DEF IncidentsGrow
<1>2. /\ IsFiniteSet(after) /\ Cardinality(after) \in Nat
      /\ Cardinality(before) \in Nat
  BY OfZoneFinite DEF IncidentsGrow
<1>3. Cardinality(before) > OpenLimit
  BY DEF Crowded
<1> HIDE DEF before, after
<1>4. Cardinality(before) <= Cardinality(after)
  BY <1>1, <1>2, FS_Subset
<1>5. Cardinality(after) > OpenLimit
  BY <1>2, <1>3, <1>4, AlertingAssumption
<1> QED BY <1>5 DEF after, Crowded

\* What a correlation knows stays true while incidents grow.
LEMMA KnowledgeStays ==
    ASSUME incidents \in Seq(Incident), IncidentsGrow,
           NEW state, SweepKnows(state, incidents)
    PROVE  SweepKnows(state, incidents')
<1> SUFFICES ASSUME state.step \in {"groups", "open"}
             PROVE  SweepKnows(state, incidents')
  BY DEF SweepKnows
<1>1. Len(incidents) \in Nat /\ Len(incidents') \in Nat
  BY LenProperties DEF IncidentsGrow
<1>2. state.last \in 0..Len(incidents')
  BY <1>1 DEF SweepKnows, IncidentsGrow
<1>3. \A j \in 1..state.last : incidents'[j].status = "open" => j \in state.open
  BY <1>1 DEF SweepKnows, IncidentsGrow
<1>4. ASSUME NEW g, Named(g, state, incidents)
      PROVE  Named(g, state, incidents')
  BY <1>1, <1>4, LenProperties DEF Named, IncidentsGrow
<1>5. ASSUME state.step = "open", NEW j \in 1..state.last, incidents'[j].status = "open",
             incidents'[j].zone = state.group.zone, incidents'[j].ip = state.group.ip
      PROVE  Crowded(state.group.zone, incidents')
  <2>1. /\ incidents[j].status = "open" /\ incidents[j].zone = state.group.zone
        /\ incidents[j].ip = state.group.ip
    BY <1>1, <1>5 DEF SweepKnows, IncidentsGrow
  <2> QED BY <1>5, <2>1, CrowdedStays DEF SweepKnows
<1> QED BY <1>2, <1>3, <1>4, <1>5 DEF SweepKnows

\* No new incident, no new duplicate.
LEMMA DuplicatesStay ==
    ASSUME IncidentInv, IncidentsGrow, Len(incidents') = Len(incidents)
    PROVE  DuplicatesOnlyByOverlap'
<1>1. DOMAIN incidents = 1..Len(incidents) /\ DOMAIN incidents' = 1..Len(incidents)
  BY LenProperties DEF IncidentInv, IncidentsGrow
<1> SUFFICES ASSUME NEW j \in 1..Len(incidents), NEW k \in 1..Len(incidents), j < k,
                    incidents'[j].status = "open", incidents'[k].status = "open",
                    incidents'[j].zone = incidents'[k].zone,
                    incidents'[j].ip = incidents'[k].ip,
                    ~ (j > incidents'[k].last)
             PROVE  Crowded(incidents'[j].zone, incidents')
  BY <1>1 DEF DuplicatesOnlyByOverlap, Crowded
<1>2. Crowded(incidents[j].zone, incidents)
  BY <1>1 DEF IncidentInv, IncidentsGrow, DuplicatesOnlyByOverlap, Crowded
<1> QED BY <1>2, CrowdedStays DEF IncidentInv, IncidentsGrow

\* Steps of a sweep that add no incident.
LEMMA SweepMoves ==
    ASSUME IncidentInv, incidents' = incidents, NEW s \in Sweeps, NEW state,
           Goto(s, state), SweepKnows(state, incidents)
    PROVE  IncidentInv'
<1>1. DOMAIN sweeps' = Sweeps
  BY DEF IncidentInv, Goto
<1>2. \A t \in Sweeps : SweepKnows(sweeps'[t], incidents')
  BY DEF IncidentInv, Goto
<1>3. DuplicatesOnlyByOverlap'
  BY DEF IncidentInv, DuplicatesOnlyByOverlap
<1> QED BY <1>1, <1>2, <1>3 DEF IncidentInv

\* StartCorrelate: all groups are still to do.
LEMMA StartKnows ==
    ASSUME IncidentInv, NEW s \in Sweeps, NEW zones, StartCorrelate(s, zones)
    PROVE  IncidentInv'
<1>1. PICK page \in RecentEvents(zones) :
        Goto(s, [step |-> "groups", todo |-> Groups(page, now - Window),
                 found |-> Groups(page, now - Window), last |-> Len(incidents),
                 open |-> {j \in DOMAIN incidents : incidents[j].status = "open"}])
  BY DEF StartCorrelate, Begin
<1> DEFINE groups == Groups(page, now - Window)
           state == [step |-> "groups", todo |-> groups, found |-> groups, last |-> Len(incidents),
                     open |-> {j \in DOMAIN incidents : incidents[j].status = "open"}]
<1>2. groups \subseteq Group
  BY DEF Groups, Group
<1> HIDE DEF groups
<1>3. SweepKnows(state, incidents)
  BY <1>2, LenProperties DEF IncidentInv, SweepKnows
<1> HIDE DEF state
<1>4. incidents' = incidents
  BY DEF StartCorrelate
<1> QED BY <1>1, <1>3, <1>4, SweepMoves DEF groups, state

\* CheckOpen: an incident that names the address is one that was open at first
\* or came since; where none does, one of the very address can only be beyond
\* what the check reads.
LEMMA CheckKnows ==
    ASSUME IncidentInv, NEW s \in Sweeps, NEW g, CheckOpen(s, g)
    PROVE  IncidentInv'
<1> DEFINE me == sweeps[s]
<1>1. /\ me.step = "groups" /\ g \in me.todo /\ incidents' = incidents
      /\ SweepKnows(me, incidents)
  BY DEF CheckOpen, IncidentInv
<1>2. g \in Group
  BY <1>1 DEF SweepKnows
<1>3. DOMAIN incidents = 1..Len(incidents) /\ Len(incidents) \in Nat
  BY LenProperties DEF IncidentInv
<1>4. CASE \E j \in OpenIncidents(g.zone) : IsIn(g.ip, incidents[j].ip)
  <2> DEFINE state == [me EXCEPT !.todo = @ \ {g}]
  <2>1. Goto(s, state)
    BY <1>4 DEF CheckOpen
  <2>2. PICK j \in DOMAIN incidents : /\ incidents[j].zone = g.zone /\ incidents[j].status = "open"
                                      /\ IsIn(g.ip, incidents[j].ip)
    BY <1>4 DEF OpenIncidents
  <2>3. Named(g, me, incidents)
    BY <1>1, <1>3, <2>2 DEF SweepKnows, Named
  <2>4. SweepKnows(state, incidents)
    <3>1. /\ state.step = me.step /\ state.found = me.found /\ state.last = me.last
          /\ state.open = me.open /\ state.todo = me.todo \ {g}
      BY DEF SweepKnows
    <3> HIDE DEF state, me
    <3>2. \A f : Named(f, me, incidents) => Named(f, state, incidents)
      BY <3>1 DEF Named
    <3> QED BY <1>1, <2>3, <3>1, <3>2 DEF SweepKnows
  <2> HIDE DEF state
  <2> QED BY <1>1, <2>1, <2>4, SweepMoves
<1>5. CASE ~ \E j \in OpenIncidents(g.zone) : IsIn(g.ip, incidents[j].ip)
  <2> DEFINE state == [step |-> "open", todo |-> me.todo \ {g}, found |-> me.found,
                       last |-> me.last, open |-> me.open, group |-> g]
             open == {j \in DOMAIN incidents :
                         incidents[j].zone = g.zone /\ incidents[j].status = "open"}
             those == {i \in DOMAIN incidents : incidents[i].zone = g.zone}
  <2>1. Goto(s, state)
    BY <1>5 DEF CheckOpen
  <2>2. ASSUME NEW j \in open, incidents[j].ip = g.ip
        PROVE  Crowded(g.zone, incidents)
    <3> DEFINE newer == {k \in open : k > j}
    <3>1. ~ (Cardinality(newer) < OpenLimit)
      BY <1>2, <1>5, <2>2, AlertingAssumption DEF OpenIncidents, Group
    <3>2. IsFiniteSet(those) /\ Cardinality(those) \in Nat
      BY OfZoneFinite DEF IncidentInv
    <3>3. newer \cup {j} \in SUBSET those /\ j \notin newer
      BY <1>3
    <3> HIDE DEF newer, those
    <3>4. IsFiniteSet(newer)
      BY <3>2, <3>3, FS_Subset
    <3>5. Cardinality(newer) \in Nat /\ Cardinality(newer \cup {j}) = Cardinality(newer) + 1
      BY <3>3, <3>4, FS_AddElement, FS_CardinalityType
    <3>6. Cardinality(newer \cup {j}) <= Cardinality(those)
      BY <3>2, <3>3, FS_Subset
    <3>7. Cardinality(those) > OpenLimit
      BY <3>1, <3>2, <3>5, <3>6, AlertingAssumption
    <3> QED BY <3>7 DEF those, Crowded
  <2>3. /\ state.step = "open" /\ state.found = me.found /\ state.last = me.last
        /\ state.open = me.open /\ state.todo = me.todo \ {g} /\ state.group = g
    OBVIOUS
  <2> HIDE DEF state, me
  <2>4. \A f : Named(f, me, incidents) => Named(f, state, incidents)
    BY <2>3 DEF Named
  <2>5. \A j \in 1..state.last :
           /\ incidents[j].status = "open"
           /\ incidents[j].zone = state.group.zone /\ incidents[j].ip = state.group.ip
           => Crowded(state.group.zone, incidents)
    BY <1>1, <1>3, <2>2, <2>3 DEF SweepKnows
  <2>6. SweepKnows(state, incidents)
    BY <1>1, <1>2, <2>3, <2>4, <2>5 DEF SweepKnows
  <2> QED BY <1>1, <2>1, <2>6, SweepMoves
<1> QED BY <1>4, <1>5

\* OpenIncident: the group's own incident is younger than the sweep, and an
\* older open one like it either is too or is one of too many.
LEMMA OpenKnows ==
    ASSUME IncidentInv, NEW s \in Sweeps, OpenIncident(s)
    PROVE  IncidentInv'
<1> DEFINE me == sweeps[s]
           g == me.group
           new == [zone |-> g.zone, ip |-> g.ip, status |-> "open", last |-> me.last]
           n == Len(incidents) + 1
           state == [step |-> "groups", todo |-> me.todo, found |-> me.found,
                     last |-> me.last, open |-> me.open]
<1>1. /\ me.step = "open" /\ incidents' = Append(incidents, new)
      /\ sweeps' = [sweeps EXCEPT ![s] = state] /\ SweepKnows(me, incidents)
  BY DEF OpenIncident, Goto, IncidentInv
<1>2. /\ incidents \in Seq(Incident) /\ Len(incidents) \in Nat
      /\ DOMAIN incidents = 1..Len(incidents)
  BY LenProperties DEF IncidentInv
<1>3. g \in Group /\ me.last \in 0..Len(incidents)
  BY <1>1 DEF SweepKnows
<1>4. new \in Incident
  BY <1>2, <1>3 DEF Group, Incident
<1> HIDE DEF new
<1>5. /\ incidents' \in Seq(Incident) /\ Len(incidents') = n
      /\ \A i \in 1..Len(incidents) : incidents'[i] = incidents[i]
      /\ incidents'[n] = new
      /\ DOMAIN incidents' = 1..n
  BY <1>1, <1>2, <1>4, AppendProperties, LenProperties
<1>6. IncidentsGrow
  BY <1>2, <1>5 DEF IncidentsGrow
<1>7. SweepKnows(me, incidents')
  BY <1>1, <1>2, <1>6, KnowledgeStays
<1>8. SweepKnows(state, incidents')
  <2>1. /\ state.step = "groups" /\ state.found = me.found /\ state.last = me.last
        /\ state.open = me.open /\ state.todo = me.todo
    OBVIOUS
  <2>2. n \in DOMAIN incidents' /\ n > me.last
    BY <1>2, <1>3, <1>5
  <2>3. incidents'[n].zone = g.zone /\ IsIn(g.ip, incidents'[n].ip)
    BY <1>3, <1>5, AlertingAssumption DEF new, Group
  <2> HIDE DEF state, me, g, n
  <2>4. Named(g, state, incidents')
    BY <2>1, <2>2, <2>3 DEF Named
  <2>5. \A f : Named(f, me, incidents') => Named(f, state, incidents')
    BY <2>1 DEF Named
  <2> QED BY <1>1, <1>7, <2>1, <2>4, <2>5 DEF SweepKnows, g
<1>9. ASSUME NEW t \in Sweeps
      PROVE  SweepKnows(sweeps'[t], incidents')
  BY <1>1, <1>2, <1>6, <1>8, KnowledgeStays DEF IncidentInv
<1>10. DuplicatesOnlyByOverlap'
  <2> SUFFICES ASSUME NEW j \in 1..n, NEW k \in 1..n, j < k,
                      incidents'[j].status = "open", incidents'[k].status = "open",
                      incidents'[j].zone = incidents'[k].zone,
                      incidents'[j].ip = incidents'[k].ip,
                      ~ (j > incidents'[k].last)
               PROVE  Crowded(incidents'[j].zone, incidents')
    BY <1>5 DEF DuplicatesOnlyByOverlap, Crowded
  <2>1. j \in 1..Len(incidents)
    BY <1>2
  <2>2. CASE k \in 1..Len(incidents)
    <3>1. Crowded(incidents[j].zone, incidents)
      BY <1>2, <1>5, <2>1, <2>2 DEF IncidentInv, DuplicatesOnlyByOverlap, Crowded
    <3> QED BY <1>2, <1>5, <1>6, <2>1, <3>1, CrowdedStays
  <2>3. CASE k = n
    <3>1. j \in 1..me.last /\ incidents[j].zone = g.zone /\ incidents[j].ip = g.ip
      BY <1>3, <1>5, <2>1, <2>3 DEF new
    <3>2. Crowded(g.zone, incidents)
      BY <1>1, <1>5, <2>1, <3>1 DEF SweepKnows
    <3> QED BY <1>2, <1>5, <1>6, <2>1, <3>1, <3>2, CrowdedStays
  <2> QED BY <1>2, <2>2, <2>3
<1> QED BY <1>1, <1>5, <1>9, <1>10 DEF IncidentInv

LEMMA AcknowledgeKnows ==
    ASSUME IncidentInv, NEW j \in DOMAIN incidents, Acknowledge(j)
    PROVE  IncidentInv'
<1> DEFINE taken == [incidents[j] EXCEPT !.status = "acknowledged"]
<1>1. incidents' = [incidents EXCEPT ![j] = taken] /\ sweeps' = sweeps
  BY DEF Acknowledge
<1>2. j \in 1..Len(incidents) /\ incidents[j] \in Incident
  BY LenProperties DEF IncidentInv
<1>3. /\ taken \in Incident /\ taken.status = "acknowledged"
      /\ taken.zone = incidents[j].zone /\ taken.ip = incidents[j].ip
      /\ taken.last = incidents[j].last
  BY <1>2 DEF Incident
<1> HIDE DEF taken
<1>4. /\ incidents' \in Seq(Incident) /\ Len(incidents') = Len(incidents)
      /\ \A i \in 1..Len(incidents) : incidents'[i] = IF i = j THEN taken ELSE incidents[i]
  BY <1>1, <1>2, <1>3, ExceptSeq DEF IncidentInv
<1>5. IncidentsGrow
  <2>1. Len(incidents) <= Len(incidents')
    BY <1>4, LenProperties DEF IncidentInv
  <2> QED BY <1>3, <1>4, <2>1 DEF IncidentsGrow
<1>6. \A s \in Sweeps : SweepKnows(sweeps'[s], incidents')
  BY <1>1, <1>5, KnowledgeStays DEF IncidentInv
<1> QED BY <1>1, <1>4, <1>5, <1>6, DuplicatesStay DEF IncidentInv

LEMMA StepKnows ==
    ASSUME IncidentInv, [AlertingNext]_vars
    PROVE  IncidentInv'
<1>1. ASSUME NEW s \in Sweeps, NEW state, state.step \notin {"groups", "open"},
             Goto(s, state), incidents' = incidents
      PROVE  IncidentInv'
  BY <1>1, SweepMoves DEF SweepKnows
<1>2. ASSUME UNCHANGED <<incidents, sweeps>>
      PROVE  IncidentInv'
  BY <1>2 DEF IncidentInv, DuplicatesOnlyByOverlap
<1>3. Idle.step = "idle"
  BY DEF Idle
<1>4. ASSUME NEW s \in Sweeps, EndCorrelate(s) \/ EndEvaluate(s) \/ Break(s)
      PROVE  IncidentInv'
  BY <1>1, <1>3, <1>4 DEF EndCorrelate, EndEvaluate, Break
<1>5. ASSUME NEW s \in Sweeps,
             StartEvaluate(s) \/ ReadEvents(s) \/ StartCleanup(s) \/ EndPolicy(s)
      PROVE  IncidentInv'
  BY <1>1, <1>5 DEF StartEvaluate, ReadEvents, StartCleanup, EndPolicy, Begin
<1>6. ASSUME NEW s \in Sweeps, RecordNotification(s)
      PROVE  IncidentInv'
  BY <1>1, <1>3, <1>6 DEF RecordNotification
<1>7. ASSUME NEW s \in Sweeps, NEW p \in DOMAIN Policies, StartPolicy(s, p) \/ StartTest(s, p)
      PROVE  IncidentInv'
  BY <1>1, <1>7 DEF StartPolicy, StartTest, Begin
<1>8. ASSUME NEW s \in Sweeps, NEW z, NEW delivered \in BOOLEAN, Deliver(s, z, delivered)
      PROVE  IncidentInv'
  BY <1>1, <1>8 DEF Deliver
<1>9. ASSUME NEW s \in Sweeps, SelectBatch(s) \/ DeleteBatch(s)
      PROVE  IncidentInv'
  BY <1>1, <1>3, <1>9 DEF SelectBatch, DeleteBatch
<1>10. ASSUME NEW z \in Zones, NEW i \in Ips, NEW at \in 0..MaxClock, WriteEvent(z, i, at)
       PROVE  IncidentInv'
  BY <1>2, <1>10 DEF WriteEvent
<1>11. ASSUME Tick \/ UNCHANGED vars
       PROVE  IncidentInv'
  BY <1>2, <1>11 DEF Tick, vars
<1>12. CASE AlertingNext
  BY <1>4, <1>5, <1>6, <1>7, <1>8, <1>9, <1>10, <1>11, <1>12, StartKnows, CheckKnows, OpenKnows,
     AcknowledgeKnows DEF AlertingNext
<1> QED BY <1>11, <1>12

LEMMA IncidentInvariant == AlertingSpec => []IncidentInv
<1>1. AlertingInit => IncidentInv
  BY EmptySeq DEF AlertingInit, IncidentInv, SweepKnows, Idle, DuplicatesOnlyByOverlap
<1> QED BY <1>1, StepKnows, PTL DEF AlertingSpec

\* Each group a correlation is done with has an incident of its own, or was taken
\* for the one of an incident of another address that contains its own, whatever
\* other sweeps open and operators acknowledge between its calls
\* (correlateIncidents).
THEOREM GroupsAreAllRaised == AlertingSpec => []GroupsAreRaised
<1>1. IncidentInv => GroupsAreRaised
  <2> SUFFICES ASSUME IncidentInv, NEW s \in Sweeps, sweeps[s].step = "groups",
                      NEW g \in sweeps[s].found \ sweeps[s].todo
               PROVE  \/ Raised(s, g.zone, g.ip)
                      \/ \E i \in Ips \ {g.ip} : IsIn(g.ip, i) /\ Raised(s, g.zone, i)
    BY DEF GroupsAreRaised
  <2>1. SweepKnows(sweeps[s], incidents)
    BY DEF IncidentInv
  <2>2. PICK j \in DOMAIN incidents :
           /\ incidents[j].zone = g.zone /\ IsIn(g.ip, incidents[j].ip)
           /\ j \in sweeps[s].open \/ j > sweeps[s].last
    BY <2>1 DEF SweepKnows, Named
  <2>3. Raised(s, g.zone, incidents[j].ip)
    BY <2>2 DEF Raised
  <2>4. incidents[j].ip \in Ips
    <3>1. incidents \in Seq(Incident)
      BY DEF IncidentInv
    <3>2. incidents[j] \in Incident
      BY <3>1, ElementOfSeq, LenProperties
    <3> QED BY <3>2 DEF Incident
  <2> QED BY <2>2, <2>3, <2>4
<1> QED BY <1>1, IncidentInvariant, PTL

\* "opens one Incident per group above the threshold" (correlateIncidents), where
\* no address is a part of another one.
THEOREM GroupsHaveTheirOwn ==
    ASSUME \A i, j \in Ips : IsIn(i, j) => i = j
    PROVE  AlertingSpec => []OneIncidentPerGroup
<1>1. IncidentInv /\ GroupsAreRaised => OneIncidentPerGroup
  <2> SUFFICES ASSUME IncidentInv, GroupsAreRaised, NEW s \in Sweeps, sweeps[s].step = "groups",
                      NEW g \in sweeps[s].found \ sweeps[s].todo
               PROVE  Raised(s, g.zone, g.ip)
    BY DEF OneIncidentPerGroup
  <2>1. g.ip \in Ips
    BY DEF IncidentInv, SweepKnows, Group
  <2> QED BY <2>1 DEF GroupsAreRaised
<1> QED BY <1>1, GroupsAreAllRaised, IncidentInvariant, PTL

\* Of two open incidents alike the younger came of a sweep that began before
\* the older was there, or of a zone with more incidents than a check reads
\* (the list of open incidents is all there is between a re-run and a duplicate).
THEOREM DuplicatesNeedOverlap == AlertingSpec => []DuplicatesOnlyByOverlap
<1>1. IncidentInv => DuplicatesOnlyByOverlap
  BY DEF IncidentInv
<1> QED BY <1>1, IncidentInvariant, PTL

-----------------------------------------------------------------------------
(* Alerts.                                                                 *)

\* Enough events of this very zone, within the policy's window before a time.
Enough(policy, zone, at, evs) ==
    Cardinality({e \in evs : e.zone = zone /\ e.at >= at - Policies[policy].window})
        >= Policies[policy].threshold

\* An evaluation holds a page of events, and zones that each had enough of them.
SweepCounts(state, evs) ==
    /\ state.step = "events" => state.todo \subseteq DOMAIN Policies
    /\ state.step \in {"policies", "fire", "record"} =>
          state.page \subseteq evs /\ state.todo \subseteq DOMAIN Policies
    /\ state.step \in {"fire", "record"} =>
          /\ state.policy \in DOMAIN Policies
          /\ \A z \in state.zones : z # NoZone => Enough(state.policy, z, state.at, evs)
    /\ state.step = "record" =>
          (state.zone # NoZone => Enough(state.policy, state.zone, state.at, evs))

AlertInv ==
    /\ IsFiniteSet(events)
    /\ DOMAIN sweeps = Sweeps
    /\ \A s \in Sweeps : SweepCounts(sweeps[s], events)
    /\ \A n \in notifications : /\ n.policy \in DOMAIN Policies
                                /\ n.zone # NoZone => Enough(n.policy, n.zone, n.at, events)

\* Enough stays enough: no event is ever taken out of the history.
LEMMA EnoughStays ==
    ASSUME NEW policy \in DOMAIN Policies, NEW zone, NEW at,
           NEW evs, NEW more, IsFiniteSet(more), evs \subseteq more,
           Enough(policy, zone, at, evs)
    PROVE  Enough(policy, zone, at, more)
<1> DEFINE those(some) == {e \in some : e.zone = zone /\ e.at >= at - Policies[policy].window}
<1>1. those(evs) \in SUBSET those(more) /\ those(more) \in SUBSET more
  OBVIOUS
<1>2. Cardinality(those(evs)) >= Policies[policy].threshold
  BY DEF Enough
<1> HIDE DEF those
<1>3. IsFiniteSet(those(more))
  BY <1>1, FS_Subset
<1>4. /\ Cardinality(those(evs)) <= Cardinality(those(more))
      /\ IsFiniteSet(those(evs))
  BY <1>1, <1>3, FS_Subset
<1>5. Cardinality(those(evs)) \in Nat /\ Cardinality(those(more)) \in Nat
  BY <1>3, <1>4, FS_CardinalityType
<1>6. Cardinality(those(more)) >= Policies[policy].threshold
  BY <1>2, <1>4, <1>5, AlertingAssumption
<1> QED BY <1>6 DEF Enough, those

\* Firing: what is counted in the page is there.
LEMMA FiringIsEnough ==
    ASSUME IsFiniteSet(events), NEW policy \in DOMAIN Policies,
           NEW page, page \subseteq events, NEW z \in Firing(policy, page)
    PROVE  Enough(policy, z, now, events)
<1> DEFINE w == now - Policies[policy].window
           counted == {e \in Since(page, w) : e.zone = z}
           those == {e \in events : e.zone = z /\ e.at >= w}
<1>1. Cardinality(counted) >= Policies[policy].threshold
  BY DEF Firing
<1>2. counted \in SUBSET those /\ those \in SUBSET events
  BY DEF Since
<1> HIDE DEF counted, those
<1>3. IsFiniteSet(those)
  BY <1>2, FS_Subset
<1>4. IsFiniteSet(counted) /\ Cardinality(counted) <= Cardinality(those)
  BY <1>2, <1>3, FS_Subset
<1>5. Cardinality(counted) \in Nat /\ Cardinality(those) \in Nat
  BY <1>3, <1>4, FS_CardinalityType
<1>6. Cardinality(those) >= Policies[policy].threshold
  BY <1>1, <1>4, <1>5, AlertingAssumption
<1> QED BY <1>6 DEF those, Enough

LEMMA CountMoves ==
    ASSUME AlertInv, UNCHANGED <<events, notifications>>, NEW s \in Sweeps, NEW state,
           Goto(s, state), SweepCounts(state, events)
    PROVE  AlertInv'
BY DEF AlertInv, Goto

LEMMA WriteCounts ==
    ASSUME AlertInv, NEW z, NEW i, NEW at, WriteEvent(z, i, at)
    PROVE  AlertInv'
<1>1. PICK e : events' = events \cup {e}
  BY DEF WriteEvent
<1>2. UNCHANGED <<sweeps, notifications>>
  BY DEF WriteEvent
<1>3. IsFiniteSet(events') /\ events \subseteq events'
  BY <1>1, FS_AddElement DEF AlertInv
<1>4. ASSUME NEW policy \in DOMAIN Policies, NEW zone, NEW t, Enough(policy, zone, t, events)
      PROVE  Enough(policy, zone, t, events')
  BY <1>3, <1>4, EnoughStays
<1>5. \A s \in Sweeps : SweepCounts(sweeps[s], events')
  BY <1>3, <1>4 DEF AlertInv, SweepCounts
<1>6. \A n \in notifications : /\ n.policy \in DOMAIN Policies
                               /\ n.zone # NoZone => Enough(n.policy, n.zone, n.at, events')
  BY <1>4 DEF AlertInv
<1> QED BY <1>2, <1>3, <1>5, <1>6 DEF AlertInv

LEMMA StepCounts ==
    ASSUME AlertInv, [AlertingNext]_vars
    PROVE  AlertInv'
<1>1. ASSUME NEW s \in Sweeps, NEW state,
             state.step \notin {"events", "policies", "fire", "record"},
             Goto(s, state), UNCHANGED <<events, notifications>>
      PROVE  AlertInv'
  BY <1>1, CountMoves DEF SweepCounts
<1>2. ASSUME UNCHANGED <<events, notifications, sweeps>>
      PROVE  AlertInv'
  BY <1>2 DEF AlertInv
<1>3. Idle.step = "idle"
  BY DEF Idle
<1>4. ASSUME NEW s \in Sweeps, EndCorrelate(s) \/ EndEvaluate(s) \/ Break(s)
      PROVE  AlertInv'
  BY <1>1, <1>3, <1>4 DEF EndCorrelate, EndEvaluate, Break
<1>5. ASSUME NEW s \in Sweeps, NEW zones, StartCorrelate(s, zones)
      PROVE  AlertInv'
  BY <1>1, <1>5 DEF StartCorrelate, Begin
<1>6. ASSUME NEW s \in Sweeps, NEW g, CheckOpen(s, g)
      PROVE  AlertInv'
  <2>1. sweeps[s].step = "groups" /\ UNCHANGED <<events, notifications>>
    BY <1>6 DEF CheckOpen
  <2> DEFINE done == [sweeps[s] EXCEPT !.todo = @ \ {g}]
             check == [step |-> "open", todo |-> sweeps[s].todo \ {g}, found |-> sweeps[s].found,
                       last |-> sweeps[s].last, open |-> sweeps[s].open, group |-> g]
  <2>2. Goto(s, done) \/ Goto(s, check)
    BY <1>6 DEF CheckOpen
  <2>3. done.step = "groups" \/ done.step = sweeps[s].step
    OBVIOUS
  <2>4. check.step = "open"
    OBVIOUS
  <2> HIDE DEF done, check
  <2> QED BY <1>1, <2>1, <2>2, <2>3, <2>4
<1>7. ASSUME NEW s \in Sweeps, OpenIncident(s)
      PROVE  AlertInv'
  BY <1>1, <1>7 DEF OpenIncident
<1>8. ASSUME NEW s \in Sweeps, StartEvaluate(s) \/ ReadEvents(s)
      PROVE  AlertInv'
  <2>1. CASE StartEvaluate(s)
    <3>1. PICK listed \in SUBSET DOMAIN Policies : Goto(s, [step |-> "events", todo |-> listed])
      BY <2>1 DEF StartEvaluate, Begin
    <3>2. SweepCounts([step |-> "events", todo |-> listed], events)
      BY DEF SweepCounts
    <3> QED BY <2>1, <3>1, <3>2, CountMoves DEF StartEvaluate
  <2>2. CASE ReadEvents(s)
    <3>1. PICK page \in RecentEvents(Zones) :
              Goto(s, [step |-> "policies", todo |-> sweeps[s].todo, page |-> page])
      BY <2>2 DEF ReadEvents
    <3>2. page \subseteq events /\ sweeps[s].todo \subseteq DOMAIN Policies
      BY <2>2 DEF RecentEvents, Rows, ReadEvents, AlertInv, SweepCounts
    <3>3. SweepCounts([step |-> "policies", todo |-> sweeps[s].todo, page |-> page], events)
      BY <3>2 DEF SweepCounts
    <3> QED BY <2>2, <3>1, <3>3, CountMoves DEF ReadEvents
  <2> QED BY <1>8, <2>1, <2>2
<1>9. ASSUME NEW s \in Sweeps, NEW p \in DOMAIN Policies, StartPolicy(s, p)
      PROVE  AlertInv'
  <2> DEFINE state == [step |-> "fire", todo |-> sweeps[s].todo \ {p}, page |-> sweeps[s].page,
                       policy |-> p, zones |-> Firing(p, sweeps[s].page), at |-> now]
  <2>1. Goto(s, state) /\ UNCHANGED <<events, notifications>>
    BY <1>9 DEF StartPolicy
  <2>2. sweeps[s].page \subseteq events /\ sweeps[s].todo \subseteq DOMAIN Policies
    BY <1>9 DEF StartPolicy, AlertInv, SweepCounts
  <2>3. \A z \in Firing(p, sweeps[s].page) : Enough(p, z, now, events)
    BY <2>2, FiringIsEnough DEF AlertInv
  <2>4. SweepCounts(state, events)
    BY <2>2, <2>3 DEF SweepCounts
  <2> HIDE DEF state
  <2> QED BY <2>1, <2>4, CountMoves
<1>10. ASSUME NEW s \in Sweeps, NEW p \in DOMAIN Policies, StartTest(s, p)
       PROVE  AlertInv'
  <2> DEFINE state == [step |-> "fire", todo |-> {}, page |-> {}, policy |-> p,
                       zones |-> {NoZone}, at |-> now]
  <2>1. Goto(s, state) /\ UNCHANGED <<events, notifications>>
    BY <1>10 DEF StartTest, Begin
  <2>2. SweepCounts(state, events)
    BY DEF SweepCounts
  <2> HIDE DEF state
  <2> QED BY <2>1, <2>2, CountMoves
<1>11. ASSUME NEW s \in Sweeps, NEW z, NEW delivered \in BOOLEAN, Deliver(s, z, delivered)
       PROVE  AlertInv'
  <2> DEFINE me == sweeps[s]
             state == [step |-> "record", todo |-> me.todo, page |-> me.page,
                       policy |-> me.policy, zones |-> me.zones \ {z},
                       at |-> me.at, zone |-> z, delivered |-> delivered]
  <2>1. /\ Goto(s, state) /\ UNCHANGED <<events, notifications>>
        /\ me.step = "fire" /\ z \in me.zones
    BY <1>11 DEF Deliver
  <2>2. SweepCounts(me, events)
    BY DEF AlertInv
  <2>3. SweepCounts(state, events)
    BY <2>1, <2>2 DEF SweepCounts
  <2> HIDE DEF state
  <2> QED BY <2>1, <2>3, CountMoves
<1>12. ASSUME NEW s \in Sweeps, RecordNotification(s)
       PROVE  AlertInv'
  <2> DEFINE me == sweeps[s]
             state == [step |-> "fire", todo |-> me.todo, page |-> me.page,
                       policy |-> me.policy, zones |-> me.zones, at |-> me.at]
             row == [policy |-> me.policy, zone |-> me.zone, at |-> me.at,
                     status |-> IF me.delivered THEN "sent" ELSE "failed"]
  <2>1. events' = events /\ me.step = "record"
    BY <1>12 DEF RecordNotification
  <2>2. SweepCounts(me, events)
    BY DEF AlertInv
  <2>3. SweepCounts(state, events)
    BY <2>1, <2>2 DEF SweepCounts
  <2>4. /\ row.policy \in DOMAIN Policies
        /\ row.zone # NoZone => Enough(row.policy, row.zone, row.at, events)
    BY <2>1, <2>2 DEF SweepCounts
  <2>5. \/ Goto(s, Idle) /\ notifications' = notifications
        \/ Goto(s, state) /\ notifications' = notifications \cup {row}
    BY <1>12 DEF RecordNotification
  <2> HIDE DEF state, row, me
  <2>6. CASE Goto(s, Idle) /\ notifications' = notifications
    BY <1>1, <1>3, <2>1, <2>6
  <2>7. CASE Goto(s, state) /\ notifications' = notifications \cup {row}
    BY <2>1, <2>3, <2>4, <2>7 DEF AlertInv, Goto
  <2> QED BY <2>5, <2>6, <2>7
<1>13. ASSUME NEW s \in Sweeps, EndPolicy(s)
       PROVE  AlertInv'
  <2> DEFINE state == [step |-> "policies", todo |-> sweeps[s].todo, page |-> sweeps[s].page]
  <2>1. Goto(s, state) /\ UNCHANGED <<events, notifications>>
    BY <1>13 DEF EndPolicy
  <2>2. SweepCounts(state, events)
    BY <1>13 DEF EndPolicy, AlertInv, SweepCounts
  <2> HIDE DEF state
  <2> QED BY <2>1, <2>2, CountMoves
<1>14. ASSUME NEW s \in Sweeps, StartCleanup(s) \/ SelectBatch(s) \/ DeleteBatch(s)
       PROVE  AlertInv'
  BY <1>1, <1>3, <1>14 DEF StartCleanup, SelectBatch, DeleteBatch, Begin
<1>15. ASSUME (\E j \in DOMAIN incidents : Acknowledge(j)) \/ Tick \/ UNCHANGED vars
       PROVE  AlertInv'
  BY <1>2, <1>15 DEF Acknowledge, Tick, vars
<1>16. CASE AlertingNext
  BY <1>4, <1>5, <1>6, <1>7, <1>8, <1>9, <1>10, <1>11, <1>12, <1>13, <1>14, <1>15, <1>16,
     WriteCounts DEF AlertingNext
<1> QED BY <1>15, <1>16

\* A policy notifies of a zone on the strength of that zone's own events, also
\* when other requests write and delete events between the page, the count and
\* the row (evaluateAlerts).
THEOREM AlertsAreEarned == AlertingSpec => []AlertsCountPerZone
<1>1. AlertingInit => AlertInv
  BY FS_EmptySet DEF AlertingInit, AlertInv, SweepCounts, Idle
<1>2. AlertInv => AlertsCountPerZone
  BY DEF AlertInv, AlertsCountPerZone, Enough
<1> QED BY <1>1, <1>2, StepCounts, PTL DEF AlertingSpec

-----------------------------------------------------------------------------
(* Retention.                                                              *)

\* Rows that are deleted, about to be, or were in a batch that failed.
Spoken(dels, swps, rolled) ==
    dels \cup rolled \cup UNION {IF swps[s].step = "delete" THEN swps[s].batch ELSE {} : s \in Sweeps}

\* A cleanup knows that what was due when it began was a row older than its
\* cutoff, and with a batch that is not full that nothing of it is left over.
SweepCleans(state, evs, spoken) ==
    /\ state.step \in {"select", "delete"} =>
          \A e \in state.due : e \in evs /\ e.at < state.cutoff
    /\ state.step = "delete" /\ Cardinality(state.batch) < BatchSize => state.due \subseteq spoken

CleanupInv ==
    /\ DOMAIN sweeps = Sweeps
    /\ due \subseteq Spoken(deleted, sweeps, rolledBack)
    /\ \A s \in Sweeps : SweepCleans(sweeps[s], events, Spoken(deleted, sweeps, rolledBack))

\* Steps that keep every event and every row spoken for.
LEMMA CleanMoves ==
    ASSUME CleanupInv, events \subseteq events', due' = due, NEW s \in Sweeps, NEW state,
           Goto(s, state),
           Spoken(deleted, sweeps, rolledBack) \subseteq Spoken(deleted', sweeps', rolledBack'),
           SweepCleans(state, events', Spoken(deleted', sweeps', rolledBack'))
    PROVE  CleanupInv'
BY DEF CleanupInv, Goto, SweepCleans

\* A sweep that holds no batch and takes none changes nothing of this.
LEMMA OtherMoves ==
    ASSUME CleanupInv, UNCHANGED <<events, deleted, due, rolledBack>>, NEW s \in Sweeps, NEW state,
           Goto(s, state), sweeps[s].step # "delete", state.step \notin {"select", "delete"}
    PROVE  CleanupInv'
<1>1. \A t \in Sweeps : sweeps[t].step = "delete" => sweeps'[t] = sweeps[t]
  BY DEF Goto, CleanupInv
<1>2. Spoken(deleted, sweeps, rolledBack) \subseteq Spoken(deleted', sweeps', rolledBack')
  BY <1>1 DEF Spoken
<1>3. SweepCleans(state, events', Spoken(deleted', sweeps', rolledBack'))
  BY DEF SweepCleans
<1> QED BY <1>2, <1>3, CleanMoves

\* The rows a cleanup leaves out are locked by others, or the batch is full.
LEMMA SelectCleans ==
    ASSUME CleanupInv, NEW s \in Sweeps, SelectBatch(s)
    PROVE  CleanupInv'
<1> DEFINE me == sweeps[s]
           rows == Expired(me.cutoff) \ Locked
           state(batch) == [step |-> "delete", cutoff |-> me.cutoff, due |-> me.due,
                            batch |-> batch]
<1>1. PICK batch \in SUBSET rows : /\ batch = rows \/ Cardinality(batch) = BatchSize
                                   /\ Goto(s, state(batch))
  BY DEF SelectBatch
<1>2. /\ UNCHANGED <<events, deleted, due, rolledBack>>
      /\ me.step = "select"
  BY DEF SelectBatch, SameBounds
<1>3. /\ sweeps'[s] = state(batch) /\ DOMAIN sweeps' = Sweeps
      /\ \A t \in Sweeps \ {s} : sweeps'[t] = sweeps[t]
  BY <1>1 DEF Goto, CleanupInv
<1>4. \A e \in me.due : e \in events /\ e.at < me.cutoff
  BY <1>2 DEF CleanupInv, SweepCleans
<1>5. /\ state(batch).step = "delete" /\ state(batch).cutoff = me.cutoff
      /\ state(batch).due = me.due /\ state(batch).batch = batch
  OBVIOUS
<1> HIDE DEF state
<1>6. Spoken(deleted, sweeps, rolledBack) \subseteq Spoken(deleted', sweeps', rolledBack')
  BY <1>2, <1>3 DEF Spoken
<1>7. batch \subseteq Spoken(deleted', sweeps', rolledBack')
  BY <1>3, <1>5 DEF Spoken
<1>8. Locked \cup deleted \subseteq Spoken(deleted, sweeps, rolledBack)
  BY DEF Locked, Spoken
<1>9. ASSUME Cardinality(batch) < BatchSize
      PROVE  me.due \subseteq Spoken(deleted', sweeps', rolledBack')
  <2>1. batch = rows
    BY <1>1, <1>9, AlertingAssumption
  <2> QED BY <1>4, <1>6, <1>7, <1>8, <2>1 DEF Expired, Rows
<1> HIDE DEF me
<1>10. SweepCleans(state(batch), events', Spoken(deleted', sweeps', rolledBack'))
  BY <1>2, <1>4, <1>5, <1>9 DEF SweepCleans
<1> QED BY <1>1, <1>2, <1>6, <1>10, CleanMoves

\* A batch is deleted, and if it was not full the cleanup is over.
LEMMA DeleteCleans ==
    ASSUME CleanupInv, NEW s \in Sweeps, DeleteBatch(s)
    PROVE  CleanupInv'
<1> DEFINE me == sweeps[s]
           again == [step |-> "select", cutoff |-> me.cutoff, due |-> me.due]
<1>1. /\ deleted' = deleted \cup me.batch /\ UNCHANGED <<events, rolledBack>>
      /\ me.step = "delete" /\ SweepCleans(me, events, Spoken(deleted, sweeps, rolledBack))
  BY DEF DeleteBatch, SameBounds, CleanupInv
<1>2. ASSUME NEW state, Goto(s, state)
      PROVE  Spoken(deleted, sweeps, rolledBack) \subseteq Spoken(deleted', sweeps', rolledBack')
  <2>1. \A t \in Sweeps \ {s} : sweeps'[t] = sweeps[t]
    BY <1>2 DEF Goto
  <2> QED BY <1>1, <2>1 DEF Spoken
<1>3. CASE Cardinality(me.batch) < BatchSize
  <2>1. Goto(s, Idle) /\ due' = due \cup me.due
    BY <1>3 DEF DeleteBatch
  <2>2. /\ DOMAIN sweeps' = Sweeps /\ sweeps'[s].step = "idle"
        /\ \A t \in Sweeps \ {s} : sweeps'[t] = sweeps[t]
    BY <2>1 DEF Goto, CleanupInv, Idle
  <2>3. due' \subseteq Spoken(deleted', sweeps', rolledBack')
    BY <1>1, <1>2, <1>3, <2>1 DEF CleanupInv, SweepCleans
  <2>4. ASSUME NEW t \in Sweeps
        PROVE  SweepCleans(sweeps'[t], events', Spoken(deleted', sweeps', rolledBack'))
    BY <1>1, <1>2, <2>1, <2>2 DEF CleanupInv, SweepCleans
  <2> QED BY <2>2, <2>3, <2>4 DEF CleanupInv
<1>4. CASE ~ (Cardinality(me.batch) < BatchSize)
  <2>1. Goto(s, again) /\ due' = due
    BY <1>4 DEF DeleteBatch
  <2>2. SweepCleans(again, events', Spoken(deleted', sweeps', rolledBack'))
    BY <1>1 DEF SweepCleans
  <2> HIDE DEF again
  <2> QED BY <1>1, <1>2, <2>1, <2>2, CleanMoves
<1> QED BY <1>3, <1>4

LEMMA StepCleans ==
    ASSUME CleanupInv, [AlertingNext]_vars
    PROVE  CleanupInv'
<1>1. Idle.step = "idle"
  BY DEF Idle
<1>2. ASSUME NEW s \in Sweeps, EndCorrelate(s) \/ EndEvaluate(s)
      PROVE  CleanupInv'
  BY <1>1, <1>2, OtherMoves DEF EndCorrelate, EndEvaluate, SameBounds
<1>3. ASSUME NEW s \in Sweeps, NEW zones, StartCorrelate(s, zones)
      PROVE  CleanupInv'
  BY <1>1, <1>3, OtherMoves DEF StartCorrelate, Begin
<1>4. ASSUME NEW s \in Sweeps, NEW g, CheckOpen(s, g)
      PROVE  CleanupInv'
  <2> DEFINE done == [sweeps[s] EXCEPT !.todo = @ \ {g}]
             check == [step |-> "open", todo |-> sweeps[s].todo \ {g}, found |-> sweeps[s].found,
                       last |-> sweeps[s].last, open |-> sweeps[s].open, group |-> g]
  <2>1. /\ sweeps[s].step = "groups" /\ UNCHANGED <<events, deleted, due, rolledBack>>
        /\ Goto(s, done) \/ Goto(s, check)
    BY <1>4 DEF CheckOpen, SameBounds
  <2>2. done.step = sweeps[s].step /\ check.step = "open"
    BY <2>1
  <2> HIDE DEF done, check
  <2> QED BY <2>1, <2>2, OtherMoves
<1>5. ASSUME NEW s \in Sweeps, OpenIncident(s)
      PROVE  CleanupInv'
  BY <1>5, OtherMoves DEF OpenIncident, SameBounds
<1>6. ASSUME NEW s \in Sweeps, StartEvaluate(s) \/ ReadEvents(s)
      PROVE  CleanupInv'
  BY <1>1, <1>6, OtherMoves DEF StartEvaluate, ReadEvents, Begin, SameBounds
<1>7. ASSUME NEW s \in Sweeps, NEW p \in DOMAIN Policies, StartPolicy(s, p)
      PROVE  CleanupInv'
  BY <1>7, OtherMoves DEF StartPolicy, SameBounds
<1>8. ASSUME NEW s \in Sweeps, NEW p \in DOMAIN Policies, StartTest(s, p)
      PROVE  CleanupInv'
  BY <1>1, <1>8, OtherMoves DEF StartTest, Begin
<1>9. ASSUME NEW s \in Sweeps, NEW z, NEW delivered \in BOOLEAN, Deliver(s, z, delivered)
      PROVE  CleanupInv'
  BY <1>9, OtherMoves DEF Deliver, SameBounds
<1>10. ASSUME NEW s \in Sweeps, RecordNotification(s)
       PROVE  CleanupInv'
  BY <1>1, <1>10, OtherMoves DEF RecordNotification, SameBounds
<1>11. ASSUME NEW s \in Sweeps, EndPolicy(s)
       PROVE  CleanupInv'
  BY <1>11, OtherMoves DEF EndPolicy, SameBounds
<1>12. ASSUME NEW s \in Sweeps, StartCleanup(s)
       PROVE  CleanupInv'
  <2> DEFINE cutoff == now - Retention
             state == [step |-> "select", cutoff |-> cutoff, due |-> Expired(cutoff)]
  <2>1. /\ Goto(s, state) /\ sweeps[s] = Idle
        /\ UNCHANGED <<events, deleted, due, rolledBack>>
    BY <1>12 DEF StartCleanup, Begin
  <2>2. Spoken(deleted, sweeps, rolledBack) \subseteq Spoken(deleted', sweeps', rolledBack')
    <3>1. \A t \in Sweeps : sweeps[t].step = "delete" => sweeps'[t] = sweeps[t]
      BY <1>1, <2>1 DEF Goto, CleanupInv
    <3> QED BY <2>1, <3>1 DEF Spoken
  <2>3. SweepCleans(state, events', Spoken(deleted', sweeps', rolledBack'))
    BY <2>1 DEF SweepCleans, Expired, Rows
  <2> HIDE DEF state
  <2> QED BY <2>1, <2>2, <2>3, CleanMoves
<1>13. ASSUME NEW s \in Sweeps, Break(s)
       PROVE  CleanupInv'
  <2>1. /\ rolledBack' = rolledBack \cup (IF sweeps[s].step = "delete" THEN sweeps[s].batch ELSE {})
        /\ UNCHANGED <<events, deleted, due>> /\ Goto(s, Idle)
    BY <1>13 DEF Break
  <2>2. Spoken(deleted, sweeps, rolledBack) \subseteq Spoken(deleted', sweeps', rolledBack')
    <3>1. \A t \in Sweeps \ {s} : sweeps'[t] = sweeps[t]
      BY <2>1 DEF Goto
    <3> QED BY <2>1, <3>1 DEF Spoken
  <2>3. SweepCleans(Idle, events', Spoken(deleted', sweeps', rolledBack'))
    BY <1>1 DEF SweepCleans
  <2> QED BY <2>1, <2>2, <2>3, CleanMoves
<1>14. ASSUME NEW z, NEW i, NEW at, WriteEvent(z, i, at)
       PROVE  CleanupInv'
  <2>1. events \subseteq events' /\ UNCHANGED <<deleted, sweeps, due, rolledBack>>
    BY <1>14 DEF WriteEvent, SameBounds
  <2> QED BY <2>1 DEF CleanupInv, SweepCleans
<1>15. ASSUME (\E j \in DOMAIN incidents : Acknowledge(j)) \/ Tick \/ UNCHANGED vars
       PROVE  CleanupInv'
  <2>1. UNCHANGED <<events, deleted, sweeps, due, rolledBack>>
    BY <1>15 DEF Acknowledge, Tick, vars, SameBounds
  <2> QED BY <2>1 DEF CleanupInv
<1>16. CASE AlertingNext
  BY <1>2, <1>3, <1>4, <1>5, <1>6, <1>7, <1>8, <1>9, <1>10, <1>11, <1>12, <1>13, <1>14, <1>15,
     <1>16, SelectCleans, DeleteCleans DEF AlertingNext
<1> QED BY <1>15, <1>16

\* Overlapping cleanups that skip each other's rows leave none behind, however
\* large the table and the batches are: who skips a row leaves it to one that
\* deletes it or fails (cleanupSecurityEvents, SKIP LOCKED).
THEOREM CleanupsAreComplete == AlertingSpec => []CleanupsLeaveNothingDue
<1>1. AlertingInit => CleanupInv
  BY DEF AlertingInit, CleanupInv, SweepCleans, Idle
<1>2. CleanupInv => CleanupsLeaveNothingDue
  BY DEF CleanupInv, CleanupsLeaveNothingDue, Spoken, Locked
<1> QED BY <1>1, <1>2, StepCleans, PTL DEF AlertingSpec
================================================================================
