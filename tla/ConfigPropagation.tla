-------------------------- MODULE ConfigPropagation --------------------------
(***************************************************************************)
(* A configuration change on its way: clients write the data plane, the    *)
(* distributor compiles and publishes, an edge node refreshes.  The        *)
(* distributor takes the place of EdgeCache's arbitrary writer.            *)
(***************************************************************************)
EXTENDS Distributor, EdgeCache

vars == <<storeVars, dataVars, workerVars, edgeVars>>

Init == DistInit /\ EdgeInit

Next ==
    \/ DistNext /\ UNCHANGED edgeVars
    \/ EdgeStep /\ UNCHANGED <<dataVars, workerVars>>

\* The loops keep running; clients and faults are free not to happen.  Every
\* step of a loop changes the variables its subscript names.
Fairness ==
    /\ \A w \in Workers :
           /\ WF_<<queue, sub>>(SubStep(w) /\ UNCHANGED edgeVars)
           /\ WF_sweep(SweepStep(w) /\ UNCHANGED edgeVars)
    /\ WF_edgeVars(RefreshStep /\ UNCHANGED <<dataVars, workerVars>>)

Spec == Init /\ [][Next]_vars /\ Fairness

(***************************************************************************)
(* Both halves keep their types when they run together.                    *)
(***************************************************************************)
TypeOK == DistTypeOK /\ EdgeTypeOK

(***************************************************************************)
(* The distributor is a legal writer of the store: every step of the       *)
(* system is a step of EdgeCache, so what holds of a node under arbitrary  *)
(* writers holds here.                                                     *)
(***************************************************************************)
ImplementsEdgeCache == CacheInit /\ [][CacheNext]_cacheVars

-----------------------------------------------------------------------------
EdgeCurrent ==
    /\ {h \in Hostnames : served[h] # Nil} = ServableHosts
    /\ \A z \in Zones : IsServable(z) => Matches(served[zone[z].hostname], z)

(***************************************************************************)
(* Which hostnames a node serves converges as well, whoever raises         *)
(* configVersion or not.                                                   *)
(***************************************************************************)
HostsConverge == <>[]({h \in Hostnames : served[h] # Nil} = ServableHosts)

\* The tenant keeps no list entry, blocklist or policy of its own.
NoTenantWide == \A r \in Records : Owner[r] # Global

(***************************************************************************)
(* What the edge's version check takes for granted: as long as no record   *)
(* is tenant-wide, a rule-set held under its zone's current version,       *)
(* raised since the zone's last change, has the zone's current content,    *)
(* however the loops' reads, the transactions and the refreshes            *)
(* interleaved.  (cache.refreshOnce carries a rule-set forward on its      *)
(* version alone; sync.Zone and resync.RunOnce read the version first and  *)
(* the records later)                                                      *)
(***************************************************************************)
VersionTellsContent ==
    NoTenantWide =>
        \A h \in Hostnames :
            LET p == served[h]
            IN  /\ p # Nil
                /\ zone[p.zone] # Nil
                /\ p.version = zone[p.zone].version
                /\ p.zone \notin owed
                => Matches(p, p.zone)

\* The node does not hold, under the version of a hostname's zone, the rule-set
\* of a zone that had the hostname before.
NotTakenOver ==
    \A z \in Zones :
        LET p == served[zone[z].hostname]
        IN  IsServable(z) /\ p # Nil /\ p.version = zone[z].version => p.zone = z

(***************************************************************************)
(* Convergence of the edge under the discipline its version check needs:   *)
(* if no record is tenant-wide, some client raises configVersion after     *)
(* each change, and no hostname is passed on to a zone of the very version *)
(* its former zone is still held under, every node ends up serving what    *)
(* the data plane says.                                                    *)
(***************************************************************************)
EdgeConvergesOnceBumped ==
    NoTenantWide /\ <>[](owed = {} /\ NotTakenOver) => <>[]EdgeCurrent

(***************************************************************************)
(* Convergence of the edge without asking anything of the clients.         *)
(* (docs/03-personas-workflows: a new rule raises configVersion by itself) *)
(***************************************************************************)
EdgeConverges == <>[]EdgeCurrent
=============================================================================
