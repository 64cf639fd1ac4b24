------------------------------ MODULE EdgeCache ------------------------------
(***************************************************************************)
(* One edge node's snapshot of the rule-sets (edge-plane/go/cache): a map  *)
(* served to requests and a refresh that rebuilds it from Redis, one key   *)
(* at a time, then swaps it in.  The node writes nothing that another node *)
(* reads, so one node stands for a fleet.                                  *)
(*                                                                         *)
(* The rest of the system appears here as an arbitrary writer of the store *)
(* (EdgeEnvironment); ConfigPropagation puts the distributor in its place. *)
(***************************************************************************)
EXTENDS RuleStore

CONSTANTS
    Supported,    \* the highest schema version this build reads
    MaxOutages    \* bound on Redis errors and restarts of the node

ASSUME EdgeAssumption == Supported \in Nat /\ MaxOutages \in Nat

VARIABLES
    served,       \* the current snapshot: [Hostnames -> CompiledZone or Nil]
    fresh,        \* the map the running refresh is building
    listed,       \* the index as the running refresh read it
    todo,         \* listed hostnames the refresh has not settled yet
    fetching,     \* the hostname whose rule-set is being fetched, or Nil
    edgeEpoch,    \* epoch of the snapshot (compared with nothing)
    newEpoch,     \* epoch the running refresh read
    running,      \* whether a refresh is running
    outages       \* number of outages so far (bounded by MaxOutages)

edgeVars == <<served, fresh, listed, todo, fetching, edgeEpoch, newEpoch, running, outages>>

EmptyMap == [h \in Hostnames |-> Nil]

EdgeTypeOK ==
    /\ served \in [Hostnames -> CompiledZone \cup {Nil}]
    /\ fresh \in [Hostnames -> CompiledZone \cup {Nil}]
    /\ listed \subseteq Hostnames
    /\ todo \subseteq listed
    /\ fetching \in todo \cup {Nil}
    /\ {edgeEpoch, newEpoch} \subseteq 0..MaxEpoch
    /\ running \in BOOLEAN
    /\ outages \in 0..MaxOutages

EdgeInit ==
    /\ served = EmptyMap
    /\ fresh = EmptyMap
    /\ listed = {}
    /\ todo = {}
    /\ fetching = Nil
    /\ edgeEpoch = 0
    /\ newEpoch = 0
    /\ running = FALSE
    /\ outages = 0

\* SMEMBERS, then the epoch: the index of the refresh is fixed here.
RefreshStart ==
    /\ ~running
    /\ running' = TRUE
    /\ listed' = index
    /\ todo' = index
    /\ newEpoch' = epoch
    /\ UNCHANGED <<storeVars, served, fresh, fetching, edgeEpoch, outages>>

\* Mutant: the loop variable outlives its iteration.
SettleStillFetching(h, value) ==
    /\ fresh' = [fresh EXCEPT ![h] = value]
    /\ todo' = todo \ {h}
    /\ UNCHANGED fetching

Settle(h, value) ==
    /\ fresh' = [fresh EXCEPT ![h] = value]
    /\ todo' = todo \ {h}
    /\ fetching' = Nil

\* Mutant: a rule-set already served is never fetched again.
CarryForwardAnyVersion(h) ==
    /\ fetching = Nil
    /\ h \in todo
    /\ version[h] # Nil
    /\ served[h] # Nil
    /\ Settle(h, served[h])
    /\ UNCHANGED <<storeVars, served, listed, edgeEpoch, newEpoch, running, outages>>

\* GET version: the announced version is the one served, carry it forward.
CarryForward(h) ==
    /\ fetching = Nil
    /\ h \in todo
    /\ version[h] # Nil
    /\ served[h] # Nil
    /\ served[h].version = version[h]
    /\ Settle(h, served[h])
    /\ UNCHANGED <<storeVars, served, listed, edgeEpoch, newEpoch, running, outages>>

\* GET version: moved, missing or never served; the rule-set is asked next.
VersionMoved(h) ==
    /\ fetching = Nil
    /\ h \in todo
    /\ \/ version[h] = Nil
       \/ served[h] = Nil
       \/ served[h] # Nil /\ served[h].version # version[h]
    /\ fetching' = h
    /\ UNCHANGED <<storeVars, served, fresh, listed, todo, edgeEpoch, newEpoch, running, outages>>

\* Mutant: the schema is not looked at.
AnySchema(p) == p # Nil

Readable(p) == p # Nil /\ p.schema <= Supported

\* GET the rule-set: taken as it is when this build understands it.
Fetch(h) ==
    /\ fetching = h
    /\ Readable(ruleset[h])
    /\ Settle(h, ruleset[h])
    /\ UNCHANGED <<storeVars, served, listed, edgeEpoch, newEpoch, running, outages>>

\* Mutant: what cannot be read is dropped from the new map.
DropUnreadable(h) ==
    /\ fetching = h
    /\ ~Readable(ruleset[h])
    /\ Settle(h, Nil)
    /\ UNCHANGED <<storeVars, served, listed, edgeEpoch, newEpoch, running, outages>>

\* Missing, unparsable or of a newer schema: keep what is served, if anything.
KeepPrevious(h) ==
    /\ fetching = h
    /\ ~Readable(ruleset[h])
    /\ Settle(h, served[h])
    /\ UNCHANGED <<storeVars, served, listed, edgeEpoch, newEpoch, running, outages>>

\* Mutant: the new map is merged into the old one.
SwapMerging ==
    /\ running
    /\ todo = {}
    /\ served' = [h \in Hostnames |-> IF fresh[h] = Nil THEN served[h] ELSE fresh[h]]
    /\ edgeEpoch' = newEpoch
    /\ fresh' = EmptyMap
    /\ listed' = {}
    /\ newEpoch' = 0
    /\ running' = FALSE
    /\ UNCHANGED <<storeVars, todo, fetching, outages>>

\* The atomic pointer swap.
Swap ==
    /\ running
    /\ todo = {}
    /\ served' = fresh
    /\ edgeEpoch' = newEpoch
    /\ fresh' = EmptyMap
    /\ listed' = {}
    /\ newEpoch' = 0
    /\ running' = FALSE
    /\ UNCHANGED <<storeVars, todo, fetching, outages>>

Outage == outages < MaxOutages /\ outages' = outages + 1

\* A GET fails: on the version key the rule-set is fetched all the same, on
\* the rule-set itself the previous one is kept.  (SMEMBERS failing leaves
\* the node as it was.)
ReadFails(h) ==
    /\ Outage
    /\ \/ fetching = Nil /\ h \in todo /\ fetching' = h /\ UNCHANGED <<fresh, todo>>
       \/ fetching = h /\ Settle(h, served[h])
    /\ UNCHANGED <<storeVars, served, listed, edgeEpoch, newEpoch, running>>

\* The node restarts with an empty snapshot and loads it before it serves.
EdgeRestart ==
    /\ Outage
    /\ served' = EmptyMap
    /\ fresh' = EmptyMap
    /\ listed' = {}
    /\ todo' = {}
    /\ fetching' = Nil
    /\ edgeEpoch' = 0
    /\ newEpoch' = 0
    /\ running' = FALSE
    /\ UNCHANGED storeVars

RefreshStep ==
    \/ RefreshStart \/ Swap
    \/ \E h \in Hostnames :
           CarryForward(h) \/ VersionMoved(h) \/ Fetch(h) \/ KeepPrevious(h)

EdgeStep == RefreshStep \/ EdgeRestart \/ \E h \in Hostnames : ReadFails(h)

\* Whoever writes the store uses the distributor's transactions.
EdgeEnvironment ==
    /\ \/ \E p \in CompiledZone : Publish(p)
       \/ \E h \in Hostnames : Unpublish(h)
       \/ BumpEpoch
    /\ UNCHANGED edgeVars

cacheVars == <<storeVars, edgeVars>>

CacheInit == StoreInit /\ EdgeInit

CacheNext == EdgeStep \/ EdgeEnvironment

\* The refresh ticker keeps firing.
CacheFairness == WF_cacheVars(RefreshStep)

CacheSpec == CacheInit /\ [][CacheNext]_cacheVars /\ CacheFairness

(***************************************************************************)
(* The node's maps and the bookkeeping of its refresh stay in their types: *)
(* it fetches only what it still has to settle.  (cache.refreshOnce)       *)
(***************************************************************************)
CacheTypeOK == StoreTypeOK /\ EdgeTypeOK

(***************************************************************************)
(* Whatever interleaving of transactions a refresh reads through, the      *)
(* snapshot maps a hostname to a rule-set compiled for that hostname, of a *)
(* schema this build understands.  (cache.refreshOnce reads three keys per *)
(* hostname without a transaction)                                         *)
(***************************************************************************)
SnapshotSound ==
    \A h \in Hostnames :
        served[h] # Nil => served[h].hostname = h /\ served[h].schema <= Supported

(***************************************************************************)
(* Last good snapshot: a running node stops serving a hostname only when   *)
(* the index it read at the start of that refresh no longer had it; not    *)
(* because a rule-set was missing, unreadable or mid-write.                *)
(* (cache.go, property 2 of the package)                                   *)
(***************************************************************************)
LastGoodKept ==
    [][\A h \in Hostnames :
           served[h] # Nil /\ served'[h] = Nil => h \notin listed \/ EdgeRestart]_cacheVars

(***************************************************************************)
(* A hostname that stays published by a readable rule-set ends up served   *)
(* and stays so; one that stays out of the index ends up refused.          *)
(***************************************************************************)
IndexFollowed ==
    \A h \in Hostnames :
        /\ <>[](h \in index /\ Readable(ruleset[h])) => <>[](served[h] # Nil)
        /\ <>[](h \notin index) => <>[](served[h] = Nil)

(***************************************************************************)
(* When a published rule-set stands still and is readable, the version     *)
(* served for its hostname ends up being the version published.            *)
(***************************************************************************)
VersionFollowed ==
    \A h \in Hostnames, v \in Versions :
        <>[](version[h] = v /\ Readable(ruleset[h])) =>
            <>[](served[h] # Nil /\ served[h].version = v)
==============================================================================
