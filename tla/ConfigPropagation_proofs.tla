------------------------ MODULE ConfigPropagation_proofs ------------------------
(***************************************************************************)
(* Proofs about the edge's snapshot, for any number of hostnames, versions,*)
(* outages and restarts: first under arbitrary writers of the store        *)
(* (EdgeCache), then behind the real distributor.  The composed system     *)
(* implements EdgeCache: the distributor is one of the writers it allows,  *)
(* so what is proved of a node under arbitrary writers holds of it there.  *)
(***************************************************************************)
EXTENDS ConfigPropagation, Distributor_proofs

-----------------------------------------------------------------------------
(* A node under arbitrary writers.                                         *)

\* What a map from hostnames may hold: rule-sets of that hostname this build
\* understands.
MapSound(map) ==
    \A h \in Hostnames : map[h] # Nil => map[h].hostname = h /\ map[h].schema <= Supported

\* Each rule-set in the store is under its own hostname.
StoreKeyed == \A h \in Hostnames : ruleset[h] # Nil => ruleset[h].hostname = h

\* A refresh settled every hostname it listed and no longer has to do, and
\* none that was being served was settled as missing.
RefreshKeeps ==
    \A h \in listed \ todo : served[h] # Nil => fresh[h] # Nil

\* Between two refreshes there is nothing to do.
IdleOK == ~running => todo = {}

EdgeInv ==
    /\ CacheTypeOK
    /\ IdleOK
    /\ StoreKeyed
    /\ MapSound(served)
    /\ MapSound(fresh)
    /\ RefreshKeeps

LEMMA InitEdgeInv == ASSUME CacheInit PROVE EdgeInv
<1>1. EmptyMap \in [Hostnames -> CompiledZone \cup {Nil}] /\ 0 \in 0..MaxEpoch
  BY StoreAssumption DEF EmptyMap
<1>2. StoreTypeOK
  BY <1>1 DEF CacheInit, StoreInit, StoreTypeOK, EmptyMap
<1>3. StoreKeyed
  <2>1. ruleset = [h \in Hostnames |-> Nil]
    BY DEF CacheInit, StoreInit
  <2> QED BY <2>1 DEF StoreKeyed
<1>4. EdgeTypeOK
  <2>1. EdgeInit /\ 0 \in 0..MaxOutages
    BY EdgeAssumption DEF CacheInit
  <2>2. {edgeEpoch, newEpoch} \subseteq 0..MaxEpoch
    BY <1>1, <2>1 DEF EdgeInit
  <2> QED BY <1>1, <2>1, <2>2 DEF EdgeInit, EdgeTypeOK
<1>5. MapSound(served) /\ MapSound(fresh) /\ RefreshKeeps /\ IdleOK
  BY DEF CacheInit, EdgeInit, MapSound, RefreshKeeps, IdleOK, EmptyMap
<1> QED BY <1>2, <1>3, <1>4, <1>5 DEF EdgeInv, CacheTypeOK

\* Writers only ever put a rule-set under its own hostname.
LEMMA EnvironmentKeeps ==
    ASSUME EdgeInv, EdgeEnvironment
    PROVE  EdgeInv'
<1>1. /\ EdgeTypeOK' /\ MapSound(served)' /\ MapSound(fresh)' /\ RefreshKeeps'
  BY DEF EdgeInv, CacheTypeOK, EdgeTypeOK, EdgeEnvironment, edgeVars, MapSound, RefreshKeeps
<1>5. IdleOK'
  BY DEF EdgeInv, EdgeEnvironment, edgeVars, IdleOK
<1>2. ASSUME NEW p \in CompiledZone, Publish(p)
      PROVE  StoreTypeOK' /\ StoreKeyed'
  <2>1. p.hostname \in Hostnames /\ p.version \in Versions
    BY DEF CompiledZone
  <2> QED BY <1>2, <2>1 DEF EdgeInv, CacheTypeOK, StoreTypeOK, StoreKeyed, Publish
<1>3. ASSUME NEW h \in Hostnames, Unpublish(h)
      PROVE  StoreTypeOK' /\ StoreKeyed'
  BY <1>3 DEF EdgeInv, CacheTypeOK, StoreTypeOK, StoreKeyed, Unpublish
<1>4. ASSUME BumpEpoch
      PROVE  StoreTypeOK' /\ StoreKeyed'
  BY <1>4, StoreAssumption DEF EdgeInv, CacheTypeOK, StoreTypeOK, StoreKeyed, BumpEpoch
<1> QED BY <1>1, <1>2, <1>3, <1>4, <1>5 DEF EdgeEnvironment, EdgeInv, CacheTypeOK

\* Settling a hostname on something sound keeps the map under way sound.
LEMMA SettleKeeps ==
    ASSUME EdgeInv, NEW h \in todo, NEW value \in CompiledZone \cup {Nil}, Settle(h, value),
           value # Nil => value.hostname = h /\ value.schema <= Supported,
           served[h] # Nil => value # Nil,
           UNCHANGED <<storeVars, served, listed, edgeEpoch, newEpoch, running>>,
           outages' \in 0..MaxOutages
    PROVE  EdgeInv'
<1> USE DEF EdgeInv, CacheTypeOK, Settle, storeVars
<1>1. StoreTypeOK' /\ StoreKeyed'
  BY DEF StoreTypeOK, StoreKeyed
<1>2. EdgeTypeOK'
  BY DEF EdgeTypeOK
<1>3. MapSound(served)' /\ MapSound(fresh)'
  BY DEF MapSound, EdgeTypeOK
<1>4. RefreshKeeps' /\ IdleOK'
  BY DEF RefreshKeeps, EdgeTypeOK, IdleOK
<1> QED BY <1>1, <1>2, <1>3, <1>4

\* Every step of the node keeps the invariant.
LEMMA EdgeStepKeeps ==
    ASSUME EdgeInv, EdgeStep
    PROVE  EdgeInv'
<1>a. /\ StoreTypeOK /\ StoreKeyed /\ MapSound(served) /\ EdgeTypeOK
  BY DEF EdgeInv, CacheTypeOK
<1>b. todo \subseteq Hostnames /\ Nil \notin Hostnames
  BY <1>a, StoreAssumption DEF EdgeTypeOK
<1>c. ASSUME Outage PROVE outages' \in 0..MaxOutages
  BY <1>a, <1>c, EdgeAssumption DEF Outage, EdgeTypeOK
<1>d. ASSUME UNCHANGED outages PROVE outages' \in 0..MaxOutages
  BY <1>a, <1>d DEF EdgeTypeOK
<1>s. ASSUME NEW h \in Hostnames
      PROVE  /\ served[h] \in CompiledZone \cup {Nil}
             /\ served[h] # Nil => served[h].hostname = h /\ served[h].schema <= Supported
  BY <1>a DEF EdgeTypeOK, MapSound
<1>1. ASSUME RefreshStart PROVE EdgeInv'
  BY <1>1 DEF RefreshStart, EdgeInv, CacheTypeOK, StoreTypeOK, EdgeTypeOK, StoreKeyed, MapSound,
              RefreshKeeps, IdleOK, storeVars
<1>2. ASSUME NEW h \in Hostnames, CarryForward(h) PROVE EdgeInv'
  BY <1>2, <1>d, <1>s, SettleKeeps DEF CarryForward
<1>3. ASSUME NEW h \in Hostnames, VersionMoved(h) PROVE EdgeInv'
  BY <1>3 DEF VersionMoved, EdgeInv, CacheTypeOK, StoreTypeOK, EdgeTypeOK, StoreKeyed, MapSound,
              RefreshKeeps, IdleOK, storeVars
<1>4. ASSUME NEW h \in Hostnames, Fetch(h) PROVE EdgeInv'
  <2>1. h \in todo
    BY <1>4, <1>a, <1>b DEF Fetch, EdgeTypeOK
  <2>2. /\ ruleset[h] \in CompiledZone \cup {Nil} /\ ruleset[h] # Nil
        /\ ruleset[h].hostname = h /\ ruleset[h].schema <= Supported
    BY <1>4, <1>a DEF Fetch, Readable, StoreTypeOK, StoreKeyed
  <2> QED BY <1>4, <1>d, <2>1, <2>2, SettleKeeps DEF Fetch
<1>5. ASSUME NEW h \in Hostnames, KeepPrevious(h) PROVE EdgeInv'
  <2>1. h \in todo
    BY <1>5, <1>a, <1>b DEF KeepPrevious, EdgeTypeOK
  <2> QED BY <1>5, <1>d, <1>s, <2>1, SettleKeeps DEF KeepPrevious
<1>e. /\ EmptyMap \in [Hostnames -> CompiledZone \cup {Nil}]
      /\ MapSound(EmptyMap)
      /\ 0 \in 0..MaxEpoch
  BY StoreAssumption DEF EmptyMap, MapSound
<1>6. ASSUME Swap PROVE EdgeInv'
  <2>1. StoreTypeOK' /\ StoreKeyed'
    BY <1>6, <1>a DEF Swap, storeVars, StoreTypeOK, StoreKeyed
  <2>2. EdgeTypeOK'
    BY <1>6, <1>a, <1>d, <1>e DEF Swap, EdgeTypeOK
  <2>3. MapSound(served)' /\ MapSound(fresh)'
    BY <1>6, <1>e DEF Swap, EdgeInv, MapSound
  <2>4. RefreshKeeps' /\ IdleOK'
    BY <1>6 DEF Swap, RefreshKeeps, IdleOK
  <2> QED BY <2>1, <2>2, <2>3, <2>4 DEF EdgeInv, CacheTypeOK
<1>7. ASSUME NEW h \in Hostnames, ReadFails(h) PROVE EdgeInv'
  <2>1. CASE h \in todo /\ fetching' = h /\ UNCHANGED <<fresh, todo>>
    BY <1>7, <1>c, <2>1 DEF ReadFails, EdgeInv, CacheTypeOK, StoreTypeOK, EdgeTypeOK, StoreKeyed,
                            MapSound, RefreshKeeps, IdleOK, storeVars
  <2>2. CASE fetching = h /\ Settle(h, served[h])
    <3>1. h \in todo
      BY <1>a, <1>b, <2>2 DEF EdgeTypeOK
    <3> QED BY <1>7, <1>c, <1>s, <2>2, <3>1, SettleKeeps DEF ReadFails
  <2> QED BY <1>7, <2>1, <2>2 DEF ReadFails
<1>8. ASSUME EdgeRestart PROVE EdgeInv'
  <2>1. StoreTypeOK' /\ StoreKeyed'
    BY <1>8, <1>a DEF EdgeRestart, storeVars, StoreTypeOK, StoreKeyed
  <2>2. EdgeTypeOK'
    BY <1>8, <1>c, <1>e DEF EdgeRestart, EdgeTypeOK
  <2>3. MapSound(served)' /\ MapSound(fresh)'
    BY <1>8, <1>e DEF EdgeRestart, MapSound
  <2>4. RefreshKeeps' /\ IdleOK'
    BY <1>8 DEF EdgeRestart, RefreshKeeps, IdleOK
  <2> QED BY <2>1, <2>2, <2>3, <2>4 DEF EdgeInv, CacheTypeOK
<1> QED BY <1>1, <1>2, <1>3, <1>4, <1>5, <1>6, <1>7, <1>8 DEF EdgeStep, RefreshStep

LEMMA CacheNextKeeps ==
    ASSUME EdgeInv, [CacheNext]_cacheVars
    PROVE  EdgeInv'
<1>1. CASE UNCHANGED cacheVars
  BY <1>1 DEF cacheVars, edgeVars, storeVars, EdgeInv, CacheTypeOK, StoreTypeOK, EdgeTypeOK,
              StoreKeyed, MapSound, RefreshKeeps, IdleOK
<1> QED BY <1>1, EnvironmentKeeps, EdgeStepKeeps DEF CacheNext

\* The only steps that stop serving a hostname: a restart, or the swap of a
\* refresh that did not list it.
LEMMA OnlyUnlistedDropped ==
    ASSUME EdgeInv, [CacheNext]_cacheVars, NEW h \in Hostnames,
           served[h] # Nil, served'[h] = Nil
    PROVE  h \notin listed \/ EdgeRestart
<1>1. ASSUME Swap PROVE h \notin listed
  BY <1>1 DEF Swap, EdgeInv, RefreshKeeps
<1>2. served' = served \/ Swap \/ EdgeRestart
  BY DEF CacheNext, EdgeStep, RefreshStep, RefreshStart, CarryForward, VersionMoved, Fetch,
         KeepPrevious, ReadFails, EdgeEnvironment, edgeVars, cacheVars
<1> QED BY <1>1, <1>2

(***************************************************************************)
(* The node's maps keep their types and the store it reads its own.        *)
(***************************************************************************)
THEOREM CacheTypes == CacheSpec => []CacheTypeOK
<1>1. EdgeInv => CacheTypeOK
  BY DEF EdgeInv
<1> QED BY <1>1, InitEdgeInv, CacheNextKeeps, PTL DEF CacheSpec

(***************************************************************************)
(* A request for a hostname is never judged by another hostname's rules or *)
(* by a rule-set of a schema the node does not understand.                 *)
(***************************************************************************)
THEOREM SnapshotIsSound == CacheSpec => []SnapshotSound
<1>1. EdgeInv => SnapshotSound
  BY DEF EdgeInv, MapSound, SnapshotSound
<1> QED BY <1>1, InitEdgeInv, CacheNextKeeps, PTL DEF CacheSpec

(***************************************************************************)
(* A hostname that is being served is dropped by a refresh only when the   *)
(* index that refresh read no longer lists it.                             *)
(***************************************************************************)
THEOREM LastGoodIsKept == CacheSpec => LastGoodKept
<1>1. EdgeInv /\ [CacheNext]_cacheVars =>
          [\A h \in Hostnames :
               served[h] # Nil /\ served'[h] = Nil => h \notin listed \/ EdgeRestart]_cacheVars
  BY OnlyUnlistedDropped
<1> QED BY <1>1, InitEdgeInv, CacheNextKeeps, PTL DEF CacheSpec, LastGoodKept

-----------------------------------------------------------------------------
(* The distributor is such a writer.                                       *)

\* A step of the distributor is one transaction of EdgeCache's environment,
\* or leaves the store alone.
LEMMA DistStepWrites ==
    ASSUME TypeInv, DistNext, UNCHANGED edgeVars
    PROVE  EdgeEnvironment \/ UNCHANGED cacheVars
<1> DEFINE Writes == \/ UNCHANGED storeVars
                     \/ \E p \in CompiledZone : Publish(p)
                     \/ \E h \in Hostnames : Unpublish(h)
                     \/ BumpEpoch
<1>1. ASSUME NEW w \in Workers, SubStep(w) \/ SubFails(w)
      PROVE  Writes
  <2>1. sub[w] \in SubState /\ SubOK(sub[w])
    BY DEF TypeInv, DistTypeOK, WorkerTypeOK, LocalInv
  <2>2. sub[w].pc # "idle" => sub[w].msg \in Message
    BY <2>1 DEF SubOK, SubState
  <2>3. sub[w].pc = "rename" => sub[w].msg.hostname \in Hostnames
    BY <2>1, <2>2 DEF SubOK, Message
  <2>4. sub[w].pc = "unpublish" => sub[w].host \in Hostnames
    BY <2>1 DEF SubOK, SubState
  <2> QED BY <1>1, <2>3, <2>4, SubCompiledType
          DEF SubStep, SubFails, AckUnresolvable, Deliver, RequeueTenantWide, SubReadZone,
              SubReadRecords, SubUnpublishOld, SubPublish, SubUnpublish
<1>2. ASSUME NEW w \in Workers, SweepStep(w) \/ SweepFails(w)
      PROVE  Writes
  <2>1. sweep[w].orphans \subseteq Hostnames
    BY DEF TypeInv, DistTypeOK, WorkerTypeOK, SweepState
  <2> QED BY <1>2, <2>1, SweepCompiledType
          DEF SweepStep, SweepFails, SweepStart, SweepReadTenant, SweepReadRecords,
              SweepPublish, SweepReadIndex, SweepUnpublish, SweepEnd
<1>3. Writes
  BY <1>1, <1>2 DEF DistNext, Failure, Crash, LoseMessage
<1> QED BY <1>3 DEF EdgeEnvironment, cacheVars

LEMMA NextIsCacheNext ==
    ASSUME TypeInv, [Next]_vars
    PROVE  TypeInv' /\ [CacheNext]_cacheVars
<1>1. CASE DistNext /\ UNCHANGED edgeVars
  BY <1>1, NextInv, DistStepWrites DEF CacheNext
<1>2. CASE EdgeStep /\ UNCHANGED <<dataVars, workerVars>>
  <2>1. UNCHANGED storeVars
    BY <1>2 DEF EdgeStep, RefreshStep, RefreshStart, CarryForward, VersionMoved, Fetch,
                KeepPrevious, Swap, ReadFails, EdgeRestart, storeVars
  <2>2. TypeInv'
    BY <1>2, <2>1, NextInv DEF distVars
  <2> QED BY <1>2, <2>2 DEF CacheNext
<1>3. CASE UNCHANGED vars
  <2>1. UNCHANGED cacheVars /\ UNCHANGED distVars
    BY <1>3 DEF vars, cacheVars, distVars
  <2> QED BY <2>1, NextInv
<1> QED BY <1>1, <1>2, <1>3 DEF Next

(***************************************************************************)
(* Every behaviour of the system, seen through the store and the node, is  *)
(* a behaviour of a node under arbitrary writers.                          *)
(***************************************************************************)
THEOREM DistributorIsLegalWriter == Spec => ImplementsEdgeCache
<1>1. Init => TypeInv /\ CacheInit
  BY InitTypeInv DEF Init, CacheInit, DistInit
<1>2. TypeInv /\ [Next]_vars => TypeInv' /\ [CacheNext]_cacheVars
  BY NextIsCacheNext
<1> QED BY <1>1, <1>2, PTL DEF Spec, ImplementsEdgeCache

(***************************************************************************)
(* Behind the real distributor too, a request is judged by the rule-set of *)
(* its own hostname, of a schema the node understands.                     *)
(***************************************************************************)
THEOREM ServedRulesAreSound == Spec => []SnapshotSound
<1>1. EdgeInv => SnapshotSound
  BY DEF EdgeInv, MapSound, SnapshotSound
<1>2. ImplementsEdgeCache => []SnapshotSound
  BY <1>1, InitEdgeInv, CacheNextKeeps, PTL DEF ImplementsEdgeCache
<1> QED BY <1>2, DistributorIsLegalWriter, PTL

(***************************************************************************)
(* Behind the real distributor too, a refresh drops a hostname only when   *)
(* the index it read no longer lists it.                                   *)
(***************************************************************************)
THEOREM ServedIsKept == Spec => LastGoodKept
<1>1. EdgeInv /\ [CacheNext]_cacheVars =>
          [\A h \in Hostnames :
               served[h] # Nil /\ served'[h] = Nil => h \notin listed \/ EdgeRestart]_cacheVars
  BY OnlyUnlistedDropped
<1>2. ImplementsEdgeCache => LastGoodKept
  BY <1>1, InitEdgeInv, CacheNextKeeps, PTL DEF ImplementsEdgeCache, LastGoodKept
<1> QED BY <1>2, DistributorIsLegalWriter, PTL

-----------------------------------------------------------------------------
(* A refresh of a store that stands still.                                 *)

\* The node serves each published hostname under the version announced, and
\* nothing else.
Followed ==
    \A h \in Hostnames :
        IF version[h] = Nil THEN served[h] = Nil
        ELSE served[h] # Nil /\ served[h].version = version[h]

AllReadable == \A h \in Hostnames : ruleset[h] # Nil => Readable(ruleset[h])

\* What is published keeps its versions, and the node has no outage.
Still == version' = version /\ outages' = outages

\* Between two refreshes the map under way is empty.
FreshInv ==
    /\ EdgeInv
    /\ StoreConsistent
    /\ ~running => fresh = EmptyMap /\ fetching = Nil

\* Where a refresh that began since then stands.
RefreshFollows ==
    running =>
        \A h \in Hostnames :
            /\ version[h] = Nil => h \notin listed /\ fresh[h] = Nil
            /\ version[h] # Nil =>
                   \/ h \in todo
                   \/ fresh[h] # Nil /\ fresh[h].version = version[h]

LEMMA FreshInvHolds ==
    /\ CacheInit => FreshInv
    /\ FreshInv /\ [CacheNext]_cacheVars => FreshInv'
<1>1. CacheInit => FreshInv
  BY InitEdgeInv DEF FreshInv, CacheInit, StoreInit, EdgeInit, StoreConsistent
<1>2. ASSUME FreshInv, [CacheNext]_cacheVars PROVE FreshInv'
  <2>1. EdgeInv'
    BY <1>2, CacheNextKeeps DEF FreshInv
  <2>2. StoreConsistent'
    <3>1. CASE EdgeEnvironment
      BY <1>2, <3>1, PublishStore, UnpublishStore, BumpEpochStore
      DEF FreshInv, EdgeInv, CacheTypeOK, EdgeEnvironment
    <3>2. CASE UNCHANGED storeVars
      BY <1>2, <3>2, StoreUnchanged DEF FreshInv
    <3> QED BY <1>2, <3>1, <3>2
            DEF CacheNext, EdgeStep, RefreshStep, RefreshStart, CarryForward, VersionMoved, Fetch,
                KeepPrevious, Swap, ReadFails, EdgeRestart, cacheVars, storeVars
  <2>3. (~running => fresh = EmptyMap /\ fetching = Nil)'
    <3>1. ~running => todo = {} /\ fetching = Nil /\ fresh = EmptyMap
      BY <1>2 DEF FreshInv, EdgeInv, IdleOK
    <3>2. fetching \in todo \cup {Nil} /\ todo \subseteq Hostnames /\ Nil \notin Hostnames
      BY <1>2, StoreAssumption DEF FreshInv, EdgeInv, CacheTypeOK, EdgeTypeOK
    <3>3. CASE EdgeEnvironment \/ UNCHANGED cacheVars
      BY <3>1, <3>3 DEF EdgeEnvironment, edgeVars, cacheVars
    <3>4. CASE RefreshStart \/ EdgeRestart
      BY <3>1, <3>4 DEF RefreshStart, EdgeRestart
    <3>5. CASE Swap
      BY <3>2, <3>5, <1>2 DEF Swap
    <3>6. ASSUME NEW h \in Hostnames,
                 CarryForward(h) \/ VersionMoved(h) \/ Fetch(h) \/ KeepPrevious(h) \/ ReadFails(h)
          PROVE  (~running => fresh = EmptyMap /\ fetching = Nil)'
      <4>1. h \in todo /\ running' = running
        BY <3>2, <3>6 DEF CarryForward, VersionMoved, Fetch, KeepPrevious, ReadFails
      <4> QED BY <3>1, <4>1
    <3> QED BY <1>2, <3>3, <3>4, <3>5, <3>6 DEF CacheNext, EdgeStep, RefreshStep
  <2> QED BY <2>1, <2>2, <2>3 DEF FreshInv
<1> QED BY <1>1, <1>2

LEMMA StillRefresh ==
    ASSUME FreshInv, RefreshFollows, AllReadable, [CacheNext]_cacheVars, [Still]_cacheVars
    PROVE  /\ RefreshFollows'
           /\ Followed => Followed'
           /\ Swap => Followed'
<1>a. /\ served \in [Hostnames -> CompiledZone \cup {Nil}]
      /\ fresh \in [Hostnames -> CompiledZone \cup {Nil}]
      /\ listed \subseteq Hostnames /\ todo \subseteq listed /\ fetching \in todo \cup {Nil}
      /\ Nil \notin Hostnames
      /\ version' = version
      /\ outages \in Nat
  BY StoreAssumption, EdgeAssumption
  DEF FreshInv, EdgeInv, CacheTypeOK, EdgeTypeOK, Still, cacheVars, storeVars
<1>b. \A h \in Hostnames : /\ version[h] = Nil <=> h \notin index
                           /\ version[h] # Nil => /\ Readable(ruleset[h])
                                                  /\ ruleset[h].version = version[h]
  <2>1. \A h \in Hostnames : ruleset[h] # Nil => ruleset[h].version # Nil
    BY DataPlaneAssumption DEF FreshInv, EdgeInv, CacheTypeOK, StoreTypeOK, CompiledZone
  <2> QED BY <2>1 DEF FreshInv, StoreConsistent, AllReadable
<1>c. ~Outage
  <2>1. CASE Still
    BY <1>a, <2>1 DEF Still, Outage
  <2>2. CASE UNCHANGED cacheVars
    BY <1>a, <2>2 DEF cacheVars, edgeVars, Outage
  <2> QED BY <2>1, <2>2
<1> DEFINE Goal == /\ RefreshFollows'
                   /\ Followed => Followed'
                   /\ Swap => Followed'
<1>d. ASSUME UNCHANGED <<served, fresh, listed, todo, running>>, ~Swap PROVE Goal
  BY <1>a, <1>d DEF RefreshFollows, Followed
<1>1. CASE EdgeEnvironment \/ UNCHANGED cacheVars
  <2>1. UNCHANGED <<served, fresh, listed, todo, running>>
    BY <1>1 DEF EdgeEnvironment, edgeVars, cacheVars
  <2>2. ~Swap
    BY <2>1 DEF Swap
  <2> QED BY <1>d, <2>1, <2>2
<1>2. CASE RefreshStart
  <2>1. /\ running' /\ listed' = index /\ todo' = index
        /\ served' = served /\ fresh' = fresh /\ fresh = EmptyMap /\ ~running
    BY <1>2 DEF RefreshStart, FreshInv
  <2>2. RefreshFollows'
    BY <1>a, <1>b, <2>1 DEF RefreshFollows, EmptyMap
  <2>3. Followed => Followed'
    BY <1>a, <2>1 DEF Followed
  <2>4. ~Swap
    BY <2>1 DEF Swap
  <2> QED BY <2>2, <2>3, <2>4
<1>3. CASE Swap
  <2>1. running /\ todo = {} /\ served' = fresh /\ ~running'
    BY <1>3 DEF Swap
  <2>2. Followed'
    BY <1>a, <2>1 DEF Followed, RefreshFollows
  <2>3. RefreshFollows'
    BY <2>1 DEF RefreshFollows
  <2> QED BY <2>2, <2>3
<1>4. ASSUME NEW h \in Hostnames, NEW value \in CompiledZone \cup {Nil}, Settle(h, value),
             version[h] # Nil => value # Nil /\ value.version = version[h],
             h \in todo, UNCHANGED <<served, listed, running>>
      PROVE  Goal
  <2>1. running
    BY <1>4 DEF FreshInv, EdgeInv, IdleOK
  <2>2. version[h] # Nil
    BY <1>a, <1>4, <2>1 DEF RefreshFollows
  <2>3. /\ todo' = todo \ {h} /\ running'
        /\ \A g \in Hostnames : fresh'[g] = IF g = h THEN value ELSE fresh[g]
    BY <1>a, <1>4, <2>1 DEF Settle
  <2>4. RefreshFollows'
    BY <1>a, <1>4, <2>1, <2>2, <2>3 DEF RefreshFollows
  <2>5. Followed => Followed'
    BY <1>a, <1>4 DEF Followed
  <2>6. ~Swap
    BY <2>1, <2>3 DEF Swap
  <2> QED BY <2>4, <2>5, <2>6
<1>5. ASSUME NEW h \in Hostnames, CarryForward(h) PROVE Goal
  BY <1>4, <1>5, <1>a DEF CarryForward
<1>6. ASSUME NEW h \in Hostnames, VersionMoved(h) PROVE Goal
  <2>1. UNCHANGED <<served, fresh, listed, todo, running>> /\ todo # {}
    BY <1>6 DEF VersionMoved
  <2>2. ~Swap
    BY <2>1 DEF Swap
  <2> QED BY <1>d, <2>1, <2>2
<1>7. ASSUME NEW h \in Hostnames, Fetch(h) PROVE Goal
  <2>1. h \in todo /\ ruleset[h] \in CompiledZone \cup {Nil}
    BY <1>7, <1>a DEF Fetch, FreshInv, EdgeInv, CacheTypeOK, StoreTypeOK
  <2>2. version[h] # Nil => ruleset[h] # Nil /\ ruleset[h].version = version[h]
    BY <1>b DEF Readable
  <2> QED BY <1>4, <1>7, <2>1, <2>2 DEF Fetch
<1>8. ASSUME NEW h \in Hostnames, KeepPrevious(h) PROVE FALSE
  <2>1. h \in todo /\ running
    BY <1>8, <1>a DEF KeepPrevious, FreshInv, EdgeInv, IdleOK
  <2>2. version[h] # Nil
    BY <1>a, <2>1 DEF RefreshFollows
  <2> QED BY <1>b, <1>8, <2>2 DEF KeepPrevious
<1> QED BY <1>c, <1>1, <1>2, <1>3, <1>5, <1>6, <1>7, <1>8
        DEF CacheNext, EdgeStep, RefreshStep, ReadFails, EdgeRestart

(***************************************************************************)
(* A refresh that begins when what is published stands still, can be read  *)
(* and is read without an outage swaps in a snapshot that follows it: each *)
(* published hostname under its version and no other hostname, whatever    *)
(* the node served before; and that stays so.  The safety half of          *)
(* IndexFollowed and VersionFollowed; that a refresh comes to its swap is  *)
(* the other half.  (cache.refreshOnce)                                    *)
(***************************************************************************)
THEOREM QuietRefreshFollows ==
    ImplementsEdgeCache =>
        [](~running /\ []AllReadable /\ [][Still]_cacheVars
               => /\ [][Swap => Followed']_cacheVars
                  /\ [](Followed => []Followed))
<1>1. FreshInv /\ ~running => RefreshFollows
  BY DEF RefreshFollows
<1>2. FreshInv /\ RefreshFollows /\ AllReadable /\ [CacheNext]_cacheVars /\ [Still]_cacheVars
          => RefreshFollows'
  BY StillRefresh
<1>3. FreshInv /\ RefreshFollows /\ AllReadable /\ [CacheNext]_cacheVars /\ [Still]_cacheVars
          => [Swap => Followed']_cacheVars
  BY StillRefresh
<1>4. FreshInv /\ RefreshFollows /\ AllReadable /\ [CacheNext]_cacheVars /\ [Still]_cacheVars
          /\ Followed => Followed'
  BY StillRefresh
<1> QED BY <1>1, <1>2, <1>3, <1>4, FreshInvHolds, PTL DEF ImplementsEdgeCache

-----------------------------------------------------------------------------
(* What a version says about the content announced under it.                *)

\* Version v of z has existed: ids do not come back and versions only rise.
Known(z, v) == IF zone[z] = Nil THEN z \in touched ELSE v <= zone[z].version

\* Version v of z is its current one, raised after its last change.
Settled(z, v) == zone[z] # Nil /\ zone[z].version = v /\ z \notin owed

\* A rule-set under the settled version of its zone has the current content.
Tells(p) ==
    p # Nil => /\ Known(p.zone, p.version)
               /\ Settled(p.zone, p.version) => Matches(p, p.zone)

\* A record read when version v was current is the current one if v is settled.
RecordTells(z, rec) ==
    /\ Known(z, rec.version)
    /\ Settled(z, rec.version) => rec = zone[z]

OwnRecords(z) == {r \in stored : Owner[r] = z}

SubTells(s) ==
    /\ s.pc \in {"idle", "zone"} => s.k = 1 /\ s.rules = {}
    /\ s.pc \in {"records", "rename", "publish"} => RecordTells(s.msg.zone, s.rec)
    /\ s.pc = "records" =>
           /\ s.k \in 1..Len(ReadOrder)
           /\ Settled(s.msg.zone, s.rec.version) =>
                  s.rules = FirstRead(ReadOrder, s.k, s.msg.zone)
    /\ s.pc \in {"rename", "publish"} =>
           (Settled(s.msg.zone, s.rec.version) => s.rules = OwnRecords(s.msg.zone))

SweepTells(s) ==
    /\ s.tenant = {}
    /\ s.pc = "idle" => s.k = 1
    /\ s.pc \in {"idle", "tenant"} => s.rules = {}
    /\ s.pc \in {"tenant", "zones", "publish"} =>
           \A z \in Zones : s.seen[z] # Nil => RecordTells(z, s.seen[z])
    /\ s.pc = "zones" =>
           /\ s.k \in 1..Len(ReadOrder)
           /\ s.cur = Nil => s.k = 1 /\ s.rules = {}
           /\ s.cur # Nil /\ Settled(s.cur, s.seen[s.cur].version) =>
                  s.rules = FirstRead(ReadOrder, s.k, s.cur)
    /\ s.pc = "publish" =>
           (Settled(s.cur, s.seen[s.cur].version) => s.rules = OwnRecords(s.cur))

StoreTells == \A h \in Hostnames : Tells(ruleset[h])

TellsInv ==
    /\ StoreTells
    /\ \A w \in Workers : SubTells(sub[w]) /\ SweepTells(sweep[w])

\* Whatever a client writes, it says something new about a zone's content only
\* under a version nobody has seen yet, or while the zone is owed one.
LEMMA SaysStays ==
    ASSUME DataTypeOK, ClientWrite \/ UNCHANGED <<zone, stored, owed, touched>>,
           NEW z \in Zones, NEW v \in Nat, Known(z, v)
    PROVE  /\ Known(z, v)'
           /\ Settled(z, v)' =>
                  /\ Settled(z, v)
                  /\ zone'[z] = zone[z]
                  /\ \A r \in Records : Owner[r] = z => (r \in stored' <=> r \in stored)
<1> DEFINE Says == /\ Known(z, v)'
                   /\ Settled(z, v)' =>
                          /\ Settled(z, v)
                          /\ zone'[z] = zone[z]
                          /\ \A r \in Records : Owner[r] = z => (r \in stored' <=> r \in stored)
<1>a. /\ zone \in [Zones -> ZoneRecord \cup {Nil}] /\ stored \subseteq Records
      /\ \A y \in Zones : zone[y] # Nil => zone[y] \in ZoneRecord /\ zone[y].version \in Nat
      /\ Nil \notin ZoneRecord
  BY DataPlaneAssumption, StoreAssumption DEF DataTypeOK, ZoneRecord
<1>1. ASSUME NEW y \in Zones, NEW rec \in ZoneRecord, ZoneChange(y, rec),
             zone[y] = Nil => y \notin touched,
             zone[y] # Nil => rec.version = zone[y].version
      PROVE  Says
  <2>1. /\ zone' = [zone EXCEPT ![y] = rec] /\ owed' = owed \cup {y}
        /\ touched' = touched \cup {y} /\ stored' = stored
    BY <1>1 DEF ZoneChange
  <2> QED BY <1>1, <1>a, <2>1 DEF Known, Settled
<1>2. ASSUME NEW y \in Zones, NEW h \in Hostnames, CreateZone(y, h) PROVE Says
  <2>1. [hostname |-> h, status |-> "pending", version |-> 1] \in ZoneRecord
    BY DataPlaneAssumption DEF ZoneRecord, Statuses
  <2> QED BY <1>1, <1>2, <2>1 DEF CreateZone
<1>3. ASSUME NEW y \in Zones, NEW h \in Hostnames, Rename(y, h) PROVE Says
  <2>1. zone[y] # Nil /\ ZoneChange(y, [zone[y] EXCEPT !.hostname = h])
    BY <1>3 DEF Rename
  <2>2. /\ [zone[y] EXCEPT !.hostname = h] \in ZoneRecord
        /\ [zone[y] EXCEPT !.hostname = h].version = zone[y].version
    BY <1>a, <2>1 DEF ZoneRecord
  <2> QED BY <1>1, <2>1, <2>2
<1>4. ASSUME NEW y \in Zones, NEW st \in Statuses, Transition(y, st) PROVE Says
  <2>1. zone[y] # Nil /\ ZoneChange(y, [zone[y] EXCEPT !.status = st])
    BY <1>4 DEF Transition
  <2>2. /\ [zone[y] EXCEPT !.status = st] \in ZoneRecord
        /\ [zone[y] EXCEPT !.status = st].version = zone[y].version
    BY <1>a, <2>1 DEF ZoneRecord
  <2> QED BY <1>1, <2>1, <2>2
<1>5. ASSUME NEW y \in Zones, DeleteZone(y) PROVE Says
  <2>1. /\ zone' = [zone EXCEPT ![y] = Nil] /\ owed' = owed \ {y}
        /\ touched' = touched \cup {y} /\ stored' = stored
    BY <1>5 DEF DeleteZone
  <2> QED BY <1>a, <2>1 DEF Known, Settled
<1>6. ASSUME NEW y \in Zones, BumpVersion(y) PROVE Says
  <2>1. /\ zone[y] # Nil
        /\ zone' = [zone EXCEPT ![y].version = @ + 1] /\ owed' = owed \ {y}
        /\ touched' = touched /\ stored' = stored
    BY <1>6 DEF BumpVersion
  <2>2. \A x \in Zones : x # y => zone'[x] = zone[x] /\ (x \in owed' <=> x \in owed)
    BY <1>a, <2>1
  <2>3. zone'[y] # Nil /\ zone'[y].version = zone[y].version + 1
    <3>1. zone'[y] = [zone[y] EXCEPT !.version = @ + 1]
      BY <1>a, <2>1
    <3>2. zone[y].version + 1 \in Versions
      BY <1>6 DEF BumpVersion
    <3>3. zone'[y] \in ZoneRecord
      BY <1>a, <2>1, <3>1, <3>2 DEF ZoneRecord
    <3> QED BY <1>a, <2>1, <3>1, <3>3 DEF ZoneRecord
  <2>4. CASE z = y
    BY <1>a, <2>1, <2>3, <2>4 DEF Known, Settled
  <2>5. CASE z # y
    BY <2>1, <2>2, <2>5 DEF Known, Settled
  <2> QED BY <2>4, <2>5
<1>7. ASSUME NEW r \in Records, PutRecord(r) \/ DropRecord(r) PROVE Says
  <2>1. /\ zone' = zone /\ touched' = touched
        /\ owed' = owed \cup {y \in Zones : zone[y] # Nil /\ Owner[r] \in {y, Global}}
        /\ \A q \in Records : q # r => (q \in stored' <=> q \in stored)
    BY <1>7 DEF PutRecord, DropRecord, RecordOwed
  <2> QED BY <2>1 DEF Known, Settled
<1>8. CASE UNCHANGED <<zone, stored, owed, touched>>
  BY <1>8 DEF Known, Settled
<1> QED BY <1>2, <1>3, <1>4, <1>5, <1>6, <1>7, <1>8 DEF ClientWrite

\* Without tenant-wide records a zone's content is its own.
LEMMA WantedOwn ==
    ASSUME NoTenantWide, NEW z \in Zones
    PROVE  /\ stored \subseteq Records =>
                  Wanted(z) = [hostname |-> zone[z].hostname, status |-> zone[z].status,
                               version |-> zone[z].version, rules |-> OwnRecords(z)]
           /\ stored' \subseteq Records =>
                  Wanted(z)' = [hostname |-> zone'[z].hostname, status |-> zone'[z].status,
                                version |-> zone'[z].version, rules |-> OwnRecords(z)']
<1>1. \A S \in SUBSET Records :
          {r \in S : Owner[r] \in {z, Global}} = {r \in S : Owner[r] = z}
  BY DEF NoTenantWide
<1> QED BY <1>1 DEF Wanted, OwnRecords

\* So what has been read, compiled or published goes on telling the truth.
LEMMA TellsStays ==
    ASSUME NoTenantWide, DataTypeOK,
           ClientWrite \/ UNCHANGED <<zone, stored, owed, touched>>
    PROVE  /\ \A p \in CompiledZone \cup {Nil} : Tells(p) => Tells(p)'
           /\ \A s \in SubState : SubOK(s) /\ SubTells(s) => SubTells(s)'
           /\ \A s \in SweepState : SweepOK(s) /\ SweepTells(s) => SweepTells(s)'
<1>a. \A z \in Zones, v \in Nat : Known(z, v) =>
          /\ Known(z, v)'
          /\ Settled(z, v)' =>
                  /\ Settled(z, v)
                  /\ zone'[z] = zone[z]
                  /\ OwnRecords(z)' = OwnRecords(z)
                  /\ \A order, k : FirstRead(order, k, z)' = FirstRead(order, k, z)
  <2> SUFFICES ASSUME NEW z \in Zones, NEW v \in Nat, Known(z, v)
               PROVE  /\ Known(z, v)'
                      /\ Settled(z, v)' =>
                             /\ Settled(z, v)
                             /\ zone'[z] = zone[z]
                             /\ OwnRecords(z)' = OwnRecords(z)
                             /\ \A order, k : FirstRead(order, k, z)' = FirstRead(order, k, z)
    OBVIOUS
  <2>1. /\ Known(z, v)'
        /\ Settled(z, v)' =>
               /\ Settled(z, v)
               /\ zone'[z] = zone[z]
               /\ \A r \in Records : Owner[r] = z => (r \in stored' <=> r \in stored)
    BY SaysStays
  <2>2. stored \subseteq Records /\ stored' \subseteq Records
    BY ClientWriteType DEF DataTypeOK
  <2> QED BY <2>1, <2>2 DEF OwnRecords, FirstRead
<1>1. ASSUME NEW p \in CompiledZone \cup {Nil}, Tells(p) PROVE Tells(p)'
  <2> SUFFICES ASSUME p # Nil
               PROVE  /\ Known(p.zone, p.version)'
                      /\ Settled(p.zone, p.version)' => Matches(p, p.zone)'
    BY DEF Tells
  <2>1. p.zone \in Zones /\ p.version \in Nat
    BY StoreAssumption DEF CompiledZone
  <2>4. stored \subseteq Records /\ stored' \subseteq Records
    BY ClientWriteType DEF DataTypeOK
  <2>2. Known(p.zone, p.version)'
    BY <1>a, <1>1, <2>1 DEF Tells
  <2>3. ASSUME Settled(p.zone, p.version)' PROVE Matches(p, p.zone)'
    <3>1. /\ Matches(p, p.zone) /\ zone'[p.zone] = zone[p.zone]
          /\ OwnRecords(p.zone)' = OwnRecords(p.zone)
      BY <1>a, <1>1, <2>1, <2>3 DEF Tells
    <3>2. Wanted(p.zone)' = Wanted(p.zone)
      BY <2>1, <3>1, <2>4, WantedOwn
    <3> QED BY <3>1, <3>2 DEF Matches
  <2> QED BY <2>2, <2>3
<1>2. ASSUME NEW s \in SubState, SubOK(s), SubTells(s) PROVE SubTells(s)'
  <2>1. CASE s.pc \in {"records", "rename", "publish"}
    <3>1. s.msg.zone \in Zones /\ s.rec.version \in Nat
      BY <1>2, <2>1, StoreAssumption, DataPlaneAssumption
      DEF SubOK, SubState, Message, ZoneRecord
    <3> QED BY <1>a, <1>2, <2>1, <3>1 DEF SubTells, RecordTells
  <2>2. CASE s.pc \notin {"records", "rename", "publish"}
    BY <1>2, <2>2 DEF SubTells
  <2> QED BY <2>1, <2>2
<1>3. ASSUME NEW s \in SweepState, SweepOK(s), SweepTells(s) PROVE SweepTells(s)'
  <2>1. \A z \in Zones : s.seen[z] # Nil => s.seen[z].version \in Nat
    BY StoreAssumption DEF SweepState, ZoneRecord
  <2>2. \A z \in Zones : s.seen[z] # Nil /\ RecordTells(z, s.seen[z]) => RecordTells(z, s.seen[z])'
    BY <1>a, <2>1 DEF RecordTells
  <2>3. s.cur # Nil => s.cur \in Zones /\ s.seen[s.cur] # Nil
    BY <1>3 DEF SweepOK, SweepState
  <2>4. s.cur # Nil /\ s.pc \in {"zones", "publish"} /\ Settled(s.cur, s.seen[s.cur].version)' =>
            /\ Settled(s.cur, s.seen[s.cur].version)
            /\ OwnRecords(s.cur)' = OwnRecords(s.cur)
            /\ \A order, k : FirstRead(order, k, s.cur)' = FirstRead(order, k, s.cur)
    BY <1>a, <1>3, <2>1, <2>3 DEF SweepTells, RecordTells
  <2>5. s.pc = "publish" => s.cur # Nil
    BY <1>3 DEF SweepOK
  <2> QED BY <1>3, <2>2, <2>4, <2>5 DEF SweepTells
<1> QED BY <1>1, <1>2, <1>3

\* A replica's consumer: what it goes on with and what it writes.
LEMMA SubActsTell ==
    ASSUME NoTenantWide, ListsFindEverything, TypeInv, TellsInv,
           NEW w \in Workers, SubStep(w) \/ SubFails(w) \/ Crash(w)
    PROVE  /\ \A v \in Workers : v # w => sub'[v] = sub[v]
           /\ \E t : sub'[w] = t /\ SubTells(t)
           /\ \A h \in Hostnames :
                  ruleset'[h] # ruleset[h] => \E p : ruleset'[h] = p /\ Tells(p)
<1> DEFINE s == sub[w]
           Goal == /\ \A v \in Workers : v # w => sub'[v] = sub[v]
                   /\ \E t : sub'[w] = t /\ SubTells(t)
                   /\ \A h \in Hostnames :
                          ruleset'[h] # ruleset[h] => \E p : ruleset'[h] = p /\ Tells(p)
<1>a. /\ s \in SubState /\ SubOK(s) /\ SubTells(s)
      /\ sub \in [Workers -> SubState]
      /\ zone \in [Zones -> ZoneRecord \cup {Nil}]
      /\ stored \subseteq Records
      /\ ruleset \in [Hostnames -> CompiledZone \cup {Nil}]
  BY DEF TypeInv, DistTypeOK, WorkerTypeOK, DataTypeOK, StoreTypeOK, LocalInv, TellsInv
<1>b. ReadOrder \in Seq({"ddos", "rule", "list"}) /\ Len(ReadOrder) \in Nat \ {0}
  BY DistributorAssumption
<1>c. s.pc \in {"records", "rename", "publish"} =>
          s.msg.zone \in Zones /\ s.rec \in ZoneRecord /\ s.rec.version \in Nat
  BY <1>a, StoreAssumption, DataPlaneAssumption DEF SubOK, SubState, Message, ZoneRecord
<1>d. Tells(Nil) /\ SubTells(SubIdle)
  BY DEF Tells, SubTells, SubIdle
<1>e. ASSUME NEW t, SubBecomes(w, t), SubTells(t),
             \/ UNCHANGED ruleset
             \/ \E h \in Hostnames : Unpublish(h)
             \/ \E p \in CompiledZone : Publish(p) /\ Tells(p)
      PROVE  Goal
  <2>1. sub'[w] = t /\ \A v \in Workers : v # w => sub'[v] = sub[v]
    BY <1>a, <1>e DEF SubBecomes
  <2>2. \A h \in Hostnames : ruleset'[h] # ruleset[h] => \E p : ruleset'[h] = p /\ Tells(p)
    BY <1>a, <1>d, <1>e DEF Publish, Unpublish
  <2> QED BY <1>e, <2>1, <2>2
<1>f. s.pc = "publish" => SubCompiled(w) \in CompiledZone /\ Tells(SubCompiled(w))
  <2> SUFFICES ASSUME s.pc = "publish"
               PROVE  SubCompiled(w) \in CompiledZone /\ Tells(SubCompiled(w))
    OBVIOUS
  <2>1. SubCompiled(w) \in CompiledZone
    BY SubCompiledType
  <2>2. SubCompiled(w) =
            [zone |-> s.msg.zone, hostname |-> s.rec.hostname, status |-> s.rec.status,
             version |-> s.rec.version, rules |-> s.rules, schema |-> Schema[w]]
    BY DEF SubCompiled, Compile
  <2>3. Known(s.msg.zone, s.rec.version)
    BY <1>a DEF SubTells, RecordTells
  <2>4. ASSUME Settled(s.msg.zone, s.rec.version)
        PROVE  Matches(SubCompiled(w), s.msg.zone)
    <3>1. s.rec = zone[s.msg.zone] /\ s.rules = OwnRecords(s.msg.zone)
      BY <1>a, <2>4 DEF SubTells, RecordTells
    <3>2. SubCompiled(w) # Nil
      BY <2>1, StoreAssumption
    <3>3. Wanted(s.msg.zone) =
              [hostname |-> s.rec.hostname, status |-> s.rec.status,
               version |-> s.rec.version, rules |-> s.rules]
      BY <1>a, <1>c, <3>1, WantedOwn
    <3> QED BY <2>2, <3>2, <3>3 DEF Matches
  <2> QED BY <2>1, <2>2, <2>3, <2>4 DEF Tells
<1>1. CASE AckUnresolvable(w)
  BY <1>1, <1>a DEF AckUnresolvable, storeVars, workerVars, TellsInv
<1>2. CASE Deliver(w)
  <2>1. PICK m \in queue : SubBecomes(w, [s EXCEPT !.pc = "zone", !.msg = m])
    BY <1>2 DEF Deliver
  <2>t. PICK t : t = [s EXCEPT !.pc = "zone", !.msg = m]
    OBVIOUS
  <2>2. SubTells(t)
    BY <1>2, <1>a, <2>t DEF Deliver, SubTells, SubState
  <2> QED BY <1>2, <1>e, <2>1, <2>t, <2>2 DEF Deliver, storeVars
<1>3. CASE RequeueTenantWide(w)
  BY <1>3, <1>d, <1>e DEF RequeueTenantWide, Requeue, SubDone, storeVars
<1>4. CASE SubReadZone(w)
  <2> DEFINE z == s.msg.zone
  <2>1. z \in Zones
    BY <1>4, <1>a, DataPlaneAssumption DEF SubReadZone, SubOK, SubState, Message
  <2>2. s.pc = "zone" /\ UNCHANGED ruleset
    BY <1>4 DEF SubReadZone, storeVars
  <2>3. CASE SubDone(w)
    BY <1>d, <1>e, <2>2, <2>3 DEF SubDone
  <2>4. ASSUME NEW host, SubBecomes(w, [s EXCEPT !.pc = "unpublish", !.host = host])
        PROVE  Goal
    <3>t. PICK t : t = [s EXCEPT !.pc = "unpublish", !.host = host]
      OBVIOUS
    <3>1. SubTells(t)
      BY <1>a, <3>t DEF SubTells, SubState
    <3> QED BY <1>e, <2>2, <2>4, <3>t, <3>1
  <2>5. CASE IsServable(z) /\ SubBecomes(w, [s EXCEPT !.pc = "records", !.rec = zone[z]])
    <3>t. PICK t : t = [s EXCEPT !.pc = "records", !.rec = zone[z]]
      OBVIOUS
    <3>1. /\ t.pc = "records" /\ t.rec = zone[z] /\ t.msg.zone = z /\ t.k = 1 /\ t.rules = {}
      BY <1>a, <2>2, <3>t DEF SubTells, SubState
    <3>2. RecordTells(z, zone[z])
      BY <1>a, <2>1, <2>5, StoreAssumption DEF RecordTells, Known, IsServable, ZoneRecord
    <3>3. SubTells(t)
      BY <1>b, <3>1, <3>2, ReadNothing DEF SubTells
    <3> QED BY <1>e, <2>2, <2>5, <3>t, <3>3
  <2> QED BY <1>4, <2>3, <2>4, <2>5 DEF SubReadZone
<1>5. CASE SubReadRecords(w)
  <2> DEFINE z == s.msg.zone
             read == s.rules \cup RecordsOf(z, ReadOrder[s.k])
             next == IF s.k # Len(ReadOrder) THEN "records"
                     ELSE IF s.msg.hostname \in {Nil, s.rec.hostname} THEN "publish"
                     ELSE "rename"
  <2>t. PICK t : t = [s EXCEPT !.rules = read, !.k = s.k + 1, !.pc = next]
    OBVIOUS
  <2>1. s.pc = "records" /\ SubBecomes(w, t) /\ UNCHANGED ruleset
    BY <1>5, <2>t DEF SubReadRecords, storeVars
  <2>2. /\ RecordTells(z, s.rec) /\ s.k \in 1..Len(ReadOrder)
        /\ Settled(z, s.rec.version) => s.rules = FirstRead(ReadOrder, s.k, z)
    BY <1>a, <2>1 DEF SubTells
  <2>3. Settled(z, s.rec.version) => read = FirstRead(ReadOrder, s.k + 1, z)
    <3>1. s.k \in Nat \ {0}
      BY <1>b, <2>2
    <3> HIDE DEF s
    <3>2. FirstRead(ReadOrder, s.k + 1, z) =
              FirstRead(ReadOrder, s.k, z) \cup RecordsOf(z, ReadOrder[s.k])
      BY <3>1, ReadOn
    <3> QED BY <2>2, <3>2
  <2>4. next # "records" /\ Settled(z, s.rec.version) => read = OwnRecords(z)
    BY <2>3, AllRead DEF OwnRecords
  <2>5. /\ next \in {"records", "rename", "publish"}
        /\ next = "records" => s.k + 1 \in 1..Len(ReadOrder)
    BY <1>b, <2>2
  <2> HIDE DEF read, next
  <2>6. t.pc = next /\ t.k = s.k + 1 /\ t.rules = read /\ t.msg = s.msg /\ t.rec = s.rec
    BY <1>a, <2>t DEF SubState
  <2>7. SubTells(t)
    BY <2>2, <2>3, <2>4, <2>5, <2>6 DEF SubTells
  <2> QED BY <1>e, <2>1, <2>7
<1>6. CASE SubUnpublishOld(w)
  <2>1. s.msg.hostname \in Hostnames
    BY <1>6, <1>a DEF SubUnpublishOld, SubOK, SubState, Message
  <2>t. PICK t : t = [s EXCEPT !.pc = "publish"]
    OBVIOUS
  <2>2. SubTells(t)
    BY <1>6, <1>a, <2>t DEF SubUnpublishOld, SubTells, SubState
  <2> QED BY <1>6, <1>e, <2>1, <2>t, <2>2 DEF SubUnpublishOld
<1>7. CASE SubPublish(w)
  BY <1>7, <1>d, <1>e, <1>f DEF SubPublish, SubDone
<1>8. CASE SubUnpublish(w)
  <2>1. s.host \in Hostnames
    BY <1>8, <1>a DEF SubUnpublish, SubOK, SubState
  <2> QED BY <1>8, <1>d, <1>e, <2>1 DEF SubUnpublish, SubDone
<1>9. CASE SubFails(w)
  <2>1. SubBecomes(w, SubIdle)
    BY <1>9 DEF SubFails, Requeue, SubDone
  <2>2. /\ s.pc = "rename" => s.msg.hostname \in Hostnames
        /\ s.pc = "unpublish" => s.host \in Hostnames
    BY <1>a DEF SubOK, SubState, Message
  <2>3. \/ UNCHANGED ruleset
        \/ \E h \in Hostnames : Unpublish(h)
        \/ \E p \in CompiledZone : Publish(p) /\ Tells(p)
    BY <1>9, <1>f, <2>2 DEF SubFails, storeVars
  <2> QED BY <1>d, <1>e, <2>1, <2>3
<1>10. CASE Crash(w)
  BY <1>10, <1>d, <1>e DEF Crash, SubDone, storeVars
<1> QED BY <1>1, <1>2, <1>3, <1>4, <1>5, <1>6, <1>7, <1>8, <1>9, <1>10 DEF SubStep

\* A replica's sweep: what it goes on with and what it writes.
LEMMA SweepActsTell ==
    ASSUME NoTenantWide, ListsFindEverything, TypeInv, TellsInv,
           NEW w \in Workers, SweepActs(w)
    PROVE  /\ \A v \in Workers : v # w => sweep'[v] = sweep[v]
           /\ \E t : sweep'[w] = t /\ SweepTells(t)
           /\ \A h \in Hostnames :
                  ruleset'[h] # ruleset[h] => \E p : ruleset'[h] = p /\ Tells(p)
<1> DEFINE s == sweep[w]
           Goal == /\ \A v \in Workers : v # w => sweep'[v] = sweep[v]
                   /\ \E t : sweep'[w] = t /\ SweepTells(t)
                   /\ \A h \in Hostnames :
                          ruleset'[h] # ruleset[h] => \E p : ruleset'[h] = p /\ Tells(p)
<1>a. /\ s \in SweepState /\ SweepOK(s) /\ SweepTells(s)
      /\ sweep \in [Workers -> SweepState]
      /\ zone \in [Zones -> ZoneRecord \cup {Nil}]
      /\ stored \subseteq Records
      /\ ruleset \in [Hostnames -> CompiledZone \cup {Nil}]
      /\ Nil \notin Zones
  BY DataPlaneAssumption
  DEF TypeInv, DistTypeOK, WorkerTypeOK, DataTypeOK, StoreTypeOK, LocalInv, TellsInv
<1>b. ReadOrder \in Seq({"ddos", "rule", "list"}) /\ Len(ReadOrder) \in Nat \ {0}
  BY DistributorAssumption
<1>d. Tells(Nil) /\ SweepTells(SweepIdle)
  BY DEF Tells, SweepTells, SweepIdle
<1>e. ASSUME NEW t, SweepBecomes(w, t), SweepTells(t),
             \/ UNCHANGED ruleset
             \/ \E h \in Hostnames : Unpublish(h)
             \/ \E p \in CompiledZone : Publish(p) /\ Tells(p)
      PROVE  Goal
  <2>1. sweep'[w] = t /\ \A v \in Workers : v # w => sweep'[v] = sweep[v]
    BY <1>a, <1>e DEF SweepBecomes
  <2>2. \A h \in Hostnames : ruleset'[h] # ruleset[h] => \E p : ruleset'[h] = p /\ Tells(p)
    BY <1>a, <1>d, <1>e DEF Publish, Unpublish
  <2> QED BY <1>e, <2>1, <2>2
<1>f. s.pc = "publish" => SweepCompiled(w) \in CompiledZone /\ Tells(SweepCompiled(w))
  <2> SUFFICES ASSUME s.pc = "publish"
               PROVE  SweepCompiled(w) \in CompiledZone /\ Tells(SweepCompiled(w))
    OBVIOUS
  <2> DEFINE z == s.cur
             rec == s.seen[z]
  <2>1. SweepCompiled(w) \in CompiledZone /\ z \in Zones /\ rec \in ZoneRecord
    BY SweepCompiledType
  <2>2. RecordTells(z, rec) /\ (Settled(z, rec.version) => s.rules = OwnRecords(z))
        /\ s.tenant = {}
    BY <1>a, <2>1, DataPlaneAssumption DEF SweepTells
  <2>3. SweepCompiled(w) =
            [zone |-> z, hostname |-> rec.hostname, status |-> rec.status,
             version |-> rec.version, rules |-> s.rules, schema |-> Schema[w]]
    BY <2>2 DEF SweepCompiled, Compile
  <2>4. ASSUME Settled(z, rec.version)
        PROVE  Matches(SweepCompiled(w), z)
    <3>1. rec = zone[z] /\ s.rules = OwnRecords(z)
      BY <2>2, <2>4 DEF RecordTells
    <3>2. SweepCompiled(w) # Nil
      BY <2>1, StoreAssumption
    <3>3. Wanted(z) = [hostname |-> rec.hostname, status |-> rec.status,
                       version |-> rec.version, rules |-> s.rules]
      BY <1>a, <2>1, <3>1, WantedOwn
    <3> DEFINE p == SweepCompiled(w)
    <3>4. Wanted(z) = [hostname |-> p.hostname, status |-> p.status,
                       version |-> p.version, rules |-> p.rules]
          /\ p.zone = z
      BY <2>3, <3>3
    <3> HIDE DEF p, z
    <3> QED BY <3>2, <3>4 DEF p, Matches
  <2>5. SweepCompiled(w).zone = z /\ SweepCompiled(w).version = rec.version
    BY <2>3
  <2>6. Known(z, rec.version)
    BY <2>2 DEF RecordTells
  <2> HIDE DEF z, rec
  <2> QED BY <2>1, <2>4, <2>5, <2>6 DEF Tells
<1>1. CASE SweepStart(w)
  <2>1. PICK page \in SUBSET Zones :
            SweepBecomes(w, [s EXCEPT !.pc = "tenant",
                   !.seen = [z \in Zones |-> IF z \in page /\ IsServable(z)
                                             THEN zone[z] ELSE Nil]])
    BY <1>1 DEF SweepStart
  <2> DEFINE seen == [z \in Zones |-> IF z \in page /\ IsServable(z) THEN zone[z] ELSE Nil]
  <2>t. PICK t : t = [s EXCEPT !.pc = "tenant", !.seen = seen]
    OBVIOUS
  <2>2. \A z \in Zones : seen[z] # Nil => RecordTells(z, seen[z])
    <3>1. \A z \in Zones : seen[z] # Nil => seen[z] = zone[z] /\ zone[z].version \in Nat
      BY <1>a, StoreAssumption DEF ZoneRecord
    <3> QED BY <3>1 DEF RecordTells, Known
  <2> HIDE DEF seen
  <2>3. s.pc = "idle" /\ UNCHANGED ruleset
    BY <1>1 DEF SweepStart, storeVars
  <2>4. t.pc = "tenant" /\ t.seen = seen /\ t.tenant = {} /\ t.rules = {}
    BY <1>a, <2>t, <2>3 DEF SweepTells, SweepState
  <2>5. SweepTells(t)
    BY <2>2, <2>4 DEF SweepTells
  <2> QED BY <1>e, <2>t, <2>1, <2>3, <2>5 DEF seen
<1>2. CASE SweepReadTenant(w)
  <2> DEFINE last == s.k = Len(TenantOrder)
             read == s.tenant \cup RecordsOf(Global, TenantOrder[s.k])
             k == IF last THEN 1 ELSE s.k + 1
             next == IF last THEN "zones" ELSE "tenant"
  <2>t. PICK t : t = [s EXCEPT !.tenant = read, !.k = k, !.pc = next]
    OBVIOUS
  <2>1. SweepBecomes(w, t) /\ s.pc = "tenant" /\ UNCHANGED ruleset
    BY <2>t, <1>2 DEF SweepReadTenant, storeVars
  <2>2. read = {}
    BY <1>a DEF SweepTells, RecordsOf, NoTenantWide
  <2>3. \/ k = 1 /\ next = "zones"
        \/ next = "tenant"
    OBVIOUS
  <2> HIDE DEF read, k, next
  <2>4. /\ t.pc = next /\ t.k = k /\ t.tenant = read /\ t.seen = s.seen
        /\ t.rules = {} /\ t.cur = Nil
    BY <1>a, <2>t, <2>1 DEF SweepState, SweepTells, SweepOK
  <2>5. \A z \in Zones : t.seen[z] # Nil => RecordTells(z, t.seen[z])
    BY <1>a, <2>1, <2>4 DEF SweepTells
  <2>6. SweepTells(t)
    BY <1>b, <2>2, <2>3, <2>4, <2>5 DEF SweepTells
  <2> QED BY <1>e, <2>1, <2>6
<1>3. CASE SweepReadRecords(w)
  <2>1. PICK z \in Zones :
            /\ s.seen[z] # Nil
            /\ s.cur = Nil \/ s.cur = z
            /\ SweepBecomes(w, [s EXCEPT !.cur = z,
                   !.rules = @ \cup RecordsOf(z, ReadOrder[s.k]), !.k = s.k + 1,
                   !.pc = IF s.k = Len(ReadOrder) THEN "publish" ELSE "zones"])
    BY <1>3, <1>a DEF SweepReadRecords, SweepState, SweepOK
  <2> DEFINE last == s.k = Len(ReadOrder)
             read == s.rules \cup RecordsOf(z, ReadOrder[s.k])
             next == IF last THEN "publish" ELSE "zones"
             settled == Settled(z, s.seen[z].version)
  <2>t. PICK t : t = [s EXCEPT !.cur = z, !.rules = read, !.k = s.k + 1, !.pc = next]
    OBVIOUS
  <2>2. SweepBecomes(w, t) /\ s.pc = "zones" /\ z # Nil /\ UNCHANGED ruleset
    BY <1>3, <1>a, <2>t, <2>1 DEF SweepReadRecords, storeVars
  <2>3. /\ s.k \in 1..Len(ReadOrder)
        /\ \A y \in Zones : s.seen[y] # Nil => RecordTells(y, s.seen[y])
    BY <1>a, <2>2 DEF SweepTells
  <2>4. settled => s.rules = FirstRead(ReadOrder, s.k, z)
    <3>1. CASE s.cur = z
      BY <1>a, <2>2, <3>1 DEF SweepTells
    <3>2. CASE s.cur = Nil
      BY <1>a, <2>2, <3>2, ReadNothing DEF SweepTells
    <3> QED BY <2>1, <3>1, <3>2
  <2>5. settled => read = FirstRead(ReadOrder, s.k + 1, z)
    <3>1. s.k \in Nat \ {0}
      BY <1>b, <2>3
    <3> HIDE DEF s, settled
    <3>2. FirstRead(ReadOrder, s.k + 1, z) =
              FirstRead(ReadOrder, s.k, z) \cup RecordsOf(z, ReadOrder[s.k])
      BY <3>1, ReadOn
    <3> QED BY <2>4, <3>2
  <2>6. settled /\ next = "publish" => read = OwnRecords(z)
    BY <2>5, AllRead DEF OwnRecords
  <2>7. \/ next = "publish"
        \/ next = "zones" /\ s.k + 1 \in 1..Len(ReadOrder)
    BY <1>b, <2>3
  <2> HIDE DEF read, next
  <2>8. /\ t.pc = next /\ t.k = s.k + 1 /\ t.cur = z /\ t.rules = read /\ t.seen = s.seen
        /\ t.tenant = {}
    BY <1>a, <2>t DEF SweepState, SweepTells
  <2>9. SweepTells(t)
    BY <2>2, <2>3, <2>5, <2>6, <2>7, <2>8 DEF SweepTells
  <2> QED BY <1>e, <2>2, <2>9
<1>4. CASE SweepPublish(w)
  <2> DEFINE z == s.cur
             seen == [s.seen EXCEPT ![z] = Nil]
  <2>t. PICK t : t = [s EXCEPT !.pc = "zones", !.cur = Nil, !.k = 1, !.rules = {},
                               !.seen = seen, !.expected = @ \cup {s.seen[z].hostname}]
    OBVIOUS
  <2>1. s.pc = "publish" /\ SweepBecomes(w, t) /\ Publish(SweepCompiled(w))
    BY <1>4, <2>t DEF SweepPublish
  <2>2. \A y \in Zones : seen[y] # Nil => RecordTells(y, seen[y])
    <3>1. s.seen \in [Zones -> ZoneRecord \cup {Nil}]
      BY <1>a DEF SweepState
    <3>2. \A y \in Zones : seen[y] # Nil => seen[y] = s.seen[y]
      BY <3>1
    <3> QED BY <1>a, <2>1, <3>2 DEF SweepTells
  <2> HIDE DEF seen
  <2>3. t.pc = "zones" /\ t.cur = Nil /\ t.k = 1 /\ t.rules = {} /\ t.seen = seen
        /\ t.tenant = {}
    BY <1>a, <2>t DEF SweepState, SweepTells
  <2>4. SweepTells(t)
    BY <1>b, <2>2, <2>3 DEF SweepTells
  <2> QED BY <1>e, <1>f, <2>1, <2>4
<1>5. CASE SweepReadIndex(w)
  <2>t. PICK t : t = [s EXCEPT !.pc = "orphans", !.orphans = index \ s.expected]
    OBVIOUS
  <2>1. SweepTells(t)
    BY <1>a, <2>t DEF SweepState, SweepTells
  <2> QED BY <1>5, <1>e, <2>t, <2>1 DEF SweepReadIndex, storeVars
<1>6. CASE SweepUnpublish(w)
  <2>1. PICK h \in s.orphans : Unpublish(h) /\ SweepBecomes(w, [s EXCEPT !.orphans = @ \ {h}])
    BY <1>6 DEF SweepUnpublish
  <2>t. PICK t : t = [s EXCEPT !.orphans = @ \ {h}]
    OBVIOUS
  <2>2. s.pc = "orphans" /\ h \in Hostnames
    BY <1>6, <1>a, <2>1 DEF SweepUnpublish, SweepState
  <2>3. SweepTells(t)
    BY <1>a, <2>t, <2>2 DEF SweepState, SweepTells
  <2> QED BY <1>e, <2>t, <2>1, <2>2, <2>3
<1>7. CASE SweepEnd(w)
  BY <1>7, <1>d, <1>e DEF SweepEnd, SweepDone, BumpEpoch
<1>8. CASE SweepFails(w)
  <2>1. SweepBecomes(w, SweepIdle)
    BY <1>8 DEF SweepFails, SweepDone
  <2>2. s.orphans \subseteq Hostnames
    BY <1>a DEF SweepState
  <2>3. \/ UNCHANGED ruleset
        \/ \E h \in Hostnames : Unpublish(h)
        \/ \E p \in CompiledZone : Publish(p) /\ Tells(p)
    BY <1>8, <1>f, <2>2 DEF SweepFails, storeVars
  <2> QED BY <1>d, <1>e, <2>1, <2>3
<1>9. CASE Crash(w)
  BY <1>9, <1>d, <1>e DEF Crash, storeVars
<1> QED BY <1>1, <1>2, <1>3, <1>4, <1>5, <1>6, <1>7, <1>8, <1>9 DEF SweepActs, SweepStep

\* What holds of every version that is read, compiled or published holds on.
LEMMA TellsSuffices ==
    ASSUME NoTenantWide, TypeInv, TypeInv',
           ClientWrite \/ UNCHANGED <<zone, stored, owed, touched>>,
           \A h \in Hostnames : \E p : ruleset'[h] = p /\ Tells(p),
           \A w \in Workers : \E t : sub'[w] = t /\ SubTells(t),
           \A w \in Workers : \E t : sweep'[w] = t /\ SweepTells(t)
    PROVE  TellsInv'
<1>1. DataTypeOK
  BY DEF TypeInv, DistTypeOK
<1>2. ASSUME NEW h \in Hostnames PROVE Tells(ruleset[h])'
  <2>1. PICK p : ruleset'[h] = p /\ Tells(p)
    OBVIOUS
  <2>2. p \in CompiledZone \cup {Nil}
    BY <2>1 DEF TypeInv, DistTypeOK, StoreTypeOK
  <2>3. Tells(p)'
    BY <1>1, <2>1, <2>2, TellsStays
  <2> QED BY <2>1, <2>3
<1>3. ASSUME NEW w \in Workers PROVE SubTells(sub[w])'
  <2>1. PICK t : sub'[w] = t /\ SubTells(t)
    OBVIOUS
  <2>2. t \in SubState /\ SubOK(t)
    BY <2>1 DEF TypeInv, DistTypeOK, WorkerTypeOK, LocalInv
  <2>3. SubTells(t)'
    BY <1>1, <2>1, <2>2, TellsStays
  <2> QED BY <2>1, <2>3
<1>4. ASSUME NEW w \in Workers PROVE SweepTells(sweep[w])'
  <2>1. PICK t : sweep'[w] = t /\ SweepTells(t)
    OBVIOUS
  <2>2. t \in SweepState /\ SweepOK(t)
    BY <2>1 DEF TypeInv, DistTypeOK, WorkerTypeOK, LocalInv
  <2>3. SweepTells(t)'
    BY <1>1, <2>1, <2>2, TellsStays
  <2> QED BY <2>1, <2>3
<1> QED BY <1>2, <1>3, <1>4 DEF TellsInv, StoreTells

LEMMA TellsInductive ==
    ASSUME NoTenantWide, ListsFindEverything, TypeInv, TellsInv, [DistNext]_distVars
    PROVE  TellsInv'
<1>a. TypeInv'
  BY NextInv
<1>b. /\ \A h \in Hostnames : Tells(ruleset[h])
      /\ \A w \in Workers : SubTells(sub[w]) /\ SweepTells(sweep[w])
  BY DEF TellsInv, StoreTells
<1>1. CASE ClientWrite /\ UNCHANGED <<storeVars, workerVars>>
  BY <1>1, <1>a, <1>b, TellsSuffices DEF storeVars, workerVars
<1>2. ASSUME NEW w \in Workers, SubStep(w) \/ SubFails(w) PROVE TellsInv'
  <2>1. UNCHANGED <<zone, stored, owed, touched, sweep>>
    BY <1>2 DEF SubStep, SubFails, AckUnresolvable, Deliver, RequeueTenantWide, SubReadZone,
                SubReadRecords, SubUnpublishOld, SubPublish, SubUnpublish, dataVars, workerVars
  <2>2. /\ \A v \in Workers : v # w => sub'[v] = sub[v]
        /\ \E t : sub'[w] = t /\ SubTells(t)
        /\ \A h \in Hostnames :
               ruleset'[h] # ruleset[h] => \E p : ruleset'[h] = p /\ Tells(p)
    BY <1>2, SubActsTell
  <2>3. /\ \A h \in Hostnames : \E p : ruleset'[h] = p /\ Tells(p)
        /\ \A v \in Workers : \E t : sub'[v] = t /\ SubTells(t)
        /\ \A v \in Workers : \E t : sweep'[v] = t /\ SweepTells(t)
    BY <1>b, <2>1, <2>2
  <2> QED BY <1>a, <2>1, <2>3, TellsSuffices
<1>3. ASSUME NEW w \in Workers, SweepStep(w) \/ SweepFails(w) PROVE TellsInv'
  <2>1. UNCHANGED <<zone, stored, owed, touched, sub>>
    BY <1>3 DEF SweepStep, SweepFails, SweepStart, SweepReadTenant, SweepReadRecords,
                SweepPublish, SweepReadIndex, SweepUnpublish, SweepEnd, dataVars
  <2>2. /\ \A v \in Workers : v # w => sweep'[v] = sweep[v]
        /\ \E t : sweep'[w] = t /\ SweepTells(t)
        /\ \A h \in Hostnames :
               ruleset'[h] # ruleset[h] => \E p : ruleset'[h] = p /\ Tells(p)
    BY <1>3, SweepActsTell DEF SweepActs
  <2>3. /\ \A h \in Hostnames : \E p : ruleset'[h] = p /\ Tells(p)
        /\ \A v \in Workers : \E t : sub'[v] = t /\ SubTells(t)
        /\ \A v \in Workers : \E t : sweep'[v] = t /\ SweepTells(t)
    BY <1>b, <2>1, <2>2
  <2> QED BY <1>a, <2>1, <2>3, TellsSuffices
<1>4. ASSUME NEW w \in Workers, Crash(w) PROVE TellsInv'
  <2>1. UNCHANGED <<zone, stored, owed, touched, ruleset>>
    BY <1>4 DEF Crash, storeVars
  <2>2. /\ \A v \in Workers : v # w => sub'[v] = sub[v] /\ sweep'[v] = sweep[v]
        /\ \E t : sub'[w] = t /\ SubTells(t)
        /\ \E t : sweep'[w] = t /\ SweepTells(t)
    BY <1>4, SubActsTell, SweepActsTell DEF SweepActs
  <2>3. /\ \A h \in Hostnames : \E p : ruleset'[h] = p /\ Tells(p)
        /\ \A v \in Workers : \E t : sub'[v] = t /\ SubTells(t)
        /\ \A v \in Workers : \E t : sweep'[v] = t /\ SweepTells(t)
    BY <1>b, <2>1, <2>2
  <2> QED BY <1>a, <2>1, <2>3, TellsSuffices
<1>5. CASE LoseMessage \/ UNCHANGED distVars
  <2>1. UNCHANGED <<zone, stored, owed, touched, ruleset, sub, sweep>>
    BY <1>5 DEF LoseMessage, distVars, storeVars, dataVars, workerVars
  <2> QED BY <1>a, <1>b, <2>1, TellsSuffices
<1> QED BY <1>1, <1>2, <1>3, <1>4, <1>5 DEF DistNext, Failure

\* The same of what a node holds.
EdgeTells == \A h \in Hostnames : Tells(served[h]) /\ Tells(fresh[h])

VersionInv == TypeInv /\ EdgeInv /\ TellsInv /\ EdgeTells

LEMMA InitVersionInv == ASSUME Init PROVE VersionInv
<1>1. TypeInv /\ EdgeInv
  BY InitTypeInv, InitEdgeInv DEF Init, CacheInit, DistInit
<1>2. Tells(Nil) /\ SubTells(SubIdle) /\ SweepTells(SweepIdle)
  BY DEF Tells, SubTells, SweepTells, SubIdle, SweepIdle
<1>3. TellsInv
  BY <1>2 DEF Init, DistInit, StoreInit, WorkerInit, TellsInv, StoreTells
<1>4. EdgeTells
  BY <1>2 DEF Init, EdgeInit, EmptyMap, EdgeTells
<1> QED BY <1>1, <1>3, <1>4 DEF VersionInv

\* A node holds nothing but what the store held.
LEMMA EdgeCopies ==
    ASSUME EdgeInv, EdgeStep
    PROVE  /\ UNCHANGED storeVars
           /\ \A h \in Hostnames : /\ served'[h] \in {served[h], fresh[h], Nil}
                                   /\ fresh'[h] \in {served[h], fresh[h], ruleset[h], Nil}
<1>1. /\ served \in [Hostnames -> CompiledZone \cup {Nil}]
      /\ fresh \in [Hostnames -> CompiledZone \cup {Nil}]
  BY DEF EdgeInv, CacheTypeOK, EdgeTypeOK
<1> QED BY <1>1 DEF EdgeStep, RefreshStep, RefreshStart, CarryForward, VersionMoved, Fetch,
                    KeepPrevious, Swap, ReadFails, EdgeRestart, Settle, EmptyMap, storeVars

LEMMA VersionInductive ==
    ASSUME NoTenantWide, ListsFindEverything, VersionInv, [Next]_vars
    PROVE  VersionInv'
<1>a. TypeInv' /\ [CacheNext]_cacheVars
  BY NextIsCacheNext DEF VersionInv
<1>b. EdgeInv'
  BY <1>a, CacheNextKeeps DEF VersionInv
<1>c. DataTypeOK /\ \A h \in Hostnames : /\ served[h] \in CompiledZone \cup {Nil}
                                         /\ fresh[h] \in CompiledZone \cup {Nil}
  BY DEF VersionInv, TypeInv, DistTypeOK, EdgeInv, CacheTypeOK, EdgeTypeOK
<1>1. CASE (DistNext /\ UNCHANGED edgeVars) \/ UNCHANGED vars
  <2>1. [DistNext]_distVars /\ UNCHANGED <<served, fresh>>
    BY <1>1 DEF edgeVars, vars, distVars
  <2>2. TellsInv'
    BY <2>1, TellsInductive DEF VersionInv
  <2>3. ClientWrite \/ UNCHANGED <<zone, stored, owed, touched>>
    <3>1. ASSUME NEW w \in Workers, SubStep(w)
          PROVE  UNCHANGED <<zone, stored, owed, touched>>
      BY <3>1 DEF SubStep, AckUnresolvable, Deliver, RequeueTenantWide, SubReadZone,
                  SubReadRecords, SubUnpublishOld, SubPublish, SubUnpublish, dataVars
    <3>2. ASSUME NEW w \in Workers, SweepStep(w)
          PROVE  UNCHANGED <<zone, stored, owed, touched>>
      BY <3>2 DEF SweepStep, SweepStart, SweepReadTenant, SweepReadRecords, SweepPublish,
                  SweepReadIndex, SweepUnpublish, SweepEnd, dataVars
    <3>3. CASE Failure
      BY <3>3 DEF Failure, SubFails, SweepFails, Crash, LoseMessage, dataVars
    <3> QED BY <2>1, <3>1, <3>2, <3>3 DEF DistNext, distVars, dataVars
  <2>4. ASSUME NEW p \in CompiledZone \cup {Nil}, Tells(p) PROVE Tells(p)'
    BY <1>c, <2>3, <2>4, TellsStays
  <2>5. EdgeTells'
    <3>1. ASSUME NEW h \in Hostnames PROVE Tells(served[h])' /\ Tells(fresh[h])'
      <4>1. PICK p, q : p = served[h] /\ q = fresh[h]
        OBVIOUS
      <4>2. Tells(p)' /\ Tells(q)'
        BY <1>c, <2>4, <4>1 DEF VersionInv, EdgeTells
      <4> QED BY <2>1, <4>1, <4>2
    <3> QED BY <3>1 DEF EdgeTells
  <2> QED BY <1>a, <1>b, <2>2, <2>5 DEF VersionInv
<1>2. CASE EdgeStep /\ UNCHANGED <<dataVars, workerVars>>
  <2>1. /\ UNCHANGED storeVars
        /\ \A h \in Hostnames : /\ served'[h] \in {served[h], fresh[h], Nil}
                                /\ fresh'[h] \in {served[h], fresh[h], ruleset[h], Nil}
    BY <1>2, EdgeCopies DEF VersionInv
  <2>2. TellsInv'
    BY <1>2, <2>1, TellsInductive DEF VersionInv, distVars
  <2>3. UNCHANGED <<zone, stored, owed, touched>>
    BY <1>2 DEF dataVars
  <2>4. ASSUME NEW h \in Hostnames PROVE Tells(served[h])' /\ Tells(fresh[h])'
    <3>1. PICK p, q : p = served'[h] /\ q = fresh'[h]
      OBVIOUS
    <3>2. Tells(p) /\ Tells(q)
      BY <2>1, <3>1 DEF VersionInv, EdgeTells, TellsInv, StoreTells, Tells
    <3>3. Tells(p)' /\ Tells(q)'
      BY <2>3, <3>2 DEF Tells, Known, Settled, Matches, Wanted
    <3> QED BY <3>1, <3>3
  <2> QED BY <1>a, <1>b, <2>2, <2>4 DEF VersionInv, EdgeTells
<1> QED BY <1>1, <1>2 DEF Next

(***************************************************************************)
(* As long as no record is tenant-wide, a rule-set that a node serves      *)
(* under its zone's current version, raised since the last change, has the *)
(* current content: the version check of a refresh never keeps what is out *)
(* of date.  Tenant-wide records break it (events publish without them)    *)
(* and so does every change after which no client raises the version.      *)
(***************************************************************************)
THEOREM VersionsTellContent ==
    ASSUME ListsFindEverything
    PROVE  Spec => []VersionTellsContent
<1>1. CASE ~NoTenantWide
  <2>1. VersionTellsContent
    BY <1>1 DEF VersionTellsContent
  <2> QED BY <2>1, PTL
<1>2. CASE NoTenantWide
  <2>1. Init => VersionInv
    BY InitVersionInv
  <2>2. VersionInv /\ [Next]_vars => VersionInv'
    BY <1>2, VersionInductive
  <2>3. VersionInv => VersionTellsContent
    BY StoreAssumption
    DEF VersionInv, EdgeInv, CacheTypeOK, EdgeTypeOK, CompiledZone, EdgeTells, Tells, Settled,
        VersionTellsContent
  <2> QED BY <2>1, <2>2, <2>3, PTL DEF Spec
<1> QED BY <1>1, <1>2

-----------------------------------------------------------------------------
(* The whole path, once clients and events are quiet.                       *)

\* Sweeps and refreshes go on; sweeps may fail, replicas die, messages be lost.
QuietNext ==
    \/ OnlySweeps /\ UNCHANGED edgeVars
    \/ RefreshStep /\ UNCHANGED <<dataVars, workerVars>>

ServesServable == {h \in Hostnames : served[h] # Nil} = ServableHosts

\* What the node holds under the current version of a hostname's zone is that
\* zone's current rule-set.
HoldsNothingStale ==
    \A z \in Zones :
        LET p == served[zone[z].hostname]
        IN  IsServable(z) /\ p # Nil /\ p.version = zone[z].version => Matches(p, z)

\* Where a refresh that began since then stands, by content.
RefreshExact ==
    running =>
        \A z \in Zones :
            LET h == zone[z].hostname
            IN  IsServable(z) => h \in todo \/ (fresh[h] # Nil /\ Matches(fresh[h], z))

SystemInv == RepairInv /\ FreshInv

LEMMA SystemInvHolds ==
    ASSUME IsFiniteSet(Zones), Cardinality(Zones) <= PageLimit
    PROVE  Spec => []SystemInv
<1> DEFINE KInv == KeepInv /\ StoreConsistent
<1>1. Init => KInv
  BY InitTypeInv, InitKeepInv DEF Init, DistInit
<1>2. KInv /\ [Next]_vars => KInv'
  <2> SUFFICES ASSUME KInv, [Next]_vars PROVE KInv'
    OBVIOUS
  <2>1. [DistNext]_distVars
    BY DEF Next, vars, distVars, EdgeStep, RefreshStep, RefreshStart, CarryForward,
           VersionMoved, Fetch, KeepPrevious, Swap, ReadFails, EdgeRestart
  <2> QED BY <2>1, NextKeeps, NextInv DEF KeepInv
<1>3. KInv => RepairInv
  BY DEF KeepInv, RepairInv
<1>4. Spec => ImplementsEdgeCache
  BY DistributorIsLegalWriter
<1> HIDE DEF KInv
<1> QED BY <1>1, <1>2, <1>3, <1>4, FreshInvHolds, PTL DEF Spec, ImplementsEdgeCache, SystemInv

\* A quiet step is a sweep's, or a refresh that leaves the control plane alone.
LEMMA QuietNextIs ==
    ASSUME [QuietNext]_vars
    PROVE  /\ [OnlySweeps]_distVars
           /\ UNCHANGED <<zone, stored, outages>>
           /\ UNCHANGED edgeVars \/ RefreshStep
<1>1. CASE OnlySweeps /\ UNCHANGED edgeVars
  BY <1>1 DEF OnlySweeps, SweepActs, SweepStep, SweepStart, SweepReadTenant, SweepReadRecords,
              SweepPublish, SweepReadIndex, SweepUnpublish, SweepEnd, SweepFails, Crash,
              LoseMessage, dataVars, edgeVars
<1>2. CASE RefreshStep /\ UNCHANGED <<dataVars, workerVars>>
  BY <1>2 DEF RefreshStep, RefreshStart, CarryForward, VersionMoved, Fetch, KeepPrevious, Swap,
              distVars, dataVars
<1>3. CASE UNCHANGED vars
  BY <1>3 DEF vars, distVars, dataVars, edgeVars
<1> QED BY <1>1, <1>2, <1>3 DEF QuietNext

\* Republishing what is published already changes no version.
LEMMA QuietIsStill ==
    ASSUME RepairInv, RepairInv', StoreCurrent, StoreCurrent', [QuietNext]_vars
    PROVE  Still
<1>1. UNCHANGED <<zone, stored, outages>>
  BY QuietNextIs
<1>2. /\ version \in [Hostnames -> Versions \cup {Nil}]
      /\ version' \in [Hostnames -> Versions \cup {Nil}]
  BY DEF RepairInv, TypeInv, DistTypeOK, StoreTypeOK
<1>3. ASSUME NEW h \in Hostnames PROVE version'[h] = version[h]
  <2>1. CASE h \notin ServableHosts
    <3>1. ServableHosts' = ServableHosts
      BY <1>1 DEF ServableHosts, IsServable
    <3> QED BY <2>1, <3>1 DEF RepairInv, StoreConsistent, StoreCurrent
  <2>2. ASSUME NEW z \in Zones, IsServable(z), h = zone[z].hostname
        PROVE  version'[h] = version[h]
    <3>1. /\ ruleset[h].version = zone[z].version /\ ruleset[h] # Nil
          /\ ruleset'[h].version = zone[z].version /\ ruleset'[h] # Nil
      BY <1>1, <2>2 DEF StoreCurrent, Matches, Wanted, IsServable
    <3> QED BY <3>1 DEF RepairInv, StoreConsistent
  <2> QED BY <2>1, <2>2 DEF ServableHosts
<1> QED BY <1>1, <1>2, <1>3 DEF Still

\* Over a current store, following the versions is serving what is servable.
LEMMA FollowedServes ==
    ASSUME RepairInv, StoreCurrent, Followed
    PROVE  ServesServable
<1>1. \A h \in Hostnames : /\ h \in index <=> ruleset[h] # Nil
                           /\ h \in index => version[h] = ruleset[h].version
                           /\ h \notin index => version[h] = Nil
  BY DEF RepairInv, StoreConsistent
<1>2. \A h \in Hostnames : ruleset[h] # Nil => ruleset[h].version # Nil
  BY DataPlaneAssumption
  DEF RepairInv, TypeInv, DistTypeOK, StoreTypeOK, CompiledZone
<1>3. index \subseteq Hostnames
  BY DEF RepairInv, TypeInv, DistTypeOK, StoreTypeOK
<1> QED BY <1>1, <1>2, <1>3 DEF Followed, ServesServable, StoreCurrent

\* A step of a refresh, or none, over a store that is and stays current.
LEMMA ExactRefresh ==
    ASSUME SystemInv, StoreCurrent, RefreshFollows, RefreshExact, AllReadable,
           HoldsNothingStale, UNCHANGED <<zone, stored>>,
           UNCHANGED edgeVars \/ RefreshStep
    PROVE  /\ RefreshExact' /\ HoldsNothingStale'
           /\ EdgeCurrent => EdgeCurrent'
           /\ Swap => EdgeCurrent'
<1> DEFINE Goal == /\ RefreshExact' /\ HoldsNothingStale'
                   /\ EdgeCurrent => EdgeCurrent'
                   /\ Swap => EdgeCurrent'
<1>a. /\ served \in [Hostnames -> CompiledZone \cup {Nil}]
      /\ fresh \in [Hostnames -> CompiledZone \cup {Nil}]
      /\ listed \subseteq Hostnames /\ todo \subseteq listed /\ fetching \in todo \cup {Nil}
      /\ Nil \notin Hostnames
  BY StoreAssumption DEF SystemInv, FreshInv, EdgeInv, CacheTypeOK, EdgeTypeOK
<1>b. \A z \in Zones : IsServable(z) =>
          /\ zone[z].hostname \in Hostnames
          /\ zone[z].hostname \in index
          /\ Matches(ruleset[zone[z].hostname], z)
          /\ version[zone[z].hostname] = zone[z].version
          /\ version[zone[z].hostname] # Nil
  <2> SUFFICES ASSUME NEW z \in Zones, IsServable(z)
               PROVE  /\ zone[z].hostname \in Hostnames
                      /\ zone[z].hostname \in index
                      /\ Matches(ruleset[zone[z].hostname], z)
                      /\ version[zone[z].hostname] = zone[z].version
                      /\ version[zone[z].hostname] # Nil
    OBVIOUS
  <2>1. zone[z].hostname \in Hostnames /\ zone[z].version # Nil
    BY DataPlaneAssumption
    DEF SystemInv, RepairInv, TypeInv, DistTypeOK, DataTypeOK, ZoneRecord, IsServable
  <2>2. zone[z].hostname \in index /\ Matches(ruleset[zone[z].hostname], z)
    BY DEF StoreCurrent, ServableHosts
  <2>3. ruleset[zone[z].hostname].version = zone[z].version
    BY <2>2 DEF Matches, Wanted
  <2> QED BY <2>1, <2>2, <2>3 DEF SystemInv, RepairInv, StoreConsistent
<1>c. /\ \A z : IsServable(z)' = IsServable(z)
      /\ \A p, z : Matches(p, z)' = Matches(p, z)
      /\ ServableHosts' = ServableHosts
      /\ zone' = zone
  BY DEF IsServable, Matches, Wanted, ServableHosts
<1>d. ASSUME UNCHANGED served
      PROVE  HoldsNothingStale' /\ (EdgeCurrent => EdgeCurrent')
  BY <1>c, <1>d DEF HoldsNothingStale, EdgeCurrent
<1>e. ASSUME UNCHANGED <<served, fresh, todo, running>>, ~Swap PROVE Goal
  <2>1. RefreshExact'
    BY <1>e DEF RefreshExact, IsServable, Matches, Wanted
  <2> QED BY <1>d, <1>e, <2>1
<1>1. CASE UNCHANGED edgeVars
  <2>1. UNCHANGED <<served, fresh, todo, running>> /\ ~Swap
    BY <1>1 DEF edgeVars, Swap
  <2> QED BY <1>e, <2>1
<1>2. CASE RefreshStart
  <2>1. todo' = index /\ served' = served /\ ~running
    BY <1>2 DEF RefreshStart
  <2>2. RefreshExact'
    BY <1>b, <1>c, <2>1 DEF RefreshExact
  <2>3. ~Swap
    BY <2>1 DEF Swap
  <2> QED BY <1>d, <2>1, <2>2, <2>3
<1>3. CASE Swap
  <2>1. running /\ todo = {} /\ served' = fresh /\ ~running'
    BY <1>3 DEF Swap
  <2>2. ASSUME NEW z \in Zones, IsServable(z)
        PROVE  Matches(fresh[zone[z].hostname], z)
    BY <2>1, <2>2 DEF RefreshExact
  <2>3. {h \in Hostnames : fresh[h] # Nil} = ServableHosts
    <3>1. ServableHosts \subseteq {h \in Hostnames : fresh[h] # Nil}
      BY <1>b, <2>2 DEF ServableHosts, Matches
    <3>2. ASSUME NEW h \in Hostnames, fresh[h] # Nil PROVE h \in ServableHosts
      <4>1. version[h] # Nil
        BY <2>1, <3>2 DEF RefreshFollows
      <4> QED BY <4>1 DEF SystemInv, RepairInv, StoreConsistent, StoreCurrent
    <3> QED BY <3>1, <3>2
  <2>4. RefreshExact'
    BY <2>1 DEF RefreshExact
  <2>5. HoldsNothingStale'
    BY <1>c, <2>1, <2>2 DEF HoldsNothingStale
  <2>6. EdgeCurrent'
    BY <1>c, <2>1, <2>2, <2>3 DEF EdgeCurrent
  <2> QED BY <2>4, <2>5, <2>6
<1>4. ASSUME NEW h \in Hostnames, NEW value, Settle(h, value),
             \A z \in Zones : IsServable(z) /\ zone[z].hostname = h =>
                                  value # Nil /\ Matches(value, z),
             h \in todo, UNCHANGED <<served, running>>
      PROVE  Goal
  <2>1. /\ todo' = todo \ {h}
        /\ \A g \in Hostnames : fresh'[g] = IF g = h THEN value ELSE fresh[g]
    BY <1>a, <1>4 DEF Settle
  <2>2. RefreshExact'
    <3> SUFFICES ASSUME running, NEW z \in Zones, IsServable(z)
                 PROVE  \/ zone[z].hostname \in todo'
                        \/ /\ fresh'[zone[z].hostname] # Nil
                           /\ Matches(fresh'[zone[z].hostname], z)
      BY <1>4, <1>c DEF RefreshExact
    <3>1. zone[z].hostname \in todo \/ (/\ fresh[zone[z].hostname] # Nil
                                        /\ Matches(fresh[zone[z].hostname], z))
      BY DEF RefreshExact
    <3>2. zone[z].hostname \in Hostnames
      BY <1>b
    <3> QED BY <1>4, <2>1, <3>1, <3>2
  <2>3. ~Swap
    BY <1>4 DEF Swap
  <2> QED BY <1>4, <1>d, <2>2, <2>3
<1>5. ASSUME NEW h \in Hostnames, CarryForward(h) PROVE Goal
  <2>1. /\ h \in todo /\ Settle(h, served[h]) /\ UNCHANGED <<served, running>>
        /\ served[h] # Nil /\ served[h].version = version[h]
    BY <1>5 DEF CarryForward
  <2>2. \A z \in Zones : IsServable(z) /\ zone[z].hostname = h => Matches(served[h], z)
    BY <1>b, <2>1 DEF HoldsNothingStale
  <2> QED BY <1>4, <2>1, <2>2
<1>6. ASSUME NEW h \in Hostnames, VersionMoved(h) PROVE Goal
  <2>1. UNCHANGED <<served, fresh, todo, running>> /\ todo # {}
    BY <1>6 DEF VersionMoved
  <2>2. ~Swap
    BY <2>1 DEF Swap
  <2> QED BY <1>e, <2>1, <2>2
<1>7. ASSUME NEW h \in Hostnames, Fetch(h) PROVE Goal
  <2>1. /\ h \in todo /\ Settle(h, ruleset[h]) /\ UNCHANGED <<served, running>>
    BY <1>7, <1>a DEF Fetch
  <2>2. \A z \in Zones : IsServable(z) /\ zone[z].hostname = h =>
            ruleset[h] # Nil /\ Matches(ruleset[h], z)
    BY <1>b DEF Matches
  <2> QED BY <1>4, <2>1, <2>2
<1>8. ASSUME NEW h \in Hostnames, KeepPrevious(h) PROVE FALSE
  <2>1. h \in todo /\ running /\ ~Readable(ruleset[h])
    BY <1>8, <1>a DEF KeepPrevious, SystemInv, FreshInv, EdgeInv, IdleOK
  <2>2. version[h] # Nil
    BY <1>a, <2>1 DEF RefreshFollows
  <2>3. ruleset[h] # Nil
    BY <2>2 DEF SystemInv, RepairInv, StoreConsistent
  <2> QED BY <2>1, <2>3 DEF AllReadable
<1> QED BY <1>1, <1>2, <1>3, <1>5, <1>6, <1>7, <1>8 DEF RefreshStep

LEMMA QuietFollows ==
    ASSUME \A s \in Schemas : s <= Supported,
           SystemInv, SystemInv', StoreCurrent, StoreCurrent', RefreshFollows,
           [Next]_vars, [QuietNext]_vars
    PROVE  /\ AllReadable
           /\ RefreshFollows'
           /\ Swap => Followed'
           /\ ServesServable => Swap \/ ServesServable'
<1>1. AllReadable
  BY DEF AllReadable, Readable, SystemInv, RepairInv, TypeInv, DistTypeOK, StoreTypeOK,
         CompiledZone
<1>2. [CacheNext]_cacheVars
  BY NextIsCacheNext DEF SystemInv, RepairInv
<1>3. Still
  BY QuietIsStill DEF SystemInv
<1>4. RefreshFollows' /\ (Swap => Followed')
  BY <1>1, <1>2, <1>3, StillRefresh DEF SystemInv
<1>5. UNCHANGED served \/ Swap
  BY QuietNextIs DEF RefreshStep, RefreshStart, CarryForward, VersionMoved, Fetch, KeepPrevious,
                     edgeVars
<1>6. UNCHANGED <<zone, stored>>
  BY QuietNextIs
<1>7. ServesServable => Swap \/ ServesServable'
  BY <1>5, <1>6 DEF ServesServable, ServableHosts, IsServable
<1> QED BY <1>1, <1>4, <1>7

(***************************************************************************)
(* The whole path, from whatever state it was left in: once clients and    *)
(* consumers are still, no sweep is half done and the first sweep has come *)
(* to its end, a refresh that begins then swaps in a snapshot of exactly   *)
(* the servable hostnames, and so it stays, however many sweeps fail or    *)
(* replicas die.  The safety half of HostsConverge, which asks nothing of  *)
(* the clients.  (resync.RunOnce, cache.refreshOnce)                       *)
(***************************************************************************)
THEOREM QuietSystemServes ==
    ASSUME IsFiniteSet(Zones), Cardinality(Zones) <= PageLimit, ListsFindEverything,
           \A s \in Schemas : s <= Supported
    PROVE  Spec => [](QuietStart /\ [][QuietNext]_vars
                          => [](SweepEnding =>
                                    [](~running =>
                                           /\ [][Swap => ServesServable']_vars
                                           /\ [](ServesServable => []ServesServable))))
<1>1. Spec => []SystemInv
  BY SystemInvHolds
<1>2. QuietStart => QuietInv
  BY QuietFromIdle
<1>3. SystemInv /\ QuietInv /\ [QuietNext]_vars => QuietInv'
  BY QuietInductive, QuietNextIs DEF SystemInv
<1>4. SystemInv /\ QuietInv /\ SweepEnding => StoreCurrent
  BY EndingIsCurrent DEF SystemInv
<1>5. SystemInv /\ QuietInv /\ StoreCurrent /\ [QuietNext]_vars => StoreCurrent'
  BY CurrentStays, QuietNextIs DEF SystemInv
<1>6. ~running => RefreshFollows
  BY DEF RefreshFollows
<1>7. SystemInv /\ SystemInv' /\ StoreCurrent /\ StoreCurrent' /\ RefreshFollows
          /\ [Next]_vars /\ [QuietNext]_vars
          => RefreshFollows' /\ [Swap => Followed']_vars
  BY QuietFollows
<1>8. SystemInv /\ StoreCurrent /\ Followed => ServesServable
  BY FollowedServes DEF SystemInv
<1>9. SystemInv /\ SystemInv' /\ StoreCurrent /\ StoreCurrent' /\ RefreshFollows
          /\ [Next]_vars /\ [QuietNext]_vars /\ ServesServable
          => Followed' \/ ServesServable'
  BY QuietFollows
<1> QED BY <1>1, <1>2, <1>3, <1>4, <1>5, <1>6, <1>7, <1>8, <1>9, PTL DEF Spec

(***************************************************************************)
(* And it swaps in the current rule-sets if, when it begins, the node      *)
(* holds nothing stale under a current version: a node that has just       *)
(* started does not, and neither does one whose clients kept raising       *)
(* versions (DisciplineSuffices).  Nothing else stands between a sweep     *)
(* that ended and the edge.                                                *)
(***************************************************************************)
THEOREM QuietSystemIsCurrent ==
    ASSUME IsFiniteSet(Zones), Cardinality(Zones) <= PageLimit, ListsFindEverything,
           \A s \in Schemas : s <= Supported
    PROVE  Spec => [](QuietStart /\ [][QuietNext]_vars
                          => [](SweepEnding =>
                                    [](~running /\ HoldsNothingStale =>
                                           /\ [][Swap => EdgeCurrent']_vars
                                           /\ [](EdgeCurrent => []EdgeCurrent))))
<1>1. Spec => []SystemInv
  BY SystemInvHolds
<1>2. QuietStart => QuietInv
  BY QuietFromIdle
<1>3. SystemInv /\ QuietInv /\ [QuietNext]_vars => QuietInv'
  BY QuietInductive, QuietNextIs DEF SystemInv
<1>4. SystemInv /\ QuietInv /\ SweepEnding => StoreCurrent
  BY EndingIsCurrent DEF SystemInv
<1>5. SystemInv /\ QuietInv /\ StoreCurrent /\ [QuietNext]_vars => StoreCurrent'
  BY CurrentStays, QuietNextIs DEF SystemInv
<1> DEFINE Exact == RefreshFollows /\ RefreshExact /\ HoldsNothingStale
<1>6. ~running /\ HoldsNothingStale => Exact
  BY DEF RefreshFollows, RefreshExact
<1>7. SystemInv /\ SystemInv' /\ StoreCurrent /\ StoreCurrent' /\ Exact
          /\ [Next]_vars /\ [QuietNext]_vars
          => /\ Exact'
             /\ [Swap => EdgeCurrent']_vars
             /\ EdgeCurrent => EdgeCurrent'
  <2> SUFFICES ASSUME SystemInv, SystemInv', StoreCurrent, StoreCurrent', Exact,
                      [Next]_vars, [QuietNext]_vars
               PROVE  /\ Exact'
                      /\ Swap => EdgeCurrent'
                      /\ EdgeCurrent => EdgeCurrent'
    OBVIOUS
  <2>1. AllReadable /\ RefreshFollows'
    BY QuietFollows
  <2>2. UNCHANGED <<zone, stored>> /\ (UNCHANGED edgeVars \/ RefreshStep)
    BY QuietNextIs
  <2> QED BY <2>1, <2>2, ExactRefresh
<1> HIDE DEF Exact
<1> QED BY <1>1, <1>2, <1>3, <1>4, <1>5, <1>6, <1>7, PTL DEF Spec

(***************************************************************************)
(* The discipline of raising versions is enough, and this is all it takes: *)
(* no tenant-wide record, every change followed by a raised version, and   *)
(* no hostname passed on to a zone of the very version its former zone     *)
(* was held under.  Then the node ends up with the current rule-sets at    *)
(* its first refresh after a sweep, and keeps them: the safety half of     *)
(* EdgeConvergesOnceBumped.                                                *)
(***************************************************************************)
THEOREM DisciplineSuffices ==
    ASSUME IsFiniteSet(Zones), Cardinality(Zones) <= PageLimit, ListsFindEverything,
           \A s \in Schemas : s <= Supported, NoTenantWide
    PROVE  Spec => [](QuietStart /\ [][QuietNext]_vars
                          => [](SweepEnding =>
                                    [](~running /\ owed = {} /\ NotTakenOver =>
                                           /\ [][Swap => EdgeCurrent']_vars
                                           /\ [](EdgeCurrent => []EdgeCurrent))))
<1>1. Spec => []VersionTellsContent /\ []SystemInv
  BY VersionsTellContent, SystemInvHolds, PTL
<1>2. VersionTellsContent /\ SystemInv /\ owed = {} /\ NotTakenOver => HoldsNothingStale
  <2> SUFFICES ASSUME VersionTellsContent, SystemInv, owed = {}, NotTakenOver,
                      NEW z \in Zones, IsServable(z),
                      served[zone[z].hostname] # Nil,
                      served[zone[z].hostname].version = zone[z].version
               PROVE  Matches(served[zone[z].hostname], z)
    BY DEF HoldsNothingStale
  <2>1. zone[z].hostname \in Hostnames
    BY DEF SystemInv, RepairInv, TypeInv, DistTypeOK, DataTypeOK, ZoneRecord, IsServable
  <2>2. served[zone[z].hostname].zone = z
    BY DEF NotTakenOver
  <2> QED BY <2>1, <2>2 DEF VersionTellsContent, IsServable
<1> QED BY <1>1, <1>2, QuietSystemIsCurrent, PTL

===============================================================================
