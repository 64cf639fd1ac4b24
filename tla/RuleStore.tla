------------------------------ MODULE RuleStore ------------------------------
(***************************************************************************)
(* The Redis database between control-plane and edge-plane: its keys       *)
(* (control-plane/go/ruleset) and the four writes and reads of the         *)
(* distributor (control-plane/go/distribute).  Each write is one MULTI/EXEC *)
(* transaction, so one step here; readers of several keys are not atomic   *)
(* and their steps are separate (EdgeCache, Distributor).                  *)
(***************************************************************************)
EXTENDS Naturals

CONSTANTS
    Zones,        \* zone record ids of the tenant
    Hostnames,    \* hostnames a zone may protect
    Records,      \* ids of DDoS policies, firewall rules and access-list entries
    Versions,     \* values clients write into Zone.configVersion
    Schemas,      \* rule-set schema versions some control-plane build writes
    MaxEpoch,     \* bound: the epoch counter saturates here
    Nil           \* absence of a value

VARIABLES
    index,        \* waf:zones, the SET of published hostnames
    ruleset,      \* waf:zone:{hostname}, the compiled rule-set or Nil
    version,      \* waf:zone-version:{hostname}, a configVersion or Nil
    epoch         \* waf:ruleset-epoch

storeVars == <<index, ruleset, version, epoch>>

\* Zone states that are served at the edge (compile.Publishable).
Servable == {"active", "paused"}

\* A compiled rule-set; rules is the set of records it was compiled from.
CompiledZone ==
    [zone: Zones, hostname: Hostnames, status: Servable, version: Versions,
     rules: SUBSET Records, schema: Schemas]

ASSUME StoreAssumption ==
    /\ Versions \subseteq Nat
    /\ Schemas \subseteq Nat
    /\ MaxEpoch \in Nat
    /\ Nil \notin Hostnames \cup CompiledZone

StoreTypeOK ==
    /\ index \subseteq Hostnames
    /\ ruleset \in [Hostnames -> CompiledZone \cup {Nil}]
    /\ version \in [Hostnames -> Versions \cup {Nil}]
    /\ epoch \in 0..MaxEpoch

StoreInit ==
    /\ index = {}
    /\ ruleset = [h \in Hostnames |-> Nil]
    /\ version = [h \in Hostnames |-> Nil]
    /\ epoch = 0

\* Mutant: the version key is forgotten.
PublishWithoutVersion(p) ==
    /\ ruleset' = [ruleset EXCEPT ![p.hostname] = p]
    /\ index' = index \cup {p.hostname}
    /\ UNCHANGED <<version, epoch>>

Publish(p) ==
    /\ ruleset' = [ruleset EXCEPT ![p.hostname] = p]
    /\ version' = [version EXCEPT ![p.hostname] = p.version]
    /\ index' = index \cup {p.hostname}
    /\ UNCHANGED epoch

\* Mutant: only the index entry goes.
UnpublishIndexOnly(h) ==
    /\ index' = index \ {h}
    /\ UNCHANGED <<ruleset, version, epoch>>

Unpublish(h) ==
    /\ index' = index \ {h}
    /\ ruleset' = [ruleset EXCEPT ![h] = Nil]
    /\ version' = [version EXCEPT ![h] = Nil]
    /\ UNCHANGED epoch

BumpEpoch ==
    /\ epoch' = IF epoch < MaxEpoch THEN epoch + 1 ELSE epoch
    /\ UNCHANGED <<index, ruleset, version>>

(***************************************************************************)
(* A reader that finds a hostname in the index finds a complete rule-set   *)
(* of that very hostname behind it, announced under its own version; a     *)
(* hostname outside the index has left nothing behind.                     *)
(* (distribute.Publish and distribute.Unpublish, for every interleaving of *)
(* their callers)                                                          *)
(***************************************************************************)
StoreConsistent ==
    \A h \in Hostnames :
        IF h \in index
        THEN /\ ruleset[h] # Nil
             /\ ruleset[h].hostname = h
             /\ version[h] = ruleset[h].version
        ELSE ruleset[h] = Nil /\ version[h] = Nil
==============================================================================
