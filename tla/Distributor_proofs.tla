-------------------------- MODULE Distributor_proofs --------------------------
(***************************************************************************)
(* Proofs about the distributor, for any number of zones, hostnames,       *)
(* records, replicas, writes and faults: its types, the consistency of the *)
(* store, and, as long as one page of the zone list holds every zone, that *)
(* no loop ever unpublishes a zone nobody touches and that a sweep which   *)
(* nobody disturbs repairs the store.                                      *)
(***************************************************************************)
EXTENDS Distributor, FiniteSetTheorems, TLAPS

\* What a handler between two of its steps has read and holds.
SubOK(s) ==
    /\ s.pc # "idle" => s.msg # Nil /\ s.msg.zone # Nil
    /\ s.pc \in {"records", "rename", "publish"} =>
           /\ s.msg.zone # Global
           /\ s.rec # Nil
           /\ s.rec.status \in Servable
    /\ s.pc = "rename" => s.msg.hostname # Nil
    /\ s.pc = "unpublish" => s.host # Nil

\* What a sweep holds: servable records, and the one it is compiling.
SweepOK(s) ==
    /\ \A z \in Zones : s.seen[z] # Nil => s.seen[z].status \in Servable
    /\ s.cur # Nil => s.seen[s.cur] # Nil
    /\ s.pc = "publish" => s.cur # Nil
    /\ s.pc \in {"idle", "tenant"} => s.cur = Nil

LocalInv == \A w \in Workers : SubOK(sub[w]) /\ SweepOK(sweep[w])

TypeInv == DistTypeOK /\ LocalInv

-----------------------------------------------------------------------------
\* The three transactions keep the store well typed and consistent.
LEMMA PublishStore ==
    ASSUME StoreTypeOK, NEW p \in CompiledZone, Publish(p)
    PROVE  StoreTypeOK' /\ (StoreConsistent => StoreConsistent')
<1>1. p.hostname \in Hostnames /\ p.version \in Versions
  BY DEF CompiledZone
<1>2. StoreTypeOK'
  BY <1>1 DEF StoreTypeOK, Publish
<1>3. p # Nil
  BY StoreAssumption
<1>4. StoreConsistent => StoreConsistent'
  BY <1>1, <1>3 DEF StoreTypeOK, StoreConsistent, Publish
<1> QED BY <1>2, <1>4

LEMMA UnpublishStore ==
    ASSUME StoreTypeOK, NEW h \in Hostnames, Unpublish(h)
    PROVE  StoreTypeOK' /\ (StoreConsistent => StoreConsistent')
<1>1. StoreTypeOK'
  BY DEF StoreTypeOK, Unpublish
<1>2. StoreConsistent => StoreConsistent'
  BY DEF StoreTypeOK, StoreConsistent, Unpublish
<1> QED BY <1>1, <1>2

LEMMA BumpEpochStore ==
    ASSUME StoreTypeOK, BumpEpoch
    PROVE  StoreTypeOK' /\ (StoreConsistent => StoreConsistent')
<1>1. StoreTypeOK'
  BY StoreAssumption DEF StoreTypeOK, BumpEpoch
<1>2. StoreConsistent => StoreConsistent'
  BY DEF StoreConsistent, BumpEpoch
<1> QED BY <1>1, <1>2

\* A compiled zone is a legal rule-set when what it was compiled from is.
LEMMA CompileType ==
    ASSUME NEW w \in Workers, NEW z \in Zones, NEW rec \in ZoneRecord,
           rec.status \in Servable, NEW rules \in SUBSET Records
    PROVE  Compile(w, z, rec, rules) \in CompiledZone
BY DistributorAssumption DEF Compile, CompiledZone, ZoneRecord

LEMMA SubCompiledType ==
    ASSUME TypeInv, NEW w \in Workers, sub[w].pc = "publish"
    PROVE  SubCompiled(w) \in CompiledZone
<1>1. SubOK(sub[w]) /\ sub[w].rec \in ZoneRecord \cup {Nil} /\ sub[w].rules \subseteq Records
      /\ sub[w].msg \in Message \cup {Nil}
  BY DEF TypeInv, LocalInv, DistTypeOK, WorkerTypeOK, SubState, SweepState
<1>2. sub[w].rec \in ZoneRecord /\ sub[w].rec.status \in Servable /\ sub[w].msg \in Message
      /\ sub[w].msg.zone # Nil /\ sub[w].msg.zone # Global
  BY <1>1 DEF SubOK
<1>3. sub[w].msg.zone \in Zones
  BY <1>2 DEF Message
<1> QED BY <1>1, <1>2, <1>3, CompileType DEF SubCompiled

LEMMA SweepCompiledType ==
    ASSUME TypeInv, NEW w \in Workers, sweep[w].pc = "publish"
    PROVE  /\ SweepCompiled(w) \in CompiledZone
           /\ sweep[w].cur \in Zones
           /\ sweep[w].seen[sweep[w].cur] \in ZoneRecord
<1>1. /\ SweepOK(sweep[w])
      /\ sweep[w].seen \in [Zones -> ZoneRecord \cup {Nil}]
      /\ sweep[w].cur \in Zones \cup {Nil}
      /\ sweep[w].rules \subseteq Records /\ sweep[w].tenant \subseteq Records
  BY DEF TypeInv, LocalInv, DistTypeOK, WorkerTypeOK, SubState, SweepState
<1>2. sweep[w].cur \in Zones /\ sweep[w].seen[sweep[w].cur] # Nil
  BY <1>1 DEF SweepOK
<1>3. /\ sweep[w].seen[sweep[w].cur] \in ZoneRecord
      /\ sweep[w].seen[sweep[w].cur].status \in Servable
  BY <1>1, <1>2 DEF SweepOK
<1> QED BY <1>1, <1>2, <1>3, CompileType DEF SweepCompiled

-----------------------------------------------------------------------------
\* Steps that leave a variable group alone keep what is said of that group.
LEMMA StoreUnchanged ==
    ASSUME UNCHANGED storeVars
    PROVE  (StoreTypeOK => StoreTypeOK') /\ (StoreConsistent => StoreConsistent')
BY DEF storeVars, StoreTypeOK, StoreConsistent

LEMMA WorkersUnchanged ==
    ASSUME UNCHANGED workerVars
    PROVE  (WorkerTypeOK => WorkerTypeOK') /\ (LocalInv => LocalInv')
BY DEF workerVars, WorkerTypeOK, LocalInv, SubOK, SweepOK

LEMMA DataUnchanged ==
    ASSUME UNCHANGED dataVars
    PROVE  DataTypeOK => DataTypeOK'
BY DEF dataVars, DataTypeOK

\* Every client write keeps the tables well typed.
LEMMA ClientWriteType ==
    ASSUME DataTypeOK, ClientWrite
    PROVE  DataTypeOK'
<1> USE DataPlaneAssumption, StoreAssumption DEF DataTypeOK, Write, Emit
<1>1. ASSUME NEW z \in Zones, NEW record \in ZoneRecord, ZoneChange(z, record)
      PROVE  DataTypeOK'
  <2>1. \A h \in {record.hostname, Nil} : [zone |-> z, hostname |-> h] \in Message
    BY DEF Message, ZoneRecord
  <2> QED BY <1>1, <2>1 DEF ZoneChange
<1>2. ASSUME NEW z \in Zones, NEW h \in Hostnames, CreateZone(z, h)
      PROVE  DataTypeOK'
  <2>1. [hostname |-> h, status |-> "pending", version |-> 1] \in ZoneRecord
    BY DEF ZoneRecord, Statuses
  <2> QED BY <1>1, <1>2, <2>1 DEF CreateZone
<1>3. ASSUME NEW z \in Zones, NEW h \in Hostnames, Rename(z, h)
      PROVE  DataTypeOK'
  <2>1. [zone[z] EXCEPT !.hostname = h] \in ZoneRecord
    BY <1>3 DEF Rename, ZoneRecord
  <2> QED BY <1>1, <1>3, <2>1 DEF Rename
<1>4. ASSUME NEW z \in Zones, NEW st \in Statuses, Transition(z, st)
      PROVE  DataTypeOK'
  <2>1. [zone[z] EXCEPT !.status = st] \in ZoneRecord
    BY <1>4 DEF Transition, ZoneRecord
  <2> QED BY <1>1, <1>4, <2>1 DEF Transition
<1>5. ASSUME NEW z \in Zones, DeleteZone(z)
      PROVE  DataTypeOK'
  <2>1. [zone |-> z, hostname |-> Nil] \in Message
    BY DEF Message
  <2> QED BY <1>5, <2>1 DEF DeleteZone
<1>6. ASSUME NEW z \in Zones, BumpVersion(z)
      PROVE  DataTypeOK'
  <2>1. zone[z] \in ZoneRecord
    BY <1>6 DEF BumpVersion
  <2>2. zone' \in [Zones -> ZoneRecord \cup {Nil}]
    BY <1>6, <2>1 DEF BumpVersion, ZoneRecord
  <2>3. \A h \in {zone[z].hostname, Nil} : [zone |-> z, hostname |-> h] \in Message
    BY <2>1 DEF Message, ZoneRecord
  <2> QED BY <1>6, <2>2, <2>3 DEF BumpVersion
<1>7. ASSUME NEW r \in Records, PutRecord(r) \/ DropRecord(r)
      PROVE  DataTypeOK'
  <2>1. \A z \in {Owner[r], Nil} : [zone |-> z, hostname |-> Nil] \in Message
    BY DEF Message
  <2> QED BY <1>7, <2>1 DEF PutRecord, DropRecord, RecordOwed
<1> QED BY <1>2, <1>3, <1>4, <1>5, <1>6, <1>7 DEF ClientWrite

LEMMA InitTypeInv == DistInit => TypeInv /\ StoreConsistent
<1> SUFFICES ASSUME DistInit PROVE TypeInv /\ StoreConsistent
  OBVIOUS
<1> USE StoreAssumption, DataPlaneAssumption, DistributorAssumption DEF DistInit
<1>1. StoreTypeOK /\ StoreConsistent
  BY DEF StoreInit, StoreTypeOK, StoreConsistent
<1>2. DataTypeOK
  BY DEF DataInit, DataTypeOK, ZoneRecord, Statuses, Servable
<1>3. WorkerTypeOK
  BY DEF WorkerInit, WorkerTypeOK, SubState, SweepState, SubIdle, SweepIdle
<1>4. LocalInv
  BY DEF WorkerInit, LocalInv, SubOK, SweepOK, SubIdle, SweepIdle
<1> QED BY <1>1, <1>2, <1>3, <1>4 DEF TypeInv, DistTypeOK

-----------------------------------------------------------------------------
\* One replica's consumer; the sweeps and the other replicas do not move.
LEMMA SubMoves ==
    ASSUME TypeInv, NEW w \in Workers, NEW s \in SubState, SubOK(s), SubBecomes(w, s),
           UNCHANGED <<sweep, up, faults>>
    PROVE  WorkerTypeOK' /\ LocalInv'
BY DEF TypeInv, DistTypeOK, WorkerTypeOK, LocalInv, SubBecomes

LEMMA SubIdleOK == SubIdle \in SubState /\ SubOK(SubIdle)
BY DEF SubIdle, SubState, SubOK

LEMMA SubStepInv ==
    ASSUME TypeInv, NEW w \in Workers, SubStep(w)
    PROVE  TypeInv' /\ (StoreConsistent => StoreConsistent')
<1> USE DEF TypeInv, DistTypeOK
<1> DEFINE s == sub[w]
<1>a. s \in SubState /\ SubOK(s)
  BY DEF WorkerTypeOK, LocalInv
<1>b. \A m \in Message : /\ m.zone \in Zones \cup {Global, Nil}
                         /\ m.hostname \in Hostnames \cup {Nil}
                         /\ m # Nil
  BY DataPlaneAssumption DEF Message
<1>c. \A rec \in ZoneRecord : rec.hostname \in Hostnames /\ rec.hostname # Nil /\ rec # Nil
  BY DataPlaneAssumption, StoreAssumption DEF ZoneRecord
<1>d. s.pc # "idle" => s.msg \in Message
  BY <1>a DEF SubState, SubOK
<1>1. CASE AckUnresolvable(w)
  BY <1>1, StoreUnchanged, WorkersUnchanged DEF AckUnresolvable, DataTypeOK
<1>2. CASE Deliver(w)
  <2>1. DataTypeOK' /\ StoreTypeOK' /\ (StoreConsistent => StoreConsistent')
    BY <1>2, StoreUnchanged DEF Deliver, DataTypeOK
  <2>2. PICK m \in Message :
            m.zone # Nil /\ SubBecomes(w, [s EXCEPT !.pc = "zone", !.msg = m])
    BY <1>2 DEF Deliver, DataTypeOK
  <2>3. [s EXCEPT !.pc = "zone", !.msg = m] \in SubState
    BY <1>a DEF SubState
  <2>4. SubOK([s EXCEPT !.pc = "zone", !.msg = m])
    BY <1>a, <1>b, <2>2 DEF SubState, SubOK
  <2> QED BY <1>2, <2>1, <2>2, <2>3, <2>4, SubMoves DEF Deliver
<1>3. CASE RequeueTenantWide(w)
  <2>1. DataTypeOK' /\ StoreTypeOK' /\ (StoreConsistent => StoreConsistent')
    BY <1>3, <1>d, StoreUnchanged DEF RequeueTenantWide, Requeue, DataTypeOK
  <2> QED BY <1>3, <2>1, SubIdleOK, SubMoves DEF RequeueTenantWide, Requeue, SubDone
<1>4. CASE SubReadZone(w)
  <2>1. DataTypeOK' /\ StoreTypeOK' /\ (StoreConsistent => StoreConsistent')
    BY <1>4, StoreUnchanged, DataUnchanged DEF SubReadZone
  <2>2. s.msg \in Message /\ s.msg.zone \in Zones /\ s.pc = "zone"
    BY <1>4, <1>a, <1>b, <1>d DEF SubReadZone, SubOK
  <2>3. zone[s.msg.zone] \in ZoneRecord \cup {Nil}
    BY <2>2 DEF DataTypeOK
  <2>4. ASSUME NEW h \in Hostnames, h # Nil,
               SubBecomes(w, [s EXCEPT !.pc = "unpublish", !.host = h])
        PROVE  WorkerTypeOK' /\ LocalInv'
    <3>1. [s EXCEPT !.pc = "unpublish", !.host = h] \in SubState
      BY <1>a DEF SubState
    <3>2. SubOK([s EXCEPT !.pc = "unpublish", !.host = h])
      BY <1>a, <2>2, <2>4 DEF SubState, SubOK
    <3> QED BY <1>4, <2>4, <3>1, <3>2, SubMoves DEF SubReadZone
  <2>5. ASSUME IsServable(s.msg.zone),
               SubBecomes(w, [s EXCEPT !.pc = "records", !.rec = zone[s.msg.zone]])
        PROVE  WorkerTypeOK' /\ LocalInv'
    <3>1. [s EXCEPT !.pc = "records", !.rec = zone[s.msg.zone]] \in SubState
      BY <1>a, <2>3 DEF SubState
    <3>2. SubOK([s EXCEPT !.pc = "records", !.rec = zone[s.msg.zone]])
      BY <1>a, <1>4, <2>2, <2>5 DEF SubState, SubOK, IsServable, SubReadZone
    <3> QED BY <1>4, <2>5, <3>1, <3>2, SubMoves DEF SubReadZone
  <2>6. ASSUME SubDone(w)
        PROVE  WorkerTypeOK' /\ LocalInv'
    BY <1>4, <2>6, SubIdleOK, SubMoves DEF SubReadZone, SubDone
  <2>7. WorkerTypeOK' /\ LocalInv'
    BY <1>4, <1>b, <1>c, <2>2, <2>3, <2>4, <2>5, <2>6 DEF SubReadZone
  <2> QED BY <2>1, <2>7
<1>5. CASE SubReadRecords(w)
  <2>1. DataTypeOK' /\ StoreTypeOK' /\ (StoreConsistent => StoreConsistent')
    BY <1>5, StoreUnchanged, DataUnchanged DEF SubReadRecords
  <2> DEFINE read == RecordsOf(s.msg.zone, ReadOrder[s.k])
             to(pc) == [s EXCEPT !.rules = @ \cup read, !.k = @ + 1, !.pc = pc]
  <2>2. read \subseteq Records
    BY DEF RecordsOf, DataTypeOK
  <2>3. PICK pc \in {"records", "rename", "publish"} :
            /\ SubBecomes(w, to(pc))
            /\ pc = "rename" => s.msg.hostname # Nil
    BY <1>5 DEF SubReadRecords
  <2>4. to(pc) \in SubState
    <3>1. s.rules \cup read \in SUBSET Records /\ s.k + 1 \in Nat
      BY <1>a, <2>2 DEF SubState
    <3>2. pc \in {"idle", "zone", "records", "rename", "publish", "unpublish"}
      BY <2>3
    <3> HIDE DEF read
    <3> QED BY <1>a, <3>1, <3>2 DEF SubState
  <2>5. SubOK(to(pc))
    BY <1>5, <1>a, <2>3 DEF SubState, SubOK, SubReadRecords
  <2>6. WorkerTypeOK' /\ LocalInv'
    BY <1>5, <2>3, <2>4, <2>5, SubMoves DEF SubReadRecords
  <2> QED BY <2>1, <2>6
<1>6. CASE SubUnpublishOld(w)
  <2>1. s.msg.hostname \in Hostnames
    BY <1>6, <1>a, <1>b, <1>d DEF SubUnpublishOld, SubOK
  <2>2. StoreTypeOK' /\ (StoreConsistent => StoreConsistent')
    BY <1>6, <2>1, UnpublishStore DEF SubUnpublishOld
  <2>3. [s EXCEPT !.pc = "publish"] \in SubState /\ SubOK([s EXCEPT !.pc = "publish"])
    BY <1>6, <1>a DEF SubUnpublishOld, SubState, SubOK
  <2> QED BY <1>6, <2>2, <2>3, SubMoves, DataUnchanged DEF SubUnpublishOld
<1>7. CASE SubPublish(w)
  <2>1. StoreTypeOK' /\ (StoreConsistent => StoreConsistent')
    BY <1>7, SubCompiledType, PublishStore DEF SubPublish
  <2> QED BY <1>7, <2>1, SubIdleOK, SubMoves, DataUnchanged DEF SubPublish, SubDone
<1>8. CASE SubUnpublish(w)
  <2>1. s.host \in Hostnames
    BY <1>8, <1>a DEF SubUnpublish, SubState, SubOK
  <2>2. StoreTypeOK' /\ (StoreConsistent => StoreConsistent')
    BY <1>8, <2>1, UnpublishStore DEF SubUnpublish
  <2> QED BY <1>8, <2>2, SubIdleOK, SubMoves, DataUnchanged DEF SubUnpublish, SubDone
<1> QED BY <1>1, <1>2, <1>3, <1>4, <1>5, <1>6, <1>7, <1>8 DEF SubStep

-----------------------------------------------------------------------------
\* One replica's sweep; the consumers and the other replicas do not move.
LEMMA SweepMoves ==
    ASSUME TypeInv, NEW w \in Workers, NEW s \in SweepState, SweepOK(s), SweepBecomes(w, s),
           UNCHANGED sub, faults' \in 0..MaxFaults, up' \subseteq Workers
    PROVE  WorkerTypeOK' /\ LocalInv'
BY DEF TypeInv, DistTypeOK, WorkerTypeOK, LocalInv, SweepBecomes

LEMMA SweepIdleOK == SweepIdle \in SweepState /\ SweepOK(SweepIdle)
BY DEF SweepIdle, SweepState, SweepOK

LEMMA SweepStepInv ==
    ASSUME TypeInv, NEW w \in Workers, SweepStep(w)
    PROVE  TypeInv' /\ (StoreConsistent => StoreConsistent')
<1> USE DEF TypeInv, DistTypeOK
<1> DEFINE s == sweep[w]
<1>a. s \in SweepState /\ SweepOK(s)
  BY DEF WorkerTypeOK, LocalInv
<1>b. \A rec \in ZoneRecord : rec.hostname \in Hostnames /\ rec # Nil
  BY DataPlaneAssumption DEF ZoneRecord
<1>c. faults \in 0..MaxFaults /\ up \subseteq Workers
  BY DEF WorkerTypeOK
<1>1. CASE SweepStart(w)
  <2>1. PICK page \in SUBSET Zones :
            SweepBecomes(w, [s EXCEPT !.pc = "tenant",
                !.seen = [z \in Zones |-> IF z \in page /\ IsServable(z) THEN zone[z] ELSE Nil]])
    BY <1>1 DEF SweepStart
  <2> DEFINE seen == [z \in Zones |-> IF z \in page /\ IsServable(z) THEN zone[z] ELSE Nil]
             t == [s EXCEPT !.pc = "tenant", !.seen = seen]
  <2>2. /\ seen \in [Zones -> ZoneRecord \cup {Nil}]
        /\ \A z \in Zones : seen[z] # Nil => seen[z].status \in Servable
    BY DEF DataTypeOK, IsServable
  <2>3. s.cur = Nil
    BY <1>1, <1>a DEF SweepStart, SweepOK, SweepState, WorkerTypeOK
  <2>4. t \in SweepState
    BY <1>a, <2>2 DEF SweepState
  <2>5. SweepOK(t)
    BY <1>a, <2>2, <2>3 DEF SweepState, SweepOK
  <2> QED BY <1>1, <1>c, <2>1, <2>4, <2>5, SweepMoves, StoreUnchanged, DataUnchanged
          DEF SweepStart
<1>2. CASE SweepReadTenant(w)
  <2> DEFINE read == RecordsOf(Global, TenantOrder[s.k])
             to(k, pc) == [s EXCEPT !.tenant = @ \cup read, !.k = k, !.pc = pc]
             last == s.k = Len(TenantOrder)
  <2>1. s.tenant \cup read \in SUBSET Records
    BY <1>a DEF RecordsOf, DataTypeOK, SweepState
  <2>2. PICK k \in Nat, pc \in {"tenant", "zones"} : SweepBecomes(w, to(k, pc))
    <3>1. SweepBecomes(w, to(IF last THEN 1 ELSE s.k + 1, IF last THEN "zones" ELSE "tenant"))
      BY <1>2 DEF SweepReadTenant
    <3>2. (IF last THEN 1 ELSE s.k + 1) \in Nat
      BY <1>a DEF SweepState
    <3> HIDE DEF last, to
    <3> QED BY <3>1, <3>2
  <2> HIDE DEF read
  <2>3. to(k, pc) \in SweepState
    BY <1>a, <2>1 DEF SweepState
  <2>4. SweepOK(to(k, pc))
    BY <1>2, <1>a DEF SweepState, SweepOK, SweepReadTenant
  <2> QED BY <1>2, <1>c, <2>2, <2>3, <2>4, SweepMoves, StoreUnchanged, DataUnchanged
          DEF SweepReadTenant
<1>3. CASE SweepReadRecords(w)
  <2>1. PICK z \in Zones :
            /\ s.seen[z] # Nil
            /\ SweepBecomes(w, [s EXCEPT !.cur = z,
                   !.rules = @ \cup RecordsOf(z, ReadOrder[s.k]), !.k = s.k + 1,
                   !.pc = IF s.k = Len(ReadOrder) THEN "publish" ELSE "zones"])
    BY <1>3, <1>a DEF SweepReadRecords, SweepState, SweepOK
  <2> DEFINE read == s.rules \cup RecordsOf(z, ReadOrder[s.k])
             next == IF s.k = Len(ReadOrder) THEN "publish" ELSE "zones"
             t == [s EXCEPT !.cur = z, !.rules = read, !.k = s.k + 1, !.pc = next]
  <2>2. read \in SUBSET Records /\ next \in {"publish", "zones"} /\ s.k + 1 \in Nat
    BY <1>a DEF RecordsOf, DataTypeOK, SweepState
  <2>3. SweepBecomes(w, t)
    BY <2>1
  <2>4. z # Nil
    BY DataPlaneAssumption
  <2> HIDE DEF read, next
  <2>5. t \in SweepState
    BY <1>a, <2>2 DEF SweepState
  <2>6. SweepOK(t)
    BY <1>a, <2>1, <2>2, <2>4 DEF SweepState, SweepOK
  <2> QED BY <1>3, <1>c, <2>3, <2>5, <2>6, SweepMoves, StoreUnchanged, DataUnchanged
          DEF SweepReadRecords
<1>4. CASE SweepPublish(w)
  <2>1. /\ s.cur \in Zones /\ s.seen[s.cur] \in ZoneRecord
        /\ StoreTypeOK' /\ (StoreConsistent => StoreConsistent')
    BY <1>4, SweepCompiledType, PublishStore DEF SweepPublish
  <2> DEFINE seen == [s.seen EXCEPT ![s.cur] = Nil]
             done == s.expected \cup {s.seen[s.cur].hostname}
             t == [s EXCEPT !.pc = "zones", !.cur = Nil, !.k = 1, !.rules = {},
                            !.seen = seen, !.expected = done]
  <2>2. seen \in [Zones -> ZoneRecord \cup {Nil}] /\ done \in SUBSET Hostnames
    BY <1>a, <1>b, <2>1 DEF SweepState
  <2>3. \A z \in Zones : seen[z] # Nil => seen[z].status \in Servable
    BY <1>a, <2>1 DEF SweepState, SweepOK
  <2>4. SweepBecomes(w, t)
    BY <1>4 DEF SweepPublish
  <2> HIDE DEF seen, done
  <2>5. t \in SweepState
    BY <1>a, <2>2 DEF SweepState
  <2>6. SweepOK(t)
    BY <1>a, <2>3 DEF SweepState, SweepOK
  <2> QED BY <1>4, <1>c, <2>1, <2>4, <2>5, <2>6, SweepMoves, DataUnchanged DEF SweepPublish
<1>5. CASE SweepReadIndex(w)
  <2> DEFINE t == [s EXCEPT !.pc = "orphans", !.orphans = index \ s.expected]
  <2>1. t \in SweepState /\ SweepOK(t)
    BY <1>a DEF SweepState, SweepOK, StoreTypeOK
  <2> QED BY <1>5, <1>c, <2>1, SweepMoves, StoreUnchanged, DataUnchanged DEF SweepReadIndex
<1>6. CASE SweepUnpublish(w)
  <2>1. PICK h \in Hostnames :
            Unpublish(h) /\ SweepBecomes(w, [s EXCEPT !.orphans = @ \ {h}])
    BY <1>6, <1>a DEF SweepUnpublish, SweepState
  <2>2. [s EXCEPT !.orphans = @ \ {h}] \in SweepState /\ SweepOK([s EXCEPT !.orphans = @ \ {h}])
    BY <1>a DEF SweepState, SweepOK
  <2> QED BY <1>6, <1>c, <2>1, <2>2, SweepMoves, UnpublishStore, DataUnchanged
          DEF SweepUnpublish
<1>7. CASE SweepEnd(w)
  BY <1>7, <1>c, SweepIdleOK, SweepMoves, BumpEpochStore, DataUnchanged DEF SweepEnd, SweepDone
<1> QED BY <1>1, <1>2, <1>3, <1>4, <1>5, <1>6, <1>7 DEF SweepStep

\* Failures leave the store in a state some transaction put it in.
LEMMA FailureInv ==
    ASSUME TypeInv, Failure
    PROVE  TypeInv' /\ (StoreConsistent => StoreConsistent')
<1> USE DEF TypeInv, DistTypeOK
<1>1. ASSUME Fault PROVE faults' \in 0..MaxFaults
  BY <1>1, DistributorAssumption DEF Fault, WorkerTypeOK
<1>2. ASSUME NEW w \in Workers, SubFails(w)
      PROVE  TypeInv' /\ (StoreConsistent => StoreConsistent')
  <2>1. sub[w] \in SubState /\ SubOK(sub[w]) /\ sub[w].msg \in Message /\ sub[w].pc # "idle"
    BY <1>2 DEF SubFails, WorkerTypeOK, LocalInv, SubState, SubOK
  <2>2. StoreTypeOK' /\ (StoreConsistent => StoreConsistent')
    <3>1. sub[w].pc = "rename" => sub[w].msg.hostname \in Hostnames
      BY <2>1 DEF SubOK, Message
    <3>2. sub[w].pc = "unpublish" => sub[w].host \in Hostnames
      BY <2>1 DEF SubOK, SubState
    <3> QED BY <1>2, <3>1, <3>2, StoreUnchanged, PublishStore, UnpublishStore, SubCompiledType
            DEF SubFails
  <2>3. DataTypeOK'
    BY <1>2, <2>1 DEF SubFails, Requeue, DataTypeOK
  <2>4. WorkerTypeOK' /\ LocalInv'
    BY <1>1, <1>2, SubIdleOK
    DEF SubFails, Requeue, SubDone, SubBecomes, WorkerTypeOK, LocalInv
  <2> QED BY <2>2, <2>3, <2>4
<1>3. ASSUME NEW w \in Workers, SweepFails(w)
      PROVE  TypeInv' /\ (StoreConsistent => StoreConsistent')
  <2>1. StoreTypeOK' /\ (StoreConsistent => StoreConsistent')
    <3>1. sweep[w].orphans \subseteq Hostnames
      BY DEF WorkerTypeOK, SweepState
    <3> QED BY <1>3, <3>1, StoreUnchanged, PublishStore, UnpublishStore, SweepCompiledType
            DEF SweepFails
  <2>2. WorkerTypeOK' /\ LocalInv'
    BY <1>1, <1>3, SweepIdleOK, SweepMoves DEF SweepFails, SweepDone, WorkerTypeOK
  <2> QED BY <1>3, <2>1, <2>2, DataUnchanged DEF SweepFails
<1>4. ASSUME NEW w \in Workers, Crash(w)
      PROVE  TypeInv' /\ (StoreConsistent => StoreConsistent')
  <2>1. DataTypeOK'
    BY <1>4 DEF Crash, DataTypeOK, WorkerTypeOK, LocalInv, SubState, SubOK
  <2>2. WorkerTypeOK' /\ LocalInv'
    BY <1>1, <1>4, SubIdleOK, SweepIdleOK
    DEF Crash, SubDone, SubBecomes, SweepBecomes, WorkerTypeOK, LocalInv
  <2> QED BY <1>4, <2>1, <2>2, StoreUnchanged DEF Crash
<1>5. ASSUME LoseMessage
      PROVE  TypeInv' /\ (StoreConsistent => StoreConsistent')
  BY <1>1, <1>5, StoreUnchanged DEF LoseMessage, DataTypeOK, WorkerTypeOK, LocalInv
<1> QED BY <1>2, <1>3, <1>4, <1>5 DEF Failure

LEMMA NextInv ==
    ASSUME TypeInv, [DistNext]_distVars
    PROVE  TypeInv' /\ (StoreConsistent => StoreConsistent')
<1>1. CASE ClientWrite /\ UNCHANGED <<storeVars, workerVars>>
  BY <1>1, ClientWriteType, StoreUnchanged, WorkersUnchanged DEF TypeInv, DistTypeOK
<1>2. CASE UNCHANGED distVars
  BY <1>2, StoreUnchanged, WorkersUnchanged, DataUnchanged DEF distVars, TypeInv, DistTypeOK
<1> QED BY <1>1, <1>2, SubStepInv, SweepStepInv, FailureInv DEF DistNext

(***************************************************************************)
(* Whatever the interleaving of clients, handlers, sweeps and failures,    *)
(* every variable keeps its type; in particular every rule-set in Redis is *)
(* one of a servable zone.                                                 *)
(***************************************************************************)
THEOREM DistributorTypes == DistSpec => []DistTypeOK
<1>1. DistInit => TypeInv
  BY InitTypeInv
<1>2. TypeInv /\ [DistNext]_distVars => TypeInv'
  BY NextInv
<1>3. TypeInv => DistTypeOK
  BY DEF TypeInv
<1> QED BY <1>1, <1>2, <1>3, PTL DEF DistSpec

(***************************************************************************)
(* A hostname is in the index exactly when a complete rule-set for that    *)
(* hostname is behind it, announced under its own version.                 *)
(***************************************************************************)
THEOREM StoreIsConsistent == DistSpec => []StoreConsistent
<1>1. DistInit => TypeInv /\ StoreConsistent
  BY InitTypeInv
<1>2. (TypeInv /\ StoreConsistent) /\ [DistNext]_distVars => (TypeInv /\ StoreConsistent)'
  BY NextInv
<1> QED BY <1>1, <1>2, PTL DEF DistSpec

-----------------------------------------------------------------------------
(* Zones nobody touches: what each stage of each loop must know of one.    *)


\* Two zones never share a hostname (a unique index of the table).
UniqueHosts ==
    \A y, z \in Zones :
        y # z /\ zone[y] # Nil /\ zone[z] # Nil => zone[y].hostname # zone[z].hostname

\* A handler's state s is no danger to zone z of hostname h.
SubKeeps(s, z, h) ==
    /\ s.pc # "idle" /\ s.msg.hostname = h => s.msg.zone = z
    /\ s.pc = "unpublish" => s.host # h
    /\ s.pc \in {"records", "rename", "publish"} /\ s.msg.zone = z => s.rec.hostname = h
    /\ s.pc = "rename" => s.msg.hostname # s.rec.hostname

\* A sweep's state s is no danger to zone z of hostname h.
SweepKeeps(s, z, h) ==
    /\ s.pc \in {"tenant", "zones", "publish"} =>
           \/ h \in s.expected
           \/ s.seen[z] # Nil /\ s.seen[z].hostname = h
    /\ s.pc = "orphans" => h \notin s.orphans

Untouched(z) == z \notin touched /\ IsServable(z)

QueueKeeps(z, h) == \A m \in queue : m.hostname = h => m.zone = z

LoopsKeep(z, h) ==
    \A w \in Workers : SubKeeps(sub[w], z, h) /\ SweepKeeps(sweep[w], z, h)

UntouchedInv ==
    \A z \in Zones :
        Untouched(z) => QueueKeeps(z, zone[z].hostname) /\ LoopsKeep(z, zone[z].hostname)

KeepInv == TypeInv /\ UniqueHosts /\ UntouchedInv

LEMMA InitKeepInv == ASSUME DistInit PROVE KeepInv
<1>1. UniqueHosts
  BY DEF DistInit, DataInit, UniqueHosts
<1>2. UntouchedInv
  BY DEF DistInit, DataInit, WorkerInit, SubIdle, SweepIdle, UntouchedInv, QueueKeeps,
         LoopsKeep, SubKeeps, SweepKeeps
<1> QED BY <1>1, <1>2, InitTypeInv DEF KeepInv

-----------------------------------------------------------------------------
\* What a client write may do to the zones: every write but a version bump
\* touches the zone it changes, and a new hostname was nobody's.
LEMMA WriteKeepsOthers ==
    ASSUME KeepInv, ClientWrite, NEW z \in Zones, Untouched(z)'
    PROVE  /\ Untouched(z)
           /\ zone'[z].hostname = zone[z].hostname
           /\ QueueKeeps(z, zone[z].hostname) => QueueKeeps(z, zone[z].hostname)'
           /\ \A y \in Zones \ {z} : zone'[y] # Nil => zone'[y].hostname # zone[z].hostname
<1> DEFINE h == zone[z].hostname
           Goal == /\ Untouched(z)
                   /\ zone'[z].hostname = h
                   /\ \A m \in queue' : m \in queue \/ m.hostname # h \/ m.zone = z
                   /\ \A y \in Zones \ {z} : zone'[y] # Nil => zone'[y].hostname # h
<1>a. zone \in [Zones -> ZoneRecord \cup {Nil}] /\ touched \subseteq Zones
  BY DEF KeepInv, TypeInv, DistTypeOK, DataTypeOK
<1>b. Nil \notin Hostnames
  BY StoreAssumption
<1>c. z \notin touched' /\ zone'[z] # Nil /\ zone'[z].status \in Servable
  BY DEF Untouched, IsServable
<1>u. \A y \in Zones \ {z} : zone[y] # Nil /\ zone[z] # Nil => zone[y].hostname # h
  BY DEF KeepInv, UniqueHosts
<1>1. ASSUME NEW y \in Zones, NEW r \in ZoneRecord, ZoneChange(y, r),
             zone[z] # Nil => y = z \/ r.hostname # h
      PROVE  Goal
  <2>1. y # z /\ z \notin touched
    BY <1>1, <1>c DEF ZoneChange
  <2>2. zone'[z] = zone[z]
    BY <1>1, <1>a, <2>1 DEF ZoneChange
  <2>3. Untouched(z) /\ h \in Hostnames /\ h # Nil
    BY <1>a, <1>b, <1>c, <2>1, <2>2 DEF Untouched, IsServable, ZoneRecord
  <2>4. r.hostname # h /\ zone[z] # Nil
    BY <1>1, <2>1, <2>2, <1>c
  <2>5. PICK g \in {r.hostname, Nil} : queue' = queue \cup {[zone |-> y, hostname |-> g]}
    BY <1>1 DEF ZoneChange, Emit
  <2>6. \A m \in queue' : m \in queue \/ m.hostname # h
    BY <2>3, <2>4, <2>5
  <2>7. \A x \in Zones \ {z} : zone'[x] # Nil => zone'[x].hostname # h
    BY <1>1, <1>a, <1>u, <2>4 DEF ZoneChange
  <2> QED BY <2>2, <2>3, <2>6, <2>7
<1>2. ASSUME NEW y \in Zones, NEW g \in Hostnames, CreateZone(y, g)
      PROVE  Goal
  <2>1. [hostname |-> g, status |-> "pending", version |-> 1] \in ZoneRecord
    BY DataPlaneAssumption DEF ZoneRecord, Statuses
  <2>2. zone[z] # Nil => g # h
    BY <1>2 DEF CreateZone, HostnameFree
  <2> QED BY <1>1, <1>2, <2>1, <2>2 DEF CreateZone
<1>3. ASSUME NEW y \in Zones, NEW s \in Statuses, Transition(y, s)
      PROVE  Goal
  <2>1. [zone[y] EXCEPT !.status = s] \in ZoneRecord
    BY <1>3, <1>a DEF Transition, ZoneRecord
  <2>2. [zone[y] EXCEPT !.status = s].hostname = zone[y].hostname
    BY <1>3, <1>a DEF Transition, ZoneRecord
  <2>3. zone[z] # Nil => y = z \/ zone[y].hostname # h
    BY <1>3, <1>u DEF Transition
  <2> QED BY <1>1, <1>3, <2>1, <2>2, <2>3 DEF Transition
<1>4. ASSUME NEW y \in Zones, NEW g \in Hostnames, Rename(y, g)
      PROVE  Goal
  <2>1. [zone[y] EXCEPT !.hostname = g] \in ZoneRecord
    BY <1>4, <1>a DEF Rename, ZoneRecord
  <2>2. [zone[y] EXCEPT !.hostname = g].hostname = g
    BY <1>4, <1>a DEF Rename, ZoneRecord
  <2>3. zone[z] # Nil => g # h
    BY <1>4 DEF Rename, HostnameFree
  <2> QED BY <1>1, <1>4, <2>1, <2>2, <2>3 DEF Rename
<1>5. ASSUME NEW y \in Zones, DeleteZone(y)
      PROVE  Goal
  <2>1. y # z /\ z \notin touched /\ zone'[z] = zone[z]
    BY <1>5, <1>a, <1>c DEF DeleteZone
  <2>2. Untouched(z) /\ h # Nil
    BY <1>a, <1>b, <1>c, <2>1 DEF Untouched, IsServable, ZoneRecord
  <2>3. \A m \in queue' : m \in queue \/ m.hostname # h
    BY <1>5, <2>2 DEF DeleteZone, Emit
  <2>4. \A x \in Zones \ {z} : zone'[x] # Nil => zone'[x].hostname # h
    BY <1>5, <1>a, <1>c, <1>u, <2>1 DEF DeleteZone
  <2> QED BY <2>1, <2>2, <2>3, <2>4
<1>6. ASSUME NEW y \in Zones, BumpVersion(y)
      PROVE  Goal
  <2>1. touched' = touched /\ zone[y] # Nil
        /\ zone' = [zone EXCEPT ![y].version = @ + 1]
    BY <1>6 DEF BumpVersion
  <2>2. \A x \in Zones : /\ zone'[x] # Nil => zone[x] # Nil
                         /\ zone[x] # Nil => /\ zone'[x].hostname = zone[x].hostname
                                             /\ zone'[x].status = zone[x].status
    BY <1>a, <2>1 DEF ZoneRecord
  <2>3. Untouched(z) /\ h # Nil
    BY <1>a, <1>b, <1>c, <2>1, <2>2 DEF Untouched, IsServable, ZoneRecord
  <2>4. zone[z] # Nil
    BY <2>3 DEF Untouched, IsServable
  <2>5. PICK g \in {zone[y].hostname, Nil} :
            queue' = queue \cup {[zone |-> y, hostname |-> g]}
    BY <1>6 DEF BumpVersion, Emit
  <2>6. \A m \in queue' : m \in queue \/ m.hostname # h \/ m.zone = z
    BY <1>u, <2>1, <2>3, <2>4, <2>5
  <2> QED BY <1>u, <2>2, <2>3, <2>4, <2>6
<1>7. ASSUME NEW r \in Records, PutRecord(r) \/ DropRecord(r)
      PROVE  Goal
  <2>1. zone' = zone /\ touched' = touched
    BY <1>7 DEF PutRecord, DropRecord
  <2>2. Untouched(z) /\ h # Nil
    BY <1>a, <1>b, <1>c, <2>1 DEF Untouched, IsServable, ZoneRecord
  <2>3. \A m \in queue' : m \in queue \/ m.hostname # h
    BY <1>7, <2>2 DEF PutRecord, DropRecord, Emit
  <2> QED BY <1>u, <2>1, <2>2, <2>3 DEF Untouched, IsServable
<1>8. Goal
  BY <1>2, <1>3, <1>4, <1>5, <1>6, <1>7 DEF ClientWrite
<1>9. QueueKeeps(z, h) => \A m \in queue' : m.hostname = h => m.zone = z
  BY <1>8 DEF QueueKeeps
<1> QED BY <1>8, <1>9 DEF QueueKeeps

LEMMA ClientWriteKeeps ==
    ASSUME KeepInv, ClientWrite, UNCHANGED workerVars
    PROVE  UniqueHosts' /\ UntouchedInv'
<1>1. UniqueHosts'
  <2> SUFFICES ASSUME NEW y \in Zones, NEW z \in Zones, y # z,
                      zone'[y] # Nil, zone'[z] # Nil
               PROVE  zone'[y].hostname # zone'[z].hostname
    BY DEF UniqueHosts
  <2>a. zone \in [Zones -> ZoneRecord \cup {Nil}]
    BY DEF KeepInv, TypeInv, DistTypeOK, DataTypeOK
  <2>u. \A u, v \in Zones : u # v /\ zone[u] # Nil /\ zone[v] # Nil
                              => zone[u].hostname # zone[v].hostname
    BY DEF KeepInv, UniqueHosts
  <2>1. ASSUME NEW x \in Zones, NEW g \in Hostnames, CreateZone(x, g) \/ Rename(x, g)
        PROVE  zone'[y].hostname # zone'[z].hostname
    <3>1. PICK r \in ZoneRecord : r.hostname = g /\ zone' = [zone EXCEPT ![x] = r]
      <4>1. [hostname |-> g, status |-> "pending", version |-> 1] \in ZoneRecord
        BY DataPlaneAssumption DEF ZoneRecord, Statuses
      <4>2. zone[x] # Nil => /\ [zone[x] EXCEPT !.hostname = g] \in ZoneRecord
                             /\ [zone[x] EXCEPT !.hostname = g].hostname = g
        BY <2>a DEF ZoneRecord
      <4> QED BY <2>1, <4>1, <4>2 DEF CreateZone, Rename, ZoneChange
    <3>2. \A v \in Zones : zone[v] # Nil => zone[v].hostname # g
      BY <2>1 DEF CreateZone, Rename, HostnameFree
    <3> QED BY <2>a, <2>u, <3>1, <3>2
  <2>2. ASSUME \A v \in Zones : zone'[v] # Nil => /\ zone[v] # Nil
                                                  /\ zone'[v].hostname = zone[v].hostname
        PROVE  zone'[y].hostname # zone'[z].hostname
    BY <2>u, <2>2
  <2>3. ASSUME NEW x \in Zones, NEW s \in Statuses, Transition(x, s)
        PROVE  zone'[y].hostname # zone'[z].hostname
    BY <2>2, <2>3, <2>a DEF Transition, ZoneChange, ZoneRecord
  <2>4. ASSUME NEW x \in Zones, DeleteZone(x) \/ BumpVersion(x)
        PROVE  zone'[y].hostname # zone'[z].hostname
    BY <2>2, <2>4, <2>a DEF DeleteZone, BumpVersion, ZoneRecord
  <2>5. ASSUME NEW r \in Records, PutRecord(r) \/ DropRecord(r)
        PROVE  zone'[y].hostname # zone'[z].hostname
    BY <2>u, <2>5 DEF PutRecord, DropRecord
  <2> QED BY <2>1, <2>3, <2>4, <2>5 DEF ClientWrite
<1>2. ASSUME NEW z \in Zones, Untouched(z)'
      PROVE  QueueKeeps(z, zone[z].hostname)' /\ LoopsKeep(z, zone[z].hostname)'
  <2>1. /\ Untouched(z) /\ zone'[z].hostname = zone[z].hostname
        /\ QueueKeeps(z, zone[z].hostname) => QueueKeeps(z, zone[z].hostname)'
    BY <1>2, WriteKeepsOthers
  <2>2. QueueKeeps(z, zone[z].hostname) /\ LoopsKeep(z, zone[z].hostname)
    BY <2>1 DEF KeepInv, UntouchedInv
  <2>3. LoopsKeep(z, zone[z].hostname)'
    BY <2>1, <2>2 DEF LoopsKeep, workerVars
  <2> QED BY <2>1, <2>2, <2>3
<1> QED BY <1>1, <1>2 DEF UntouchedInv

-----------------------------------------------------------------------------
\* The loops write neither the zones nor touched: enough to look at one zone.
LEMMA LoopsKeepSuffices ==
    ASSUME KeepInv, UNCHANGED <<zone, touched>>,
           ASSUME NEW z \in Zones, Untouched(z), zone[z] \in ZoneRecord,
                  QueueKeeps(z, zone[z].hostname), LoopsKeep(z, zone[z].hostname)
           PROVE  /\ \A m \in queue' : m.hostname = zone[z].hostname => m.zone = z
                  /\ \A w \in Workers : /\ SubKeeps(sub'[w], z, zone[z].hostname)
                                        /\ SweepKeeps(sweep'[w], z, zone[z].hostname)
    PROVE  UniqueHosts' /\ UntouchedInv'
<1>1. UniqueHosts'
  BY DEF KeepInv, UniqueHosts
<1>2. ASSUME NEW z \in Zones, Untouched(z)
      PROVE  zone[z] \in ZoneRecord
  BY <1>2 DEF KeepInv, TypeInv, DistTypeOK, DataTypeOK, Untouched, IsServable
<1>3. ASSUME NEW z \in Zones, Untouched(z)
      PROVE  QueueKeeps(z, zone[z].hostname)' /\ LoopsKeep(z, zone[z].hostname)'
  BY <1>2, <1>3 DEF KeepInv, UntouchedInv, QueueKeeps, LoopsKeep
<1>4. \A z \in Zones : Untouched(z)' => Untouched(z)
  BY DEF Untouched, IsServable
<1> QED BY <1>1, <1>3, <1>4 DEF UntouchedInv

\* A step of the handler of w needs to keep its own state only.
LEMMA SubStepKeeps ==
    ASSUME KeepInv, NEW w \in Workers, SubStep(w)
    PROVE  UniqueHosts' /\ UntouchedInv'
<1>1. UNCHANGED <<zone, touched, sweep>>
  BY DEF SubStep, AckUnresolvable, Deliver, RequeueTenantWide, SubReadZone, SubReadRecords,
         SubUnpublishOld, SubPublish, SubUnpublish, workerVars, dataVars
<1>a. /\ sub \in [Workers -> SubState] /\ sub[w] \in SubState /\ SubOK(sub[w])
      /\ zone \in [Zones -> ZoneRecord \cup {Nil}]
      /\ queue \subseteq Message
  BY DEF KeepInv, TypeInv, DistTypeOK, WorkerTypeOK, DataTypeOK, LocalInv
<1>2. ASSUME NEW z \in Zones, Untouched(z), zone[z] \in ZoneRecord,
             QueueKeeps(z, zone[z].hostname), LoopsKeep(z, zone[z].hostname)
      PROVE  /\ \A m \in queue' : m.hostname = zone[z].hostname => m.zone = z
             /\ \A v \in Workers : /\ SubKeeps(sub'[v], z, zone[z].hostname)
                                   /\ SweepKeeps(sweep'[v], z, zone[z].hostname)
  <2> DEFINE h == zone[z].hostname
             s == sub[w]
             Goal == /\ \A m \in queue' : m.hostname = h => m.zone = z
                     /\ \A v \in Workers : SubKeeps(sub'[v], z, h)
  <2>a. /\ \A m \in queue : m.hostname = h => m.zone = z
        /\ \A v \in Workers : SubKeeps(sub[v], z, h) /\ SweepKeeps(sweep[v], z, h)
    BY <1>2 DEF QueueKeeps, LoopsKeep
  <2> SUFFICES Goal
    BY <1>1, <2>a
  <2>b. zone[z] # Nil /\ zone[z].status \in Servable /\ h \in Hostnames /\ h # Nil
    BY <1>2, StoreAssumption DEF Untouched, IsServable, ZoneRecord
  <2>i. SubKeeps(SubIdle, z, h)
    BY DEF SubKeeps, SubIdle
  <2>s. ASSUME NEW t, SubBecomes(w, t), SubKeeps(t, z, h)
        PROVE  \A v \in Workers : SubKeeps(sub'[v], z, h)
    <3> HIDE DEF h
    <3> QED BY <1>a, <2>a, <2>s DEF SubBecomes
  <2>m. s.pc # "idle" => s.msg \in Message /\ s.msg.zone \in Zones \cup {Global}
    BY <1>a DEF SubOK, SubState, Message
  <2>1. CASE AckUnresolvable(w)
    BY <2>1, <2>a DEF AckUnresolvable, workerVars
  <2>2. CASE Deliver(w)
    <3>1. PICK m \in queue : /\ m.zone # Nil
                             /\ queue' = queue \ {m}
                             /\ SubBecomes(w, [s EXCEPT !.pc = "zone", !.msg = m])
      BY <2>2 DEF Deliver
    <3>2. SubKeeps([s EXCEPT !.pc = "zone", !.msg = m], z, h)
      BY <1>a, <2>a DEF SubKeeps, SubState
    <3> QED BY <2>a, <2>s, <3>1, <3>2
  <2>3. CASE RequeueTenantWide(w)
    <3>1. s.msg.hostname = h => s.msg.zone = z
      BY <2>3, <2>a DEF RequeueTenantWide, SubKeeps
    <3> QED BY <2>3, <2>a, <2>i, <2>s, <3>1 DEF RequeueTenantWide, Requeue, SubDone
  <2>4. CASE SubReadZone(w)
    <3>a. s.pc = "zone" /\ s.msg.zone \in Zones /\ queue' = queue
          /\ (s.msg.hostname = h => s.msg.zone = z)
      BY <2>4, <2>a, <2>m DEF SubReadZone, dataVars, SubKeeps
    <3>1. CASE zone[s.msg.zone] = Nil /\ s.msg.hostname = Nil /\ SubDone(w)
      BY <3>1, <2>a, <2>i, <2>s, <3>a DEF SubDone
    <3>2. CASE /\ zone[s.msg.zone] = Nil
               /\ SubBecomes(w, [s EXCEPT !.pc = "unpublish", !.host = s.msg.hostname])
      <4>1. SubKeeps([s EXCEPT !.pc = "unpublish", !.host = s.msg.hostname], z, h)
        BY <3>2, <1>a, <2>a, <2>b, <3>a DEF SubKeeps, SubState
      <4> QED BY <3>2, <2>a, <2>s, <3>a, <4>1
    <3>3. CASE /\ zone[s.msg.zone] # Nil
               /\ zone[s.msg.zone].status \notin Servable
               /\ SubBecomes(w, [s EXCEPT !.pc = "unpublish",
                                          !.host = zone[s.msg.zone].hostname])
      <4>1. zone[s.msg.zone].hostname # h
        BY <3>3, <2>b, <3>a DEF KeepInv, UniqueHosts
      <4>2. SubKeeps([s EXCEPT !.pc = "unpublish", !.host = zone[s.msg.zone].hostname], z, h)
        BY <1>a, <2>a, <3>a, <4>1 DEF SubKeeps, SubState
      <4> QED BY <3>3, <2>a, <2>s, <3>a, <4>2
    <3>4. CASE SubBecomes(w, [s EXCEPT !.pc = "records", !.rec = zone[s.msg.zone]])
      <4>1. SubKeeps([s EXCEPT !.pc = "records", !.rec = zone[s.msg.zone]], z, h)
        BY <1>a, <2>a, <3>a DEF SubKeeps, SubState
      <4> QED BY <3>4, <2>a, <2>s, <3>a, <4>1
    <3> QED BY <2>4, <3>1, <3>2, <3>3, <3>4 DEF SubReadZone
  <2>5. CASE SubReadRecords(w)
    <3> DEFINE next == IF s.k # Len(ReadOrder) THEN "records"
                       ELSE IF s.msg.hostname \in {Nil, s.rec.hostname} THEN "publish"
                       ELSE "rename"
               t == [s EXCEPT !.rules = @ \cup RecordsOf(s.msg.zone, ReadOrder[s.k]),
                              !.k = @ + 1, !.pc = next]
    <3>1. SubBecomes(w, t) /\ s.pc = "records" /\ queue' = queue
      BY <2>5 DEF SubReadRecords, dataVars
    <3>2. next \in {"records", "publish", "rename"}
          /\ (next = "rename" => s.msg.hostname # s.rec.hostname)
      OBVIOUS
    <3>3. t.pc = next /\ t.msg = s.msg /\ t.rec = s.rec
      <4> HIDE DEF next
      <4> QED BY <1>a DEF SubState
    <3> HIDE DEF next, t
    <3>4. SubKeeps(t, z, h)
      BY <2>a, <3>1, <3>2, <3>3 DEF SubKeeps
    <3> QED BY <2>a, <2>s, <3>1, <3>4
  <2>6. CASE SubUnpublishOld(w)
    <3>1. SubKeeps([s EXCEPT !.pc = "publish"], z, h)
      BY <2>6, <1>a, <2>a DEF SubUnpublishOld, SubKeeps, SubState
    <3> QED BY <2>6, <2>a, <2>s, <3>1 DEF SubUnpublishOld, dataVars
  <2>7. CASE SubPublish(w) \/ SubUnpublish(w)
    BY <2>7, <2>a, <2>i, <2>s DEF SubPublish, SubUnpublish, SubDone, dataVars
  <2> QED BY <2>1, <2>2, <2>3, <2>4, <2>5, <2>6, <2>7 DEF SubStep
<1> QED BY <1>1, <1>2, LoopsKeepSuffices

\* The page a sweep reads holds every zone of the table.
LEMMA PageHoldsAll ==
    ASSUME IsFiniteSet(Zones), Cardinality(Zones) <= PageLimit,
           NEW page \in SUBSET Zones, IsFirstPage(page), NEW z \in Zones, zone[z] # Nil
    PROVE  z \in page
<1>1. CASE page = {y \in Zones : zone[y] # Nil}
  BY <1>1
<1>2. CASE Cardinality(page) = PageLimit
  <2>1. /\ IsFiniteSet(page)
        /\ Cardinality(page) <= Cardinality(Zones)
        /\ Cardinality(page) = Cardinality(Zones) => page = Zones
    BY FS_Subset
  <2>2. Cardinality(page) \in Nat /\ Cardinality(Zones) \in Nat
    BY <2>1, FS_CardinalityType
  <2> QED BY <1>2, <2>1, <2>2
<1> QED BY <1>1, <1>2 DEF IsFirstPage

\* A step of the sweep of w needs to keep its own state only.
LEMMA SweepStepKeeps ==
    ASSUME IsFiniteSet(Zones), Cardinality(Zones) <= PageLimit,
           KeepInv, NEW w \in Workers, SweepStep(w)
    PROVE  UniqueHosts' /\ UntouchedInv'
<1>1. UNCHANGED <<zone, touched, queue, sub>>
  BY DEF SweepStep, SweepStart, SweepReadTenant, SweepReadRecords, SweepPublish,
         SweepReadIndex, SweepUnpublish, SweepEnd, dataVars
<1>a. /\ sweep \in [Workers -> SweepState] /\ sweep[w] \in SweepState /\ SweepOK(sweep[w])
      /\ zone \in [Zones -> ZoneRecord \cup {Nil}]
  BY DEF KeepInv, TypeInv, DistTypeOK, WorkerTypeOK, DataTypeOK, LocalInv
<1>2. ASSUME NEW z \in Zones, Untouched(z), zone[z] \in ZoneRecord,
             QueueKeeps(z, zone[z].hostname), LoopsKeep(z, zone[z].hostname)
      PROVE  /\ \A m \in queue' : m.hostname = zone[z].hostname => m.zone = z
             /\ \A v \in Workers : /\ SubKeeps(sub'[v], z, zone[z].hostname)
                                   /\ SweepKeeps(sweep'[v], z, zone[z].hostname)
  <2> DEFINE h == zone[z].hostname
             s == sweep[w]
             Goal == \A v \in Workers : SweepKeeps(sweep'[v], z, h)
  <2>a. /\ \A m \in queue : m.hostname = h => m.zone = z
        /\ \A v \in Workers : SubKeeps(sub[v], z, h) /\ SweepKeeps(sweep[v], z, h)
    BY <1>2 DEF QueueKeeps, LoopsKeep
  <2> SUFFICES Goal
    BY <1>1, <2>a
  <2>s. ASSUME NEW t, SweepBecomes(w, t), SweepKeeps(t, z, h)
        PROVE  Goal
    <3> HIDE DEF h
    <3> QED BY <1>a, <2>a, <2>s DEF SweepBecomes
  <2>k. SweepKeeps(s, z, h)
    BY <2>a
  <2>1. CASE SweepStart(w)
    <3>1. PICK page \in SUBSET Zones :
              /\ IsFirstPage(page)
              /\ SweepBecomes(w, [s EXCEPT !.pc = "tenant",
                     !.seen = [y \in Zones |-> IF y \in page /\ IsServable(y)
                                               THEN zone[y] ELSE Nil]])
      BY <2>1 DEF SweepStart
    <3> DEFINE seen == [y \in Zones |-> IF y \in page /\ IsServable(y) THEN zone[y] ELSE Nil]
    <3>2. zone[z] # Nil /\ IsServable(z)
      BY <1>2 DEF Untouched, IsServable
    <3>3. seen[z] = zone[z]
      BY <3>1, <3>2, PageHoldsAll
    <3> HIDE DEF seen
    <3>4. SweepKeeps([s EXCEPT !.pc = "tenant", !.seen = seen], z, h)
      BY <1>a, <3>2, <3>3 DEF SweepKeeps, SweepState
    <3> QED BY <2>s, <3>1, <3>4 DEF seen
  <2>2. CASE SweepReadTenant(w)
    <3> DEFINE last == s.k = Len(TenantOrder)
               read == s.tenant \cup RecordsOf(Global, TenantOrder[s.k])
               k == IF last THEN 1 ELSE s.k + 1
               next == IF last THEN "zones" ELSE "tenant"
               t == [s EXCEPT !.tenant = read, !.k = k, !.pc = next]
    <3>1. SweepBecomes(w, t) /\ s.pc = "tenant"
      BY <2>2 DEF SweepReadTenant
    <3>2. next \in {"zones", "tenant"}
      OBVIOUS
    <3> HIDE DEF read, k, next
    <3>3. SweepKeeps(t, z, h)
      BY <1>a, <2>k, <3>1, <3>2 DEF SweepKeeps, SweepState
    <3> QED BY <2>s, <3>1, <3>3
  <2>3. CASE SweepReadRecords(w)
    <3>1. PICK c \in Zones :
              SweepBecomes(w, [s EXCEPT !.cur = c,
                   !.rules = @ \cup RecordsOf(c, ReadOrder[s.k]), !.k = s.k + 1,
                   !.pc = IF s.k = Len(ReadOrder) THEN "publish" ELSE "zones"])
      BY <2>3, <1>a DEF SweepReadRecords, SweepState
    <3> DEFINE read == s.rules \cup RecordsOf(c, ReadOrder[s.k])
               next == IF s.k = Len(ReadOrder) THEN "publish" ELSE "zones"
               t == [s EXCEPT !.cur = c, !.rules = read, !.k = s.k + 1, !.pc = next]
    <3>2. SweepBecomes(w, t) /\ s.pc = "zones" /\ next \in {"publish", "zones"}
      BY <2>3, <3>1 DEF SweepReadRecords
    <3> HIDE DEF read, next
    <3>3. SweepKeeps(t, z, h)
      BY <1>a, <2>k, <3>2 DEF SweepKeeps, SweepState
    <3> QED BY <2>s, <3>2, <3>3
  <2>4. CASE SweepPublish(w)
    <3> DEFINE seen == [s.seen EXCEPT ![s.cur] = Nil]
               done == s.expected \cup {s.seen[s.cur].hostname}
               t == [s EXCEPT !.pc = "zones", !.cur = Nil, !.k = 1, !.rules = {},
                              !.seen = seen, !.expected = done]
    <3>1. SweepBecomes(w, t) /\ s.pc = "publish"
      BY <2>4 DEF SweepPublish
    <3>2. h \in done \/ (seen[z] # Nil /\ seen[z].hostname = h)
      BY <1>a, <2>k, <3>1 DEF SweepKeeps, SweepState
    <3> HIDE DEF seen, done
    <3>3. SweepKeeps(t, z, h)
      BY <1>a, <3>2 DEF SweepKeeps, SweepState
    <3> QED BY <2>s, <3>1, <3>3
  <2>5. CASE SweepReadIndex(w)
    <3>1. h \in s.expected
      BY <2>5, <2>k DEF SweepReadIndex, SweepKeeps
    <3>2. SweepKeeps([s EXCEPT !.pc = "orphans", !.orphans = index \ s.expected], z, h)
      BY <1>a, <3>1 DEF SweepKeeps, SweepState
    <3> QED BY <2>5, <2>s, <3>2 DEF SweepReadIndex
  <2>6. CASE SweepUnpublish(w)
    <3>1. PICK g : SweepBecomes(w, [s EXCEPT !.orphans = @ \ {g}])
      BY <2>6 DEF SweepUnpublish
    <3>2. SweepKeeps([s EXCEPT !.orphans = @ \ {g}], z, h)
      BY <1>a, <2>k DEF SweepKeeps, SweepState
    <3> QED BY <2>s, <3>1, <3>2
  <2>7. CASE SweepEnd(w)
    <3>1. SweepKeeps(SweepIdle, z, h)
      BY DEF SweepKeeps, SweepIdle
    <3> QED BY <2>7, <2>s, <3>1 DEF SweepEnd, SweepDone
  <2> QED BY <2>1, <2>2, <2>3, <2>4, <2>5, <2>6, <2>7 DEF SweepStep
<1> QED BY <1>1, <1>2, LoopsKeepSuffices

\* A failure requeues the message held, and leaves a loop idle or as it was.
LEMMA FailureKeeps ==
    ASSUME KeepInv, Failure
    PROVE  UniqueHosts' /\ UntouchedInv'
<1>1. UNCHANGED <<zone, touched>>
  BY DEF Failure, SubFails, SweepFails, Crash, LoseMessage, dataVars
<1>a. /\ sub \in [Workers -> SubState] /\ sweep \in [Workers -> SweepState]
  BY DEF KeepInv, TypeInv, DistTypeOK, WorkerTypeOK
<1>2. ASSUME NEW z \in Zones, Untouched(z), zone[z] \in ZoneRecord,
             QueueKeeps(z, zone[z].hostname), LoopsKeep(z, zone[z].hostname)
      PROVE  /\ \A m \in queue' : m.hostname = zone[z].hostname => m.zone = z
             /\ \A v \in Workers : /\ SubKeeps(sub'[v], z, zone[z].hostname)
                                   /\ SweepKeeps(sweep'[v], z, zone[z].hostname)
  <2> DEFINE h == zone[z].hostname
  <2>a. /\ \A m \in queue : m.hostname = h => m.zone = z
        /\ \A v \in Workers : SubKeeps(sub[v], z, h) /\ SweepKeeps(sweep[v], z, h)
    BY <1>2 DEF QueueKeeps, LoopsKeep
  <2>b. \A w \in Workers : sub[w].pc # "idle" /\ sub[w].msg.hostname = h => sub[w].msg.zone = z
    BY <2>a DEF SubKeeps
  <2>c. \A w \in Workers : /\ sub'[w] = sub[w] \/ sub'[w] = SubIdle
                           /\ sweep'[w] = sweep[w] \/ sweep'[w] = SweepIdle
    BY <1>a DEF Failure, SubFails, SweepFails, Crash, LoseMessage, Requeue, SubDone, SweepDone,
                SubBecomes, SweepBecomes, dataVars
  <2>d. \A m \in queue' : m \in queue \/ \E w \in Workers : sub[w].pc # "idle" /\ m = sub[w].msg
    BY DEF Failure, SubFails, SweepFails, Crash, LoseMessage, Requeue, dataVars
  <2>e. SubKeeps(SubIdle, z, h) /\ SweepKeeps(SweepIdle, z, h)
    BY DEF SubKeeps, SweepKeeps, SubIdle, SweepIdle
  <2> HIDE DEF h
  <2>1. \A m \in queue' : m.hostname = h => m.zone = z
    BY <2>a, <2>b, <2>d
  <2>2. \A v \in Workers : SubKeeps(sub'[v], z, h) /\ SweepKeeps(sweep'[v], z, h)
    BY <2>a, <2>c, <2>e
  <2> QED BY <2>1, <2>2 DEF h
<1> QED BY <1>1, <1>2, LoopsKeepSuffices

LEMMA NextKeeps ==
    ASSUME IsFiniteSet(Zones), Cardinality(Zones) <= PageLimit,
           KeepInv, [DistNext]_distVars
    PROVE  KeepInv'
<1>1. TypeInv'
  BY NextInv DEF KeepInv
<1>2. CASE UNCHANGED distVars
  <2>1. UniqueHosts' /\ UntouchedInv'
    BY <1>2 DEF distVars, dataVars, workerVars, KeepInv, UniqueHosts, UntouchedInv, Untouched,
                IsServable, QueueKeeps, LoopsKeep
  <2> QED BY <1>1, <2>1 DEF KeepInv
<1>3. CASE DistNext
  <2>1. UniqueHosts' /\ UntouchedInv'
    BY <1>3, ClientWriteKeeps, SubStepKeeps, SweepStepKeeps, FailureKeeps DEF DistNext
  <2> QED BY <1>1, <2>1 DEF KeepInv
<1> QED BY <1>2, <1>3

-----------------------------------------------------------------------------
\* Under the invariant no transaction takes an untouched zone out of the index.
LEMMA NothingUnpublishes ==
    ASSUME KeepInv, [DistNext]_distVars, NEW z \in Zones,
           z \notin touched', IsServable(z), zone[z].hostname \in index
    PROVE  zone[z].hostname \in index'
<1> DEFINE h == zone[z].hostname
<1>a. h # Nil /\ h \in Hostnames
  BY StoreAssumption
  DEF KeepInv, TypeInv, DistTypeOK, DataTypeOK, IsServable, ZoneRecord
<1>b. touched \subseteq touched'
  <2>1. CASE ClientWrite
    BY <2>1 DEF ClientWrite, CreateZone, Transition, Rename, ZoneChange, DeleteZone,
                BumpVersion, PutRecord, DropRecord
  <2>2. ASSUME NEW w \in Workers, SubStep(w) PROVE touched' = touched
    BY <2>2 DEF SubStep, AckUnresolvable, Deliver, RequeueTenantWide, SubReadZone,
                SubReadRecords, SubUnpublishOld, SubPublish, SubUnpublish, dataVars
  <2>3. ASSUME NEW w \in Workers, SweepStep(w) PROVE touched' = touched
    BY <2>3 DEF SweepStep, SweepStart, SweepReadTenant, SweepReadRecords, SweepPublish,
                SweepReadIndex, SweepUnpublish, SweepEnd, dataVars
  <2>4. CASE Failure
    BY <2>4 DEF Failure, SubFails, SweepFails, Crash, LoseMessage, dataVars
  <2> QED BY <2>1, <2>2, <2>3, <2>4 DEF DistNext, distVars, dataVars
<1>c. \A w \in Workers : SubKeeps(sub[w], z, h) /\ SweepKeeps(sweep[w], z, h)
  BY <1>b DEF KeepInv, UntouchedInv, Untouched, LoopsKeep
<1>d. \A w \in Workers : SubOK(sub[w]) /\ sub[w].rec \in ZoneRecord \cup {Nil}
  BY DEF KeepInv, TypeInv, DistTypeOK, WorkerTypeOK, LocalInv, SubState
<1>1. \A w \in Workers : sub[w].pc = "rename" => sub[w].msg.hostname # h
  <2> SUFFICES ASSUME NEW w \in Workers, sub[w].pc = "rename", sub[w].msg.hostname = h
               PROVE  FALSE
    OBVIOUS
  <2>1. sub[w].msg.zone = z
    BY <1>c DEF SubKeeps
  <2> QED BY <1>c, <2>1 DEF SubKeeps
<1>2. \A w \in Workers : sub[w].pc = "unpublish" => sub[w].host # h
  BY <1>c DEF SubKeeps
<1>3. \A w \in Workers : sweep[w].pc = "orphans" => h \notin sweep[w].orphans
  BY <1>c DEF SweepKeeps
<1> HIDE DEF h
<1>4. \A g : g # h /\ Unpublish(g) => (h \in index => h \in index')
  BY DEF Unpublish
<1>5. \A p : Publish(p) => (h \in index => h \in index')
  BY DEF Publish
<1>6. UNCHANGED storeVars \/ BumpEpoch => (h \in index => h \in index')
  BY DEF storeVars, BumpEpoch
<1>7. CASE ClientWrite /\ UNCHANGED <<storeVars, workerVars>>
  BY <1>6, <1>7 DEF h
<1>8. ASSUME NEW w \in Workers, SubStep(w)
      PROVE  h \in index => h \in index'
  BY <1>1, <1>2, <1>4, <1>5, <1>6, <1>8
  DEF SubStep, AckUnresolvable, Deliver, RequeueTenantWide, SubReadZone, SubReadRecords,
      SubUnpublishOld, SubPublish, SubUnpublish
<1>9. ASSUME NEW w \in Workers, SweepStep(w)
      PROVE  h \in index => h \in index'
  BY <1>3, <1>4, <1>5, <1>6, <1>9
  DEF SweepStep, SweepStart, SweepReadTenant, SweepReadRecords, SweepPublish, SweepReadIndex,
      SweepUnpublish, SweepEnd
<1>10. ASSUME Failure
       PROVE  h \in index => h \in index'
  BY <1>1, <1>2, <1>3, <1>4, <1>5, <1>6, <1>10
  DEF Failure, SubFails, SweepFails, Crash, LoseMessage
<1>11. CASE UNCHANGED distVars
  BY <1>6, <1>11 DEF distVars, h
<1> QED BY <1>7, <1>8, <1>9, <1>10, <1>11 DEF DistNext, h

(***************************************************************************)
(* A zone nobody touches keeps its place in Redis once published, provided *)
(* the whole table fits in one page of the zone list: the condition        *)
(* dataplane.AllZones relies on without saying so.                         *)
(***************************************************************************)
THEOREM UntouchedZonesStay ==
    ASSUME IsFiniteSet(Zones), Cardinality(Zones) <= PageLimit
    PROVE  DistSpec => UntouchedStaysPublished
<1>1. DistInit => KeepInv
  BY InitKeepInv
<1>2. KeepInv /\ [DistNext]_distVars => KeepInv'
  BY NextKeeps
<1>3. KeepInv /\ [DistNext]_distVars =>
          [\A z \in Zones :
               z \notin touched' /\ IsServable(z) /\ zone[z].hostname \in index
                   => zone[z].hostname \in index']_distVars
  BY NothingUnpublishes
<1> QED BY <1>1, <1>2, <1>3, PTL DEF DistSpec, UntouchedStaysPublished

-----------------------------------------------------------------------------
(* Quiet sweeps: clients, consumers and failures pause, sweeps go on.       *)

\* Every kind of record is listed for a zone, and every tenant-wide record for
\* the tenant: no DDoS policy is tenant-wide, resync would not find it.
ListsFindEverything ==
    \A r \in Records :
        /\ \E i \in 1..Len(ReadOrder) : ReadOrder[i] = Kind[r]
        /\ Owner[r] = Global => \E i \in 1..Len(TenantOrder) : TenantOrder[i] = Kind[r]

\* What the first k - 1 lists of an owner return.
FirstRead(order, k, owner) ==
    {r \in stored : Owner[r] = owner /\ \E i \in 1..(k - 1) : order[i] = Kind[r]}

UpToDate(z) == IsServable(z) => Matches(ruleset[zone[z].hostname], z)

\* What a sweep that started since the pause has read, published and left to do.
SweepQuiet(s) ==
    /\ s.pc = "idle" => s = SweepIdle
    /\ s.pc = "tenant" =>
           /\ \A z \in Zones : IsServable(z) => s.seen[z] # Nil
           /\ s.k \in 1..Len(TenantOrder)
           /\ s.tenant = FirstRead(TenantOrder, s.k, Global)
           /\ s.expected = {} /\ s.rules = {}
    /\ s.pc \in {"tenant", "zones", "publish"} =>
           \A z \in Zones : s.seen[z] # Nil => IsServable(z) /\ s.seen[z] = zone[z]
    /\ s.pc \in {"zones", "publish"} =>
           /\ s.tenant = {r \in stored : Owner[r] = Global}
           /\ s.expected \subseteq ServableHosts
           /\ \A z \in Zones : IsServable(z) =>
                  s.seen[z] # Nil \/ (zone[z].hostname \in s.expected /\ UpToDate(z))
    /\ s.pc = "zones" =>
           /\ s.k \in 1..Len(ReadOrder) /\ (s.cur = Nil => s.k = 1)
           /\ s.rules = FirstRead(ReadOrder, s.k, s.cur)
    /\ s.pc = "publish" => s.rules = {r \in stored : Owner[r] = s.cur}
    /\ s.pc = "orphans" =>
           /\ s.orphans \cap ServableHosts = {}
           /\ index \subseteq ServableHosts \cup s.orphans
           /\ \A z \in Zones : UpToDate(z)

QuietInv == \A w \in Workers : SweepQuiet(sweep[w])

QuietStart == \A w \in Workers : sweep[w] = SweepIdle

\* A sweep goes on, or stops where it stands, or its replica dies.
SweepActs(w) == SweepStep(w) \/ SweepFails(w) \/ Crash(w)

OnlySweeps == (\E w \in Workers : SweepActs(w)) \/ LoseMessage

SweepEnding == \E w \in Workers : sweep[w].pc = "orphans" /\ sweep[w].orphans = {}

RepairInv == TypeInv /\ StoreConsistent /\ UniqueHosts

\* Reading on: one more list of the same owner, up to all of them.
LEMMA ReadOn ==
    ASSUME NEW order, NEW k \in Nat \ {0}, NEW owner
    PROVE  FirstRead(order, k + 1, owner) =
               FirstRead(order, k, owner) \cup RecordsOf(owner, order[k])
<1>1. \A i : i \in 1..((k + 1) - 1) <=> i \in 1..(k - 1) \/ i = k
  OBVIOUS
<1> QED BY <1>1 DEF FirstRead, RecordsOf

LEMMA ReadNothing ==
    ASSUME NEW order, NEW owner
    PROVE  FirstRead(order, 1, owner) = {}
<1>1. \A i : i \notin 1..(1 - 1)
  OBVIOUS
<1> QED BY <1>1 DEF FirstRead

LEMMA AllRead ==
    ASSUME TypeInv, ListsFindEverything
    PROVE  /\ FirstRead(TenantOrder, Len(TenantOrder) + 1, Global) =
                  {r \in stored : Owner[r] = Global}
           /\ \A z : FirstRead(ReadOrder, Len(ReadOrder) + 1, z) = {r \in stored : Owner[r] = z}
<1>1. stored \subseteq Records /\ Len(TenantOrder) \in Nat /\ Len(ReadOrder) \in Nat
  BY DistributorAssumption DEF TypeInv, DistTypeOK, DataTypeOK
<1>2. /\ (Len(TenantOrder) + 1) - 1 = Len(TenantOrder)
      /\ (Len(ReadOrder) + 1) - 1 = Len(ReadOrder)
  BY <1>1
<1> QED BY <1>1, <1>2 DEF FirstRead, ListsFindEverything

-----------------------------------------------------------------------------
\* What a quiet sweep writes is what should be published.
LEMMA PublishesUpToDate ==
    ASSUME RepairInv, NEW w \in Workers, SweepQuiet(sweep[w]), sweep[w].pc = "publish"
    PROVE  LET z == sweep[w].cur
           IN  /\ z \in Zones /\ IsServable(z) /\ sweep[w].seen[z] = zone[z]
               /\ SweepCompiled(w) \in CompiledZone
               /\ SweepCompiled(w).hostname = zone[z].hostname
               /\ Matches(SweepCompiled(w), z)
<1> DEFINE z == sweep[w].cur
<1>1. /\ SweepCompiled(w) \in CompiledZone
      /\ z \in Zones
      /\ sweep[w].seen[z] \in ZoneRecord
  BY SweepCompiledType DEF RepairInv
<1>2. IsServable(z) /\ sweep[w].seen[z] = zone[z]
  BY <1>1, DataPlaneAssumption DEF SweepQuiet
<1>3. sweep[w].rules \cup sweep[w].tenant = {r \in stored : Owner[r] \in {z, Global}}
  BY DEF SweepQuiet
<1>4. SweepCompiled(w) =
          [zone |-> z, hostname |-> zone[z].hostname, status |-> zone[z].status,
           version |-> zone[z].version,
           rules |-> {r \in stored : Owner[r] \in {z, Global}}, schema |-> Schema[w]]
  BY <1>2, <1>3 DEF SweepCompiled, Compile
<1>5. SweepCompiled(w) # Nil
  BY <1>1, StoreAssumption
<1>6. Matches(SweepCompiled(w), z)
  <2> DEFINE p == SweepCompiled(w)
  <2> HIDE DEF z
  <2>1. /\ p.zone = z /\ p.hostname = zone[z].hostname /\ p.status = zone[z].status
        /\ p.version = zone[z].version
        /\ p.rules = {r \in stored : Owner[r] \in {z, Global}}
    BY <1>4
  <2> HIDE DEF p
  <2>2. Wanted(z) = [hostname |-> p.hostname, status |-> p.status,
                     version |-> p.version, rules |-> p.rules]
    BY <2>1 DEF Wanted
  <2>3. p # Nil
    BY <1>5 DEF p
  <2>4. Matches(p, z)
    BY <2>1, <2>2, <2>3 DEF Matches
  <2> QED BY <2>4 DEF p
<1>7. SweepCompiled(w).hostname = zone[z].hostname
  BY <1>4
<1> HIDE DEF z
<1> QED BY <1>1, <1>2, <1>6, <1>7 DEF z

\* What a step of a quiet sweep does to the store.
LEMMA QuietStepStore ==
    ASSUME RepairInv, QuietInv, NEW w \in Workers, SweepActs(w)
    PROVE  /\ UNCHANGED <<zone, stored>>
           /\ \A z \in Zones : UpToDate(z) => UpToDate(z)'
           /\ index' \subseteq index \cup ServableHosts
           /\ (index \ index') \cap ServableHosts = {}
<1>q. SweepQuiet(sweep[w])
  BY DEF QuietInv
<1>0. UNCHANGED <<zone, stored>>
  BY DEF SweepActs, SweepStep, SweepStart, SweepReadTenant, SweepReadRecords, SweepPublish,
         SweepReadIndex, SweepUnpublish, SweepEnd, SweepFails, Crash, dataVars
<1>a. /\ ruleset \in [Hostnames -> CompiledZone \cup {Nil}]
      /\ \A z \in Zones : IsServable(z) => zone[z].hostname \in Hostnames
  BY DEF RepairInv, TypeInv, DistTypeOK, StoreTypeOK, DataTypeOK, ZoneRecord, IsServable
<1> DEFINE Effect == /\ \A z \in Zones : UpToDate(z) => UpToDate(z)'
                     /\ index' \subseteq index \cup ServableHosts
                     /\ (index \ index') \cap ServableHosts = {}
<1>b. ASSUME NEW z \in Zones, IsServable(z) => ruleset'[zone[z].hostname] = ruleset[zone[z].hostname],
             UpToDate(z)
      PROVE  UpToDate(z)'
  BY <1>0, <1>b DEF UpToDate, IsServable, Matches, Wanted
<1>1. CASE sweep[w].pc = "publish" /\ Publish(SweepCompiled(w))
  <2> DEFINE y == sweep[w].cur
             p == SweepCompiled(w)
  <2>1. /\ y \in Zones /\ IsServable(y)
        /\ p.hostname = zone[y].hostname
        /\ Matches(p, y)
        /\ Publish(p)
    BY <1>q, <1>1, PublishesUpToDate
  <2> HIDE DEF p
  <2>2. zone[y].hostname \in ServableHosts
    BY <2>1 DEF ServableHosts
  <2>3. ASSUME NEW z \in Zones, UpToDate(z) PROVE UpToDate(z)'
    <3>1. CASE IsServable(z) /\ z = y
      <4>1. ruleset'[zone[z].hostname] = p
        BY <1>a, <2>1, <3>1 DEF Publish
      <4> QED BY <4>1, <3>1, <2>1, <1>0 DEF UpToDate, IsServable, Matches, Wanted
    <3>2. CASE ~(IsServable(z) /\ z = y)
      <4>1. IsServable(z) => zone[z].hostname # zone[y].hostname
        BY <2>1, <3>2 DEF RepairInv, UniqueHosts, IsServable
      <4>2. IsServable(z) => ruleset'[zone[z].hostname] = ruleset[zone[z].hostname]
        BY <1>a, <2>1, <4>1 DEF Publish
      <4> QED BY <1>b, <2>3, <4>2
    <3> QED BY <3>1, <3>2
  <2>4. index' = index \cup {zone[y].hostname}
    BY <2>1 DEF Publish
  <2>5. Effect
    BY <2>2, <2>3, <2>4
  <2> QED BY <1>0, <2>5
<1>2. CASE sweep[w].pc = "orphans" /\ \E h \in sweep[w].orphans : Unpublish(h)
  <2>1. PICK h \in sweep[w].orphans : Unpublish(h)
    BY <1>2
  <2>2. h \notin ServableHosts
    BY <1>q, <1>2, <2>1 DEF SweepQuiet
  <2>3. ASSUME NEW z \in Zones, UpToDate(z) PROVE UpToDate(z)'
    <3>1. IsServable(z) => zone[z].hostname # h
      BY <2>2 DEF ServableHosts
    <3>2. IsServable(z) => ruleset'[zone[z].hostname] = ruleset[zone[z].hostname]
      BY <1>a, <2>1, <3>1 DEF Unpublish
    <3> QED BY <1>b, <2>3, <3>2
  <2>4. index' = index \ {h}
    BY <2>1 DEF Unpublish
  <2>5. Effect
    BY <2>2, <2>3, <2>4
  <2> QED BY <1>0, <2>5
<1>3. CASE UNCHANGED <<index, ruleset>>
  <2>1. Effect
    BY <1>b, <1>3
  <2> QED BY <1>0, <2>1
<1> QED BY <1>1, <1>2, <1>3
        DEF SweepActs, SweepStep, SweepStart, SweepReadTenant, SweepReadRecords, SweepPublish,
            SweepReadIndex, SweepUnpublish, SweepEnd, SweepFails, Crash, BumpEpoch, storeVars
-----------------------------------------------------------------------------
\* What another replica's step leaves of a quiet sweep.
LEMMA QuietStays ==
    ASSUME RepairInv, QuietInv, NEW w \in Workers, SweepActs(w),
           NEW t, SweepQuiet(t)
    PROVE  SweepQuiet(t)'
<1>1. /\ UNCHANGED <<zone, stored>>
      /\ \A z \in Zones : UpToDate(z) => UpToDate(z)'
      /\ index' \subseteq index \cup ServableHosts
  BY QuietStepStore
<1>2. /\ ServableHosts' = ServableHosts
      /\ \A z \in Zones : IsServable(z)' = IsServable(z)
  BY <1>1 DEF ServableHosts, IsServable
<1>3. \A order, k, owner : FirstRead(order, k, owner)' = FirstRead(order, k, owner)
  BY <1>1 DEF FirstRead
<1> QED BY <1>1, <1>2, <1>3 DEF SweepQuiet

\* The replica that takes the step goes on quietly.
LEMMA QuietSweepMoves ==
    ASSUME IsFiniteSet(Zones), Cardinality(Zones) <= PageLimit, ListsFindEverything,
           RepairInv, QuietInv, NEW w \in Workers, SweepActs(w)
    PROVE  \E t : sweep' = [sweep EXCEPT ![w] = t] /\ SweepQuiet(t)'
<1> DEFINE s == sweep[w]
<1>a. /\ s \in SweepState /\ SweepOK(s) /\ SweepQuiet(s)
      /\ zone \in [Zones -> ZoneRecord \cup {Nil}]
      /\ stored \subseteq Records
  BY DEF RepairInv, TypeInv, DistTypeOK, WorkerTypeOK, DataTypeOK, LocalInv, QuietInv
<1>b. /\ TenantOrder \in Seq({"rule", "list"}) /\ Len(TenantOrder) \in Nat \ {0}
      /\ ReadOrder \in Seq({"ddos", "rule", "list"}) /\ Len(ReadOrder) \in Nat \ {0}
  BY DistributorAssumption
<1>c. /\ UNCHANGED <<zone, stored>>
      /\ \A z \in Zones : UpToDate(z) => UpToDate(z)'
      /\ index' \subseteq index \cup ServableHosts
  BY QuietStepStore
<1>d. /\ ServableHosts' = ServableHosts
      /\ \A z \in Zones : IsServable(z)' = IsServable(z)
  BY <1>c DEF ServableHosts, IsServable
<1>e. \A order, k, owner : FirstRead(order, k, owner)' = FirstRead(order, k, owner)
  BY <1>c DEF FirstRead
<1>1. CASE SweepStart(w)
  <2>1. PICK page \in SUBSET Zones :
            /\ IsFirstPage(page)
            /\ SweepBecomes(w, [s EXCEPT !.pc = "tenant",
                   !.seen = [z \in Zones |-> IF z \in page /\ IsServable(z)
                                             THEN zone[z] ELSE Nil]])
    BY <1>1 DEF SweepStart
  <2> DEFINE seen == [z \in Zones |-> IF z \in page /\ IsServable(z) THEN zone[z] ELSE Nil]
  <2>t. PICK t : t = [s EXCEPT !.pc = "tenant", !.seen = seen]
    OBVIOUS
  <2>2. /\ \A z \in Zones : IsServable(z) => seen[z] # Nil
        /\ \A z \in Zones : seen[z] # Nil => IsServable(z) /\ seen[z] = zone[z]
    BY <2>1, PageHoldsAll DEF IsServable
  <2>3. s = SweepIdle
    BY <1>a, <1>1 DEF SweepStart, SweepQuiet
  <2> HIDE DEF seen
  <2>4. t.pc = "tenant" /\ t.seen = seen /\ t.k = 1 /\ t.tenant = {} /\ t.expected = {}
        /\ t.rules = {}
    BY <2>t, <2>3 DEF SweepIdle
  <2>5. SweepQuiet(t)'
    BY <1>b, <1>c, <1>d, <1>e, <2>2, <2>4, ReadNothing DEF SweepQuiet
  <2> QED BY <2>t, <2>1, <2>5 DEF SweepBecomes, seen
<1>2. CASE SweepReadTenant(w)
  <2> DEFINE last == s.k = Len(TenantOrder)
             read == s.tenant \cup RecordsOf(Global, TenantOrder[s.k])
             k == IF last THEN 1 ELSE s.k + 1
             next == IF last THEN "zones" ELSE "tenant"
  <2>t. PICK t : t = [s EXCEPT !.tenant = read, !.k = k, !.pc = next]
    OBVIOUS
  <2>1. SweepBecomes(w, t) /\ s.pc = "tenant"
    BY <2>t, <1>2 DEF SweepReadTenant
  <2>2. /\ s.k \in 1..Len(TenantOrder) /\ s.cur = Nil
        /\ s.tenant = FirstRead(TenantOrder, s.k, Global)
        /\ \A z \in Zones : IsServable(z) => s.seen[z] # Nil
        /\ \A z \in Zones : s.seen[z] # Nil => IsServable(z) /\ s.seen[z] = zone[z]
        /\ s.expected = {} /\ s.rules = {}
    BY <1>a, <2>1 DEF SweepQuiet, SweepOK
  <2>3. read = FirstRead(TenantOrder, s.k + 1, Global)
    <3>1. s.k \in Nat \ {0}
      BY <1>b, <2>2
    <3> HIDE DEF s
    <3>2. FirstRead(TenantOrder, s.k + 1, Global) =
              FirstRead(TenantOrder, s.k, Global) \cup RecordsOf(Global, TenantOrder[s.k])
      BY <3>1, ReadOn
    <3> QED BY <2>2, <3>2
  <2>4. next = "zones" => read = {r \in stored : Owner[r] = Global}
    BY <2>3, AllRead DEF RepairInv
  <2>5. \/ k = 1 /\ next = "zones"
        \/ k = s.k + 1 /\ k \in 1..Len(TenantOrder) /\ next = "tenant"
    BY <1>b, <2>2
  <2> HIDE DEF read, k, next
  <2>6. /\ t.pc = next /\ t.k = k /\ t.tenant = read /\ t.seen = s.seen
        /\ t.expected = s.expected /\ t.rules = s.rules /\ t.cur = Nil
    BY <1>a, <2>t, <2>2 DEF SweepState
  <2>7. CASE next = "tenant"
    <3>1. /\ t.pc = "tenant" /\ t.k \in 1..Len(TenantOrder)
          /\ t.tenant = FirstRead(TenantOrder, t.k, Global)
          /\ \A z \in Zones : IsServable(z) => t.seen[z] # Nil
          /\ \A z \in Zones : t.seen[z] # Nil => IsServable(z) /\ t.seen[z] = zone[z]
          /\ t.expected = {} /\ t.rules = {}
      BY <2>2, <2>3, <2>5, <2>6, <2>7
    <3>2. t.tenant = FirstRead(TenantOrder, t.k, Global)'
      BY <1>e, <3>1
    <3>4. SweepQuiet(t)'
      BY <1>c, <1>d, <3>1, <3>2 DEF SweepQuiet
    <3> QED BY <2>1, <3>4 DEF SweepBecomes
  <2>8. CASE next = "zones"
    <3>1. /\ t.pc = "zones" /\ t.k = 1 /\ t.cur = Nil
          /\ t.tenant = {r \in stored : Owner[r] = Global}
          /\ \A z \in Zones : IsServable(z) => t.seen[z] # Nil
          /\ \A z \in Zones : t.seen[z] # Nil => IsServable(z) /\ t.seen[z] = zone[z]
          /\ t.expected = {} /\ t.rules = {}
      BY <2>2, <2>4, <2>5, <2>6, <2>8
    <3>2. t.rules = FirstRead(ReadOrder, t.k, t.cur)'
      BY <1>e, <3>1, ReadNothing
    <3>3. t.k \in 1..Len(ReadOrder)
      BY <1>b, <3>1
    <3>4. SweepQuiet(t)'
      BY <1>c, <1>d, <3>1, <3>2, <3>3 DEF SweepQuiet
    <3> QED BY <2>1, <3>4 DEF SweepBecomes
  <2> QED BY <2>1, <2>5, <2>7, <2>8 DEF SweepBecomes
<1>3. CASE SweepReadRecords(w)
  <2>1. PICK z \in Zones :
            /\ s.seen[z] # Nil
            /\ s.cur = Nil \/ s.cur = z
            /\ SweepBecomes(w, [s EXCEPT !.cur = z,
                   !.rules = @ \cup RecordsOf(z, ReadOrder[s.k]), !.k = s.k + 1,
                   !.pc = IF s.k = Len(ReadOrder) THEN "publish" ELSE "zones"])
    BY <1>3, <1>a DEF SweepReadRecords, SweepState, SweepOK
  <2> DEFINE last == s.k = Len(ReadOrder)
             read == s.rules \cup RecordsOf(z, ReadOrder[s.k])
             next == IF last THEN "publish" ELSE "zones"
  <2>t. PICK t : t = [s EXCEPT !.cur = z, !.rules = read, !.k = s.k + 1, !.pc = next]
    OBVIOUS
  <2>2. SweepBecomes(w, t) /\ s.pc = "zones" /\ z # Nil
    BY <1>3, <2>t, <2>1, DataPlaneAssumption DEF SweepReadRecords
  <2>3. /\ s.k \in 1..Len(ReadOrder)
        /\ \A y \in Zones : s.seen[y] # Nil => IsServable(y) /\ s.seen[y] = zone[y]
        /\ s.tenant = {r \in stored : Owner[r] = Global}
        /\ s.expected \subseteq ServableHosts
        /\ \A y \in Zones : IsServable(y) =>
               s.seen[y] # Nil \/ (zone[y].hostname \in s.expected /\ UpToDate(y))
    BY <1>a, <2>2 DEF SweepQuiet
  <2>4. s.rules = FirstRead(ReadOrder, s.k, z)
    <3>1. CASE s.cur = z
      BY <1>a, <2>2, <3>1 DEF SweepQuiet
    <3>2. CASE s.cur = Nil
      <4>1. s.k = 1 /\ s.rules = FirstRead(ReadOrder, s.k, Nil)
        BY <1>a, <2>2, <3>2 DEF SweepQuiet
      <4> QED BY <4>1, ReadNothing
    <3> QED BY <2>1, <3>1, <3>2
  <2>5. read = FirstRead(ReadOrder, s.k + 1, z)
    <3>1. s.k \in Nat \ {0}
      BY <1>b, <2>3
    <3> HIDE DEF s
    <3>2. FirstRead(ReadOrder, s.k + 1, z) =
              FirstRead(ReadOrder, s.k, z) \cup RecordsOf(z, ReadOrder[s.k])
      BY <3>1, ReadOn
    <3> QED BY <2>4, <3>2
  <2>6. next = "publish" => read = {r \in stored : Owner[r] = z}
    BY <2>5, AllRead DEF RepairInv
  <2>7. \/ next = "publish"
        \/ s.k + 1 \in 1..Len(ReadOrder) /\ next = "zones"
    BY <1>b, <2>3
  <2> HIDE DEF read, next
  <2>8. /\ t.pc = next /\ t.k = s.k + 1 /\ t.rules = read /\ t.cur = z
        /\ t.seen = s.seen /\ t.expected = s.expected /\ t.tenant = s.tenant
    BY <1>a, <2>t DEF SweepState
  <2>9. CASE next = "publish"
    <3>1. /\ t.pc = "publish" /\ t.cur = z
          /\ t.rules = {r \in stored : Owner[r] = z}
          /\ t.tenant = {r \in stored : Owner[r] = Global}
          /\ t.expected \subseteq ServableHosts
          /\ \A y \in Zones : t.seen[y] # Nil => IsServable(y) /\ t.seen[y] = zone[y]
          /\ \A y \in Zones : IsServable(y) =>
                 t.seen[y] # Nil \/ (zone[y].hostname \in t.expected /\ UpToDate(y))
      BY <2>3, <2>6, <2>8, <2>9
    <3>4. SweepQuiet(t)'
      BY <1>c, <1>d, <3>1 DEF SweepQuiet
    <3> QED BY <2>2, <3>4 DEF SweepBecomes
  <2>10. CASE next = "zones"
    <3>1. /\ t.pc = "zones" /\ t.cur # Nil /\ t.k \in 1..Len(ReadOrder)
          /\ t.rules = FirstRead(ReadOrder, t.k, t.cur)
          /\ t.tenant = {r \in stored : Owner[r] = Global}
          /\ t.expected \subseteq ServableHosts
          /\ \A y \in Zones : t.seen[y] # Nil => IsServable(y) /\ t.seen[y] = zone[y]
          /\ \A y \in Zones : IsServable(y) =>
                 t.seen[y] # Nil \/ (zone[y].hostname \in t.expected /\ UpToDate(y))
      BY <2>2, <2>3, <2>5, <2>7, <2>8, <2>10
    <3>2. t.rules = FirstRead(ReadOrder, t.k, t.cur)'
      BY <1>e, <3>1
    <3>4. SweepQuiet(t)'
      BY <1>c, <1>d, <3>1, <3>2 DEF SweepQuiet
    <3> QED BY <2>2, <3>4 DEF SweepBecomes
  <2> QED BY <2>2, <2>7, <2>9, <2>10 DEF SweepBecomes
<1>4. CASE SweepPublish(w)
  <2>y. PICK y : y = s.cur
    OBVIOUS
  <2> DEFINE seen == [s.seen EXCEPT ![y] = Nil]
             done == s.expected \cup {s.seen[y].hostname}
  <2>t. PICK t : t = [s EXCEPT !.pc = "zones", !.cur = Nil, !.k = 1, !.rules = {},
                               !.seen = seen, !.expected = done]
    OBVIOUS
  <2>1. SweepBecomes(w, t) /\ s.pc = "publish" /\ Publish(SweepCompiled(w))
    BY <2>t, <2>y, <1>4 DEF SweepPublish
  <2>2. /\ y \in Zones /\ IsServable(y) /\ s.seen[y] = zone[y]
        /\ SweepCompiled(w).hostname = zone[y].hostname
        /\ Matches(SweepCompiled(w), y)
    BY <1>a, <2>y, <2>1, PublishesUpToDate
  <2>3. UpToDate(y)'
    <3>1. zone[y].hostname \in Hostnames
      BY <1>a, <2>2 DEF ZoneRecord, IsServable
    <3>2. ruleset'[zone[y].hostname] = SweepCompiled(w)
      BY <2>1, <2>2, <3>1 DEF Publish, RepairInv, TypeInv, DistTypeOK, StoreTypeOK
    <3> QED BY <1>c, <2>2, <3>2 DEF UpToDate, Matches, Wanted
  <2>4. /\ \A z \in Zones : seen[z] # Nil => IsServable(z) /\ seen[z] = zone[z]
        /\ seen \in [Zones -> ZoneRecord \cup {Nil}]
        /\ \A z \in Zones : z # y => seen[z] = s.seen[z]
    BY <1>a, <2>1 DEF SweepQuiet, SweepState
  <2>5. done \subseteq ServableHosts /\ zone[y].hostname \in done /\ s.expected \subseteq done
    BY <1>a, <2>1, <2>2 DEF SweepQuiet, ServableHosts
  <2>6. \A z \in Zones : IsServable(z) =>
            seen[z] # Nil \/ (zone[z].hostname \in done /\ UpToDate(z)')
    BY <1>a, <1>c, <2>1, <2>3, <2>4, <2>5 DEF SweepQuiet
  <2> HIDE DEF seen, done
  <2>7. /\ t.pc = "zones" /\ t.cur = Nil /\ t.k = 1 /\ t.rules = {} /\ t.seen = seen
        /\ t.expected = done /\ t.tenant = s.tenant
    BY <1>a, <2>t DEF SweepState
  <2>8. s.tenant = {r \in stored : Owner[r] = Global}
    BY <1>a, <2>1 DEF SweepQuiet
  <2>9. SweepQuiet(t)'
    BY <1>b, <1>c, <1>d, <1>e, <2>4, <2>5, <2>6, <2>7, <2>8, ReadNothing DEF SweepQuiet
  <2> QED BY <2>1, <2>9 DEF SweepBecomes
<1>5. CASE SweepReadIndex(w)
  <2>t. PICK t : t = [s EXCEPT !.pc = "orphans", !.orphans = index \ s.expected]
    OBVIOUS
  <2>1. SweepBecomes(w, t) /\ s.pc = "zones" /\ s.seen = [z \in Zones |-> Nil]
        /\ index' = index
    BY <2>t, <1>5 DEF SweepReadIndex, storeVars
  <2>2. /\ s.expected \subseteq ServableHosts
        /\ \A z \in Zones : IsServable(z) => zone[z].hostname \in s.expected /\ UpToDate(z)
    BY <1>a, <2>1 DEF SweepQuiet
  <2>3. ServableHosts \subseteq s.expected
    BY <2>2 DEF ServableHosts
  <2>4. \A z \in Zones : UpToDate(z)
    BY <2>2 DEF UpToDate
  <2>5. t.pc = "orphans" /\ t.orphans = index \ s.expected
    BY <1>a, <2>t DEF SweepState
  <2>6. SweepQuiet(t)'
    BY <1>c, <1>d, <2>1, <2>2, <2>3, <2>4, <2>5 DEF SweepQuiet
  <2> QED BY <2>1, <2>6 DEF SweepBecomes
<1>6. CASE SweepUnpublish(w)
  <2>1. PICK h \in s.orphans : Unpublish(h) /\ SweepBecomes(w, [s EXCEPT !.orphans = @ \ {h}])
    BY <1>6 DEF SweepUnpublish
  <2>t. PICK t : t = [s EXCEPT !.orphans = @ \ {h}]
    OBVIOUS
  <2>2. s.pc = "orphans" /\ index' = index \ {h}
    BY <1>6, <2>1 DEF SweepUnpublish, Unpublish
  <2>3. t.pc = "orphans" /\ t.orphans = s.orphans \ {h}
    BY <1>a, <2>t, <2>2 DEF SweepState
  <2>4. SweepBecomes(w, t)
    BY <2>t, <2>1
  <2>5. SweepQuiet(t)'
    BY <1>a, <1>c, <1>d, <2>2, <2>3 DEF SweepQuiet
  <2> QED BY <2>4, <2>5 DEF SweepBecomes
<1>7. CASE SweepEnd(w)
  <2>t. PICK t : t = SweepIdle
    OBVIOUS
  <2>1. SweepQuiet(t)'
    BY <2>t DEF SweepQuiet, SweepIdle
  <2> QED BY <1>7, <2>t, <2>1 DEF SweepEnd, SweepDone, SweepBecomes
<1>8. CASE SweepFails(w) \/ Crash(w)
  <2>t. PICK t : t = SweepIdle
    OBVIOUS
  <2>1. SweepQuiet(t)'
    BY <2>t DEF SweepQuiet, SweepIdle
  <2> QED BY <1>8, <2>t, <2>1 DEF SweepFails, Crash, SweepDone, SweepBecomes
<1> QED BY <1>1, <1>2, <1>3, <1>4, <1>5, <1>6, <1>7, <1>8 DEF SweepActs, SweepStep

LEMMA QuietInductive ==
    ASSUME IsFiniteSet(Zones), Cardinality(Zones) <= PageLimit, ListsFindEverything,
           RepairInv, QuietInv, [OnlySweeps]_distVars
    PROVE  QuietInv'
<1>1. CASE \E w \in Workers : SweepActs(w)
  <2>1. PICK w \in Workers : SweepActs(w)
    BY <1>1
  <2>2. PICK t : sweep' = [sweep EXCEPT ![w] = t] /\ SweepQuiet(t)'
    BY <2>1, QuietSweepMoves
  <2>3. ASSUME NEW v \in Workers PROVE SweepQuiet(sweep[v])'
    <3>1. sweep'[v] = IF v = w THEN t ELSE sweep[v]
      BY <2>2 DEF RepairInv, TypeInv, DistTypeOK, WorkerTypeOK
    <3>2. CASE v = w
      BY <2>2, <3>1, <3>2
    <3>3. CASE v # w
      <4>1. PICK u : u = sweep[v]
        OBVIOUS
      <4>2. SweepQuiet(u)'
        BY <2>1, <4>1, QuietStays DEF QuietInv
      <4> QED BY <3>1, <3>3, <4>1, <4>2
    <3> QED BY <3>2, <3>3
  <2> QED BY <2>3 DEF QuietInv
<1>2. CASE LoseMessage \/ UNCHANGED distVars
  <2>1. UNCHANGED <<index, ruleset, zone, stored, sweep>>
    BY <1>2 DEF LoseMessage, distVars, storeVars, dataVars, workerVars
  <2>2. ASSUME NEW w \in Workers PROVE SweepQuiet(sweep[w])'
    <3>1. PICK u : u = sweep[w]
      OBVIOUS
    <3>2. SweepQuiet(u)
      BY <3>1 DEF QuietInv
    <3>3. /\ ServableHosts' = ServableHosts
          /\ \A z \in Zones : IsServable(z)' <=> IsServable(z)
          /\ \A order, k, owner : FirstRead(order, k, owner)' = FirstRead(order, k, owner)
      BY <2>1 DEF ServableHosts, IsServable, FirstRead
    <3>4. \A z \in Zones : UpToDate(z)' <=> UpToDate(z)
      BY <2>1 DEF UpToDate, IsServable, Matches, Wanted
    <3>5. SweepQuiet(u)'
      BY <2>1, <3>2, <3>3, <3>4 DEF SweepQuiet
    <3>6. sweep'[w] = u
      BY <2>1, <3>1
    <3> QED BY <3>5, <3>6
  <2> QED BY <2>2 DEF QuietInv
<1> QED BY <1>1, <1>2 DEF OnlySweeps

LEMMA RepairInvHolds ==
    ASSUME IsFiniteSet(Zones), Cardinality(Zones) <= PageLimit
    PROVE  DistSpec => []RepairInv
<1> DEFINE KInv == KeepInv /\ StoreConsistent
<1>1. DistInit => KInv
  BY InitTypeInv, InitKeepInv
<1>2. KInv /\ [DistNext]_distVars => KInv'
  BY NextKeeps, NextInv DEF KeepInv
<1>3. KInv => RepairInv
  BY DEF KeepInv, RepairInv
<1> HIDE DEF KInv
<1> QED BY <1>1, <1>2, <1>3, PTL DEF DistSpec

\* When a sweep is about to end, what it found wrong is gone.
LEMMA EndingIsCurrent ==
    ASSUME RepairInv, QuietInv, SweepEnding
    PROVE  StoreCurrent
<1>1. PICK w \in Workers : sweep[w].pc = "orphans" /\ sweep[w].orphans = {}
  BY DEF SweepEnding
<1>2. index \subseteq ServableHosts /\ \A z \in Zones : UpToDate(z)
  BY <1>1 DEF QuietInv, SweepQuiet
<1>3. ASSUME NEW z \in Zones, IsServable(z)
      PROVE  zone[z].hostname \in index
  <2>1. zone[z].hostname \in Hostnames
    BY <1>3 DEF RepairInv, TypeInv, DistTypeOK, DataTypeOK, ZoneRecord, IsServable
  <2>2. ruleset[zone[z].hostname] # Nil
    BY <1>2, <1>3 DEF UpToDate, Matches
  <2> QED BY <2>1, <2>2 DEF RepairInv, StoreConsistent
<1> QED BY <1>2, <1>3 DEF StoreCurrent, ServableHosts, UpToDate

\* Quiet sweeps leave a current store alone.
LEMMA CurrentStays ==
    ASSUME RepairInv, QuietInv, StoreCurrent, [OnlySweeps]_distVars
    PROVE  StoreCurrent'
<1>1. CASE \E w \in Workers : SweepActs(w)
  <2>1. PICK w \in Workers : SweepActs(w)
    BY <1>1
  <2>2. /\ UNCHANGED <<zone, stored>>
        /\ \A z \in Zones : UpToDate(z) => UpToDate(z)'
        /\ index' \subseteq index \cup ServableHosts
        /\ (index \ index') \cap ServableHosts = {}
    BY <2>1, QuietStepStore
  <2>3. ServableHosts' = ServableHosts
    BY <2>2 DEF ServableHosts, IsServable
  <2>4. index' = ServableHosts'
    BY <2>2, <2>3 DEF StoreCurrent
  <2>5. \A z \in Zones : UpToDate(z)'
    BY <2>2 DEF StoreCurrent, UpToDate
  <2> QED BY <2>4, <2>5 DEF StoreCurrent, UpToDate
<1>2. CASE LoseMessage \/ UNCHANGED distVars
  <2>1. UNCHANGED <<index, ruleset, zone, stored>>
    BY <1>2 DEF LoseMessage, distVars, storeVars, dataVars
  <2> QED BY <2>1 DEF StoreCurrent, ServableHosts, IsServable, Matches, Wanted
<1> QED BY <1>1, <1>2 DEF OnlySweeps

LEMMA QuietFromIdle ==
    ASSUME QuietStart
    PROVE  QuietInv
<1>1. SweepQuiet(SweepIdle)
  BY DEF SweepQuiet, SweepIdle
<1> QED BY <1>1 DEF QuietStart, QuietInv

\* A quiet sweep has no servable hostname among its orphans.
LEMMA QuietRemoval ==
    ASSUME QuietInv, [OnlySweeps]_distVars
    PROVE  [\A w \in Workers : SweepUnpublish(w) => (index \ index') \cap ServableHosts = {}]_distVars
<1> SUFFICES ASSUME NEW w \in Workers, SweepUnpublish(w)
             PROVE  (index \ index') \cap ServableHosts = {}
  OBVIOUS
<1>1. PICK h \in sweep[w].orphans : index' = index \ {h}
  BY DEF SweepUnpublish, Unpublish
<1>2. h \notin ServableHosts
  BY <1>1 DEF QuietInv, SweepQuiet, SweepUnpublish
<1> QED BY <1>1, <1>2

(***************************************************************************)
(* A sweep repairs the store.  From whatever state clients, consumers,     *)
(* lost messages and crashes have led to: once no sweep is half done and   *)
(* clients and consumers are still, then whichever replicas sweep, and     *)
(* however many of those sweeps fail or die on the way, the first sweep    *)
(* that comes to its end finds Redis holding exactly the servable zones,   *)
(* compiled from the current records, and so it stays: the safety half of  *)
(* StoreConverges; that a sweep does come to its end is the other half.    *)
(* (resync.RunOnce)                                                        *)
(***************************************************************************)
THEOREM QuietSweepsRepair ==
    ASSUME IsFiniteSet(Zones), Cardinality(Zones) <= PageLimit, ListsFindEverything
    PROVE  DistSpec => [](QuietStart /\ [][OnlySweeps]_distVars
                              => [](SweepEnding => []StoreCurrent))
<1>1. DistSpec => []RepairInv
  BY RepairInvHolds
<1>2. QuietStart => QuietInv
  BY QuietFromIdle
<1>3. RepairInv /\ QuietInv /\ [OnlySweeps]_distVars => QuietInv'
  BY QuietInductive
<1>4. RepairInv /\ QuietInv /\ SweepEnding => StoreCurrent
  BY EndingIsCurrent
<1>5. RepairInv /\ QuietInv /\ StoreCurrent /\ [OnlySweeps]_distVars => StoreCurrent'
  BY CurrentStays
<1> QED BY <1>1, <1>2, <1>3, <1>4, <1>5, PTL

(***************************************************************************)
(* Under the same conditions a sweep removes only what the data plane does *)
(* not consider servable: what the run SweepRace refutes when clients may  *)
(* write between the zone list and the index is true when they may not.    *)
(***************************************************************************)
THEOREM QuietSweepsRemoveUnservable ==
    ASSUME IsFiniteSet(Zones), Cardinality(Zones) <= PageLimit, ListsFindEverything
    PROVE  DistSpec => [](QuietStart /\ [][OnlySweeps]_distVars => SweepRemovesUnservable)
<1>1. DistSpec => []RepairInv
  BY RepairInvHolds
<1>2. QuietStart => QuietInv
  BY QuietFromIdle
<1>3. RepairInv /\ QuietInv /\ [OnlySweeps]_distVars => QuietInv'
  BY QuietInductive
<1>4. QuietInv /\ [OnlySweeps]_distVars =>
          [\A w \in Workers :
               SweepUnpublish(w) => (index \ index') \cap ServableHosts = {}]_distVars
  BY QuietRemoval
<1> QED BY <1>1, <1>2, <1>3, <1>4, PTL DEF SweepRemovesUnservable

===============================================================================
