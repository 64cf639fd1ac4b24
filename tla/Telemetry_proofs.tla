---------------------------- MODULE Telemetry_proofs ----------------------------
(***************************************************************************)
(* Proofs about the telemetry path, for any number of nodes, events,       *)
(* sizes, stops, kills and lost requests: the safety part of its           *)
(* refinement of EventDelivery, the order of what was acknowledged, and    *)
(* what a loss needs.                                                      *)
(*                                                                         *)
(* An event is in at most one place of the ingest.  At its node it may be  *)
(* at the same time, in the batch that is waiting for the answer.          *)
(***************************************************************************)
EXTENDS Telemetry, SequenceTheorems, TLAPS

-----------------------------------------------------------------------------
(* Sequences of events.                                                    *)

\* The events of a node, in the order in which it recorded them.
Ascending(s) == \A i, j \in 1..Len(s) : i < j => s[i].n < s[j].n

\* One event may be kept before another: they are not the same, and if both
\* may yet be counted as sent, then not against the order of their node.
MayPrecede(v, w, live) ==
    v # w /\ (v \in live /\ w \in live /\ v.edge = w.edge => v.n < w.n)

Sorted(s, live) == \A i, j \in 1..Len(s) : i < j => MayPrecede(s[i], s[j], live)

Before(some, others, live) == \A v \in some, w \in others : MayPrecede(v, w, live)

LEMMA EventType == \A v \in Events : v.edge \in Edges /\ v.n \in 1..Recorded[v.edge] /\ v.n \in Nat
BY TelemetryAssumption DEF Events

LEMMA EventIn ==
    ASSUME NEW e \in Edges, NEW n \in 1..Recorded[e]
    PROVE  [edge |-> e, n |-> n] \in Events
BY DEF Events

LEMMA EventEqual ==
    \A v, w \in Events : v.edge = w.edge /\ v.n = w.n => v = w
BY DEF Events

LEMMA ToSetEmpty == ToSet(<<>>) = {}
BY DEF ToSet

LEMMA ToSetEvents ==
    ASSUME NEW s \in Seq(Events)
    PROVE  /\ ToSet(s) \subseteq Events
           /\ \A i \in 1..Len(s) : s[i] \in ToSet(s)
           /\ \A v \in ToSet(s) : \E i \in 1..Len(s) : v = s[i]
BY LenProperties DEF ToSet

LEMMA ToSetAppend ==
    ASSUME NEW s \in Seq(Events), NEW v \in Events
    PROVE  /\ Append(s, v) \in Seq(Events) /\ Append(s, v) # <<>>
           /\ ToSet(Append(s, v)) = ToSet(s) \cup {v}
<1>1. /\ Append(s, v) \in Seq(Events) /\ Len(Append(s, v)) = Len(s) + 1
      /\ \A i \in 1..Len(s) : Append(s, v)[i] = s[i]
      /\ Append(s, v)[Len(s) + 1] = v
      /\ Append(s, v) # <<>>
      /\ Len(s) \in Nat
  BY AppendProperties, LenProperties
<1>2. /\ \A i \in 1..(Len(s) + 1) : i \in 1..Len(s) \/ i = Len(s) + 1
      /\ \A i \in 1..Len(s) : i \in 1..(Len(s) + 1)
      /\ Len(s) + 1 \in 1..(Len(s) + 1)
  BY <1>1
<1> DEFINE longer == Append(s, v)
<1>3. /\ \A i \in 1..(Len(s) + 1) : longer[i] \in ToSet(longer)
      /\ \A w \in ToSet(longer) : \E i \in 1..(Len(s) + 1) : w = longer[i]
  BY <1>1, ToSetEvents
<1>4. /\ \A i \in 1..Len(s) : s[i] \in ToSet(s)
      /\ \A w \in ToSet(s) : \E i \in 1..Len(s) : w = s[i]
  BY ToSetEvents
<1> HIDE DEF longer
<1>5. ToSet(longer) = ToSet(s) \cup {v}
  <2>1. /\ \A i \in 1..Len(s) : longer[i] = s[i]
        /\ longer[Len(s) + 1] = v
    BY <1>1 DEF longer
  <2>2. ASSUME NEW w \in ToSet(longer) PROVE w \in ToSet(s) \cup {v}
    <3>1. PICK i \in 1..(Len(s) + 1) : w = longer[i]
      BY <1>3
    <3> QED BY <1>2, <1>4, <2>1, <3>1
  <2>3. ASSUME NEW w \in ToSet(s) PROVE w \in ToSet(longer)
    <3>1. PICK i \in 1..Len(s) : w = s[i]
      BY <1>4
    <3> QED BY <1>2, <1>3, <2>1, <3>1
  <2>4. v \in ToSet(longer)
    BY <1>2, <1>3, <2>1
  <2> QED BY <2>2, <2>3, <2>4
<1> QED BY <1>1, <1>5 DEF longer

LEMMA ToSetTail ==
    ASSUME NEW s \in Seq(Events), s # <<>>
    PROVE  /\ Tail(s) \in Seq(Events) /\ Head(s) \in Events
           /\ ToSet(s) = {Head(s)} \cup ToSet(Tail(s))
           /\ Len(s) \in Nat \ {0} /\ Len(Tail(s)) = Len(s) - 1
           /\ Head(s) = s[1] /\ \A i \in 1..Len(Tail(s)) : Tail(s)[i] = s[i + 1]
<1>1. /\ Tail(s) \in Seq(Events) /\ Head(s) \in Events /\ Len(Tail(s)) = Len(s) - 1
      /\ \A i \in 1..Len(Tail(s)) : Tail(s)[i] = s[i + 1]
      /\ Len(s) \in Nat \ {0}
  BY HeadTailProperties, EmptySeq
<1>2. Head(s) = s[1]
  OBVIOUS
<1>3. \A i \in 1..Len(s) : i = 1 \/ (i - 1 \in 1..Len(Tail(s)) /\ s[i] = Tail(s)[i - 1])
  BY <1>1
<1>4. \A i \in 1..Len(Tail(s)) : i + 1 \in 1..Len(s) /\ Tail(s)[i] = s[i + 1]
  BY <1>1
<1>5. 1 \in 1..Len(s)
  BY <1>1
<1>6. /\ \A t \in Seq(Events) : \A i \in 1..Len(t) : t[i] \in ToSet(t)
      /\ \A t \in Seq(Events) : \A w \in ToSet(t) : \E i \in 1..Len(t) : w = t[i]
  BY ToSetEvents
<1>7. ToSet(s) = {Head(s)} \cup ToSet(Tail(s))
  <2>1. ASSUME NEW w \in ToSet(s) PROVE w \in {Head(s)} \cup ToSet(Tail(s))
    <3>1. PICK i \in 1..Len(s) : w = s[i]
      BY <1>6
    <3> QED BY <1>1, <1>2, <1>3, <1>6, <3>1
  <2>2. ASSUME NEW w \in {Head(s)} \cup ToSet(Tail(s)) PROVE w \in ToSet(s)
    <3>1. CASE w = Head(s)
      BY <1>2, <1>5, <1>6, <3>1
    <3>2. CASE w \in ToSet(Tail(s))
      <4>1. PICK i \in 1..Len(Tail(s)) : w = Tail(s)[i]
        BY <1>1, <1>6, <3>2
      <4> QED BY <1>4, <1>6, <4>1
    <3> QED BY <2>2, <3>1, <3>2
  <2> QED BY <2>1, <2>2
<1> QED BY <1>1, <1>2, <1>7

LEMMA SortedAppend ==
    ASSUME NEW s \in Seq(Events), NEW v \in Events, NEW live,
           Sorted(s, live), Before(ToSet(s), {v}, live)
    PROVE  Sorted(Append(s, v), live)
<1>1. /\ Len(Append(s, v)) = Len(s) + 1 /\ Len(s) \in Nat
      /\ \A i \in 1..Len(s) : Append(s, v)[i] = s[i]
      /\ Append(s, v)[Len(s) + 1] = v
  BY AppendProperties, LenProperties
<1>2. \A i \in 1..Len(s) : MayPrecede(s[i], v, live)
  BY ToSetEvents DEF Before
<1>3. ASSUME NEW i \in 1..(Len(s) + 1), NEW j \in 1..(Len(s) + 1), i < j
      PROVE  MayPrecede(Append(s, v)[i], Append(s, v)[j], live)
  <2>1. i \in 1..Len(s)
    BY <1>1, <1>3
  <2>2. j \in 1..Len(s) \/ j = Len(s) + 1
    BY <1>1
  <2> QED BY <1>1, <1>2, <1>3, <2>1, <2>2 DEF Sorted
<1> QED BY <1>1, <1>3 DEF Sorted

LEMMA SortedTail ==
    ASSUME NEW s \in Seq(Events), s # <<>>, NEW live, Sorted(s, live)
    PROVE  Sorted(Tail(s), live) /\ Before({Head(s)}, ToSet(Tail(s)), live)
<1>1. /\ Tail(s) \in Seq(Events) /\ Len(s) \in Nat \ {0} /\ Len(Tail(s)) = Len(s) - 1
      /\ Head(s) = s[1] /\ \A i \in 1..Len(Tail(s)) : Tail(s)[i] = s[i + 1]
  BY ToSetTail
<1>2. \A i \in 1..Len(Tail(s)) : i + 1 \in 1..Len(s) /\ 1 \in 1..Len(s) /\ 1 < i + 1
  BY <1>1
<1>3. \A i, j \in 1..Len(Tail(s)) : i < j => i + 1 < j + 1
  BY <1>1
<1>4. Sorted(Tail(s), live)
  BY <1>1, <1>2, <1>3 DEF Sorted
<1>5. \A i \in 1..Len(Tail(s)) : MayPrecede(Head(s), Tail(s)[i], live)
  BY <1>1, <1>2 DEF Sorted
<1>6. \A w \in ToSet(Tail(s)) : \E i \in 1..Len(Tail(s)) : w = Tail(s)[i]
  BY <1>1, ToSetEvents
<1>7. \A w \in ToSet(Tail(s)) : MayPrecede(Head(s), w, live)
  BY <1>5, <1>6
<1>8. Before({Head(s)}, ToSet(Tail(s)), live)
  BY <1>7, Zenon DEF Before
<1> QED BY <1>4, <1>8

LEMMA SortedFewer ==
    ASSUME NEW live, NEW fewer, fewer \subseteq live
    PROVE  /\ \A s : Sorted(s, live) => Sorted(s, fewer)
           /\ \A some, others : Before(some, others, live) => Before(some, others, fewer)
BY DEF Sorted, Before, MayPrecede

LEMMA AscendingAppend ==
    ASSUME NEW s \in Seq(Events), NEW v \in Events, Ascending(s), \A w \in ToSet(s) : w.n < v.n
    PROVE  Ascending(Append(s, v))
<1>1. /\ Len(Append(s, v)) = Len(s) + 1 /\ Len(s) \in Nat
      /\ \A i \in 1..Len(s) : Append(s, v)[i] = s[i]
      /\ Append(s, v)[Len(s) + 1] = v
  BY AppendProperties, LenProperties
<1>2. \A i \in 1..Len(s) : s[i].n < v.n
  BY ToSetEvents
<1>3. ASSUME NEW i \in 1..(Len(s) + 1), NEW j \in 1..(Len(s) + 1), i < j
      PROVE  Append(s, v)[i].n < Append(s, v)[j].n
  <2>1. i \in 1..Len(s) /\ (j \in 1..Len(s) \/ j = Len(s) + 1)
    BY <1>1, <1>3
  <2> QED BY <1>1, <1>2, <1>3, <2>1 DEF Ascending
<1> QED BY <1>1, <1>3 DEF Ascending

LEMMA AscendingTail ==
    ASSUME NEW s \in Seq(Events), s # <<>>, Ascending(s)
    PROVE  Ascending(Tail(s)) /\ \A w \in ToSet(Tail(s)) : Head(s).n < w.n
<1>1. /\ Tail(s) \in Seq(Events) /\ Len(s) \in Nat \ {0} /\ Len(Tail(s)) = Len(s) - 1
      /\ Head(s) = s[1] /\ \A i \in 1..Len(Tail(s)) : Tail(s)[i] = s[i + 1]
  BY ToSetTail
<1>2. \A i \in 1..Len(Tail(s)) : i + 1 \in 1..Len(s) /\ 1 \in 1..Len(s) /\ 1 < i + 1
  BY <1>1
<1>3. \A i, j \in 1..Len(Tail(s)) : i < j => i + 1 < j + 1
  BY <1>1
<1>4. Ascending(Tail(s))
  BY <1>1, <1>2, <1>3 DEF Ascending
<1>5. \A i \in 1..Len(Tail(s)) : Head(s).n < Tail(s)[i].n
  BY <1>1, <1>2 DEF Ascending
<1> QED BY <1>1, <1>4, <1>5, ToSetEvents

-----------------------------------------------------------------------------
(* The inductive invariant.                                                *)

\* The events that may yet be counted as sent.
Live ==
    {v \in Events : \/ v.n > count[v.edge] \/ v \in sent
                    \/ v \in ToSet(queue[v.edge]) \/ v \in ToSet(pending[v.edge])}

\* The events the ingest has queued, in whatever place they are now, ...
Ahead == ToSet(stored) \cup ToSet(batch) \cup ToSet(ingestQueue)

\* ... and those it was ever given, as far as anything still tells.
Shipped == Ahead \cup {v \in Events : \E h \in handlers : v \in ToSet(h.batch)} \cup sent

TelemetryTypeOK ==
    /\ count \in [Edges -> Nat] /\ \A e \in Edges : count[e] <= Recorded[e]
    /\ edge \in [Edges -> {"up", "stopping", "down"}]
    /\ queue \in [Edges -> Seq(Events)] /\ pending \in [Edges -> Seq(Events)]
    /\ shipper \in [Edges -> [step : {"select", "send", "wait", "gone"}, last : BOOLEAN]]
    /\ sent \subseteq Events /\ dropped \subseteq Events
    /\ ingest \in {"up", "stopping", "down"}
    /\ handlers \subseteq [batch : Seq(Events), left : Seq(Events)]
    /\ ingestQueue \in Seq(Events) /\ batch \in Seq(Events) /\ stored \in Seq(Events)
    /\ writer \in {"select", "drain", "write", "gone"}
    /\ writer \in {"drain", "write"} <=> batch # <<>>
    /\ faults \in Nat /\ stops \in Nat

\* A node: what it has not shipped is later than what it has, and the batch it
\* waits for is at most one request's.
EdgeOK(e) ==
    /\ \A v \in ToSet(queue[e]) \cup ToSet(pending[e]) : v.edge = e /\ v.n <= count[e]
    /\ Ascending(queue[e]) /\ Ascending(pending[e])
    /\ \A v \in ToSet(pending[e]), w \in ToSet(queue[e]) : v.n < w.n
    /\ \A v \in Shipped : v.edge = e =>
           /\ v.n <= count[e]
           /\ \A w \in ToSet(queue[e]) : v.n < w.n
           /\ \/ shipper[e].step = "wait" /\ v \in ToSet(pending[e])
              \/ \A w \in ToSet(pending[e]) : v.n < w.n
    /\ shipper[e].step = "wait" =>
           \A h \in handlers : h.batch = pending[e] \/ ToSet(h.batch) \cap ToSet(pending[e]) = {}
    /\ sent \cap ToSet(pending[e]) = {}

\* What is left of a request comes after all that is queued.
HandlersOK ==
    /\ \A h \in handlers :
           /\ ToSet(h.left) \subseteq ToSet(h.batch) /\ Ascending(h.left)
           /\ Before(Ahead, ToSet(h.left), Live)
           /\ ToSet(h.left) \cap sent = {}
    /\ \A h, g \in handlers : h # g => ToSet(h.batch) \cap ToSet(g.batch) = {}

PipeOK ==
    /\ Sorted(stored, Live) /\ Sorted(batch, Live) /\ Sorted(ingestQueue, Live)
    /\ Before(ToSet(stored), ToSet(batch), Live)
    /\ Before(ToSet(stored), ToSet(ingestQueue), Live)
    /\ Before(ToSet(batch), ToSet(ingestQueue), Live)

TelemetryInv == TelemetryTypeOK /\ (\A e \in Edges : EdgeOK(e)) /\ HandlersOK /\ PipeOK

\* Nothing failed and nothing was stopped: every event of a node that is let in
\* is still somewhere, and no batch is too large for the ingest.
Kept == ToSet(stored) \cup dropped \cup ToSet(ingestQueue) \cup ToSet(batch)
            \cup {v \in Events : \E h \in handlers : v \in ToSet(h.left)}

QuietOK ==
    faults + stops = 0 =>
        /\ ingest = "up"
        /\ \A e \in Edges :
               /\ edge[e] = "up" /\ shipper[e].step # "gone" /\ ~ shipper[e].last
               /\ e \notin WrongToken /\ MaxBatch <= MaxRequestEvents =>
                      /\ \A v \in Events : v.edge = e /\ v.n <= count[e] =>
                             v \in Kept \cup ToSet(queue[e]) \cup ToSet(pending[e])
                      /\ shipper[e].step = "wait" => ToSet(pending[e]) \subseteq Kept

SizesOK ==
    \A e \in Edges : /\ Len(pending[e]) <= MaxBatch
                     /\ shipper[e].step = "select" => Len(pending[e]) < MaxBatch

-----------------------------------------------------------------------------
(* Types.                                                                  *)

LEMMA TypeInit == TelemetryInit => TelemetryTypeOK
BY TelemetryAssumption DEF TelemetryInit, TelemetryTypeOK, Selecting

\* The next event a node records.
LEMMA NextEvent ==
    ASSUME TelemetryTypeOK, NEW e \in Edges, Record(e)
    PROVE  /\ [edge |-> e, n |-> count[e] + 1] \in Events
           /\ count[e] \in Nat /\ count[e] + 1 <= Recorded[e]
           /\ count' = [count EXCEPT ![e] = count[e] + 1]
<1>1. count[e] \in Nat /\ count[e] < Recorded[e] /\ Recorded[e] \in Nat
  BY TelemetryAssumption DEF Record, TelemetryTypeOK
<1>2. count[e] + 1 \in 1..Recorded[e]
  BY <1>1
<1> QED BY <1>1, <1>2, EventIn DEF Record

LEMMA EndShipType ==
    ASSUME TelemetryTypeOK, NEW e \in Edges, EndShip(e)
    PROVE  /\ pending' = [pending EXCEPT ![e] = <<>>]
           /\ pending' \in [Edges -> Seq(Events)]
           /\ shipper' \in [Edges -> [step : {"select", "send", "wait", "gone"}, last : BOOLEAN]]
           /\ shipper'[e].step # "wait" /\ \A x \in Edges \ {e} : shipper'[x] = shipper[x]
           /\ shipper'[e].last = shipper[e].last
           /\ shipper'[e].step = IF shipper[e].last THEN "gone" ELSE "select"
<1>1. shipper \in [Edges -> [step : {"select", "send", "wait", "gone"}, last : BOOLEAN]]
      /\ pending \in [Edges -> Seq(Events)]
  BY DEF TelemetryTypeOK
<1>2. PICK s \in {"gone", "select"} : /\ shipper' = [shipper EXCEPT ![e].step = s]
                                     /\ s = IF shipper[e].last THEN "gone" ELSE "select"
  BY DEF EndShip
<1>3. [shipper[e] EXCEPT !.step = s] \in [step : {"select", "send", "wait", "gone"}, last : BOOLEAN]
      /\ [shipper[e] EXCEPT !.step = s].step = s
      /\ [shipper[e] EXCEPT !.step = s].last = shipper[e].last
  BY <1>1
<1>4. shipper'[e] = [shipper[e] EXCEPT !.step = s] /\ \A x \in Edges \ {e} : shipper'[x] = shipper[x]
  BY <1>1, <1>2
<1>5. shipper' \in [Edges -> [step : {"select", "send", "wait", "gone"}, last : BOOLEAN]]
  BY <1>1, <1>2, <1>3
<1>6. pending' = [pending EXCEPT ![e] = <<>>] /\ pending' \in [Edges -> Seq(Events)]
  BY <1>1 DEF EndShip
<1> QED BY <1>2, <1>3, <1>4, <1>5, <1>6

LEMMA EdgeTypeStep ==
    ASSUME TelemetryTypeOK, NEW e \in Edges,
           Record(e) \/ ShipperStep(e) \/ StopEdge(e) \/ EdgeDown(e) \/ EdgeUp(e)
    PROVE  TelemetryTypeOK'
<1> USE DEF TelemetryTypeOK
<1>1. CASE Record(e)
  <2> DEFINE event == [edge |-> e, n |-> count[e] + 1]
  <2>1. /\ event \in Events /\ count[e] + 1 \in Nat /\ count[e] + 1 <= Recorded[e]
        /\ count' = [count EXCEPT ![e] = count[e] + 1]
    <3> HIDE DEF TelemetryTypeOK
    <3>1. /\ event \in Events /\ count[e] \in Nat /\ count[e] + 1 <= Recorded[e]
          /\ count' = [count EXCEPT ![e] = count[e] + 1]
      BY <1>1, NextEvent
    <3> HIDE DEF event
    <3> QED BY <3>1
  <2>2. Append(queue[e], event) \in Seq(Events)
    BY <2>1, ToSetAppend
  <2> HIDE DEF event
  <2>3. count' \in [Edges -> Nat] /\ \A x \in Edges : count'[x] <= Recorded[x]
    BY <2>1
  <2>4. queue' \in [Edges -> Seq(Events)] /\ dropped' \subseteq Events
    <3>1. \/ queue' = [queue EXCEPT ![e] = Append(queue[e], event)] /\ dropped' = dropped
          \/ dropped' = dropped \cup {event} /\ queue' = queue
      <4> HIDE DEF TelemetryTypeOK
      <4> QED BY <1>1 DEF Record, event
    <3>2. queue \in [Edges -> Seq(Events)] /\ dropped \subseteq Events
      OBVIOUS
    <3> HIDE DEF TelemetryTypeOK
    <3> QED BY <2>1, <2>2, <3>1, <3>2
  <2>5. UNCHANGED <<edge, pending, shipper, sent, ingestVars, faults, stops>>
    BY <1>1 DEF Record
  <2> HIDE DEF TelemetryTypeOK
  <2> QED BY <2>3, <2>4, <2>5 DEF TelemetryTypeOK, ingestVars
<1>2. CASE Take(e)
  <2>1. /\ Tail(queue[e]) \in Seq(Events)
        /\ Append(pending[e], Head(queue[e])) \in Seq(Events)
    BY <1>2, ToSetTail, ToSetAppend DEF Take
  <2>2. queue' \in [Edges -> Seq(Events)] /\ pending' \in [Edges -> Seq(Events)]
    BY <1>2, <2>1 DEF Take
  <2>3. shipper' \in [Edges -> [step : {"select", "send", "wait", "gone"}, last : BOOLEAN]]
    <3>1. PICK s \in {"send", "select"} : shipper' = [shipper EXCEPT ![e].step = s]
      BY <1>2 DEF Take
    <3> QED BY <3>1
  <2>4. UNCHANGED <<count, edge, sent, ingestVars, dropped, faults, stops>>
    BY <1>2 DEF Take
  <2> HIDE DEF TelemetryTypeOK
  <2> QED BY <2>2, <2>3, <2>4 DEF TelemetryTypeOK, ingestVars
<1>3. CASE Flush(e)
  BY <1>3 DEF Flush, ingestVars
<1>4. CASE LastFlush(e)
  BY <1>4 DEF LastFlush, ingestVars
<1>5. CASE Unreachable(e)
  <2>1. EndShip(e) /\ UNCHANGED <<count, edge, queue, sent, ingestVars, dropped>>
    BY <1>5 DEF Unreachable
  <2>2. faults' \in Nat /\ stops' \in Nat
    BY <1>5 DEF Unreachable, Fault
  <2> QED BY <2>1, <2>2, EndShipType DEF ingestVars
<1>6. CASE Reject(e)
  BY <1>6, EndShipType DEF Reject, ingestVars
<1>7. CASE Accept(e)
  <2>1. [batch |-> pending[e], left |-> pending[e]] \in [batch : Seq(Events), left : Seq(Events)]
    OBVIOUS
  <2> QED BY <1>7, <2>1 DEF Accept
<1>8. CASE GiveUp(e)
  <2>1. EndShip(e) /\ UNCHANGED <<count, edge, queue, sent, ingestVars, dropped>>
    BY <1>8 DEF GiveUp
  <2>2. faults' \in Nat /\ stops' \in Nat
    <3>1. UNCHANGED stops /\ (UNCHANGED faults \/ Fault)
      BY <1>8 DEF GiveUp
    <3> QED BY <3>1 DEF Fault
  <2> QED BY <2>1, <2>2, EndShipType DEF ingestVars
<1>9. CASE StopEdge(e)
  <2>1. edge' \in [Edges -> {"up", "stopping", "down"}] /\ stops' \in Nat
    BY <1>9 DEF StopEdge
  <2>2. UNCHANGED <<count, queue, pending, shipper, sent, ingestVars, dropped, faults>>
    BY <1>9 DEF StopEdge
  <2> HIDE DEF TelemetryTypeOK
  <2> QED BY <2>1, <2>2 DEF TelemetryTypeOK, ingestVars
<1>10. CASE EdgeDown(e)
  <2>1. edge' \in [Edges -> {"up", "stopping", "down"}] /\ faults' \in Nat
    BY <1>10 DEF EdgeDown, Fault
  <2>2. queue' \in [Edges -> Seq(Events)] /\ pending' \in [Edges -> Seq(Events)]
    BY <1>10 DEF EdgeDown
  <2>3. shipper' \in [Edges -> [step : {"select", "send", "wait", "gone"}, last : BOOLEAN]]
    <3>1. Selecting \in [step : {"select", "send", "wait", "gone"}, last : BOOLEAN]
      BY DEF Selecting
    <3>2. shipper' = [shipper EXCEPT ![e] = Selecting]
      BY <1>10 DEF EdgeDown
    <3> QED BY <3>1, <3>2
  <2>4. UNCHANGED <<count, sent, ingestVars, dropped, stops>>
    BY <1>10 DEF EdgeDown
  <2> HIDE DEF TelemetryTypeOK
  <2> QED BY <2>1, <2>2, <2>3, <2>4 DEF TelemetryTypeOK, ingestVars
<1>11. CASE EdgeUp(e)
  BY <1>11 DEF EdgeUp, ingestVars
<1> QED BY <1>1, <1>2, <1>3, <1>4, <1>5, <1>6, <1>7, <1>8, <1>9, <1>10, <1>11 DEF ShipperStep

LEMMA IngestTypeStep ==
    ASSUME TelemetryTypeOK, HandlerStep \/ WriterStep \/ StopIngest \/ IngestDown \/ IngestUp
    PROVE  TelemetryTypeOK'
<1> USE DEF TelemetryTypeOK
<1>1. ASSUME NEW h \in handlers, Enqueue(h) PROVE TelemetryTypeOK'
  <2>1. /\ Head(h.left) \in Events
        /\ [batch |-> h.batch, left |-> Tail(h.left)] \in [batch : Seq(Events), left : Seq(Events)]
    BY <1>1, ToSetTail DEF Enqueue
  <2>2. Append(ingestQueue, Head(h.left)) \in Seq(Events)
    BY <2>1, ToSetAppend
  <2> QED BY <1>1, <2>1, <2>2 DEF Enqueue, edgeVars
<1>2. ASSUME NEW h \in handlers, Answer(h) PROVE TelemetryTypeOK'
  <2>1. ToSet(h.batch) \subseteq Events
    BY ToSetEvents
  <2>2. CASE \E e \in Edges : IsAnswered(e, h)
    <3> DEFINE e == CHOOSE x \in Edges : IsAnswered(x, h)
    <3>1. e \in Edges
      BY <2>2
    <3> HIDE DEF e
    <3>2. EndShip(e) /\ sent' = sent \cup ToSet(h.batch)
      BY <1>2, <2>2 DEF Answer, e
    <3> QED BY <1>2, <2>1, <3>1, <3>2, EndShipType DEF Answer
  <2>3. CASE ~ \E e \in Edges : IsAnswered(e, h)
    BY <1>2, <2>3 DEF Answer
  <2> QED BY <2>2, <2>3
<1>3. CASE WriterTake
  <2>1. /\ Tail(ingestQueue) \in Seq(Events) /\ <<Head(ingestQueue)>> \in Seq(Events)
        /\ <<Head(ingestQueue)>> # <<>>
    BY <1>3, ToSetTail DEF WriterTake
  <2> QED BY <1>3, <2>1 DEF WriterTake, edgeVars
<1>4. CASE Drain
  <2>1. ASSUME ingestQueue # <<>>
        PROVE  /\ Tail(ingestQueue) \in Seq(Events)
               /\ Append(batch, Head(ingestQueue)) \in Seq(Events)
               /\ Append(batch, Head(ingestQueue)) # <<>>
    BY <2>1, ToSetTail, ToSetAppend
  <2> QED BY <1>4, <2>1 DEF Drain, edgeVars
<1>5. CASE Write
  <2>1. /\ Tail(batch) \in Seq(Events) /\ Head(batch) \in Events
        /\ Len(batch) \in Nat /\ Len(Tail(batch)) = Len(batch) - 1
    BY <1>5, ToSetTail DEF Write
  <2>2. Len(batch) = 1 <=> Tail(batch) = <<>>
    <3>1. Len(Tail(batch)) = 0 <=> Tail(batch) = <<>>
      BY <2>1, EmptySeq
    <3> QED BY <2>1, <3>1
  <2>3. Append(stored, Head(batch)) \in Seq(Events)
    BY <2>1, ToSetAppend
  <2>4. writer' \in {"select", "write"} /\ (writer' = "write" <=> batch' # <<>>) /\ batch' = Tail(batch)
    BY <1>5, <2>2 DEF Write
  <2>5. (stored' = stored \/ stored' = Append(stored, Head(batch))) /\ faults' \in {faults, faults + 1}
    BY <1>5 DEF Write, Fault
  <2>6. stored' \in Seq(Events)
    BY <2>3, <2>5
  <2>7. faults' \in Nat
    BY <2>5
  <2>8. writer' \in {"select", "drain", "write", "gone"} /\ (writer' \in {"drain", "write"} <=> batch' # <<>>)
    BY <2>4
  <2> QED BY <1>5, <2>1, <2>4, <2>6, <2>7, <2>8 DEF Write, edgeVars
<1>6. CASE WriterEnds
  BY <1>6 DEF WriterEnds, edgeVars
<1>7. CASE StopIngest
  BY <1>7 DEF StopIngest, edgeVars
<1>8. CASE IngestDown
  BY <1>8 DEF IngestDown, Fault, edgeVars
<1>9. CASE IngestUp
  BY <1>9 DEF IngestUp, edgeVars
<1> QED BY <1>1, <1>2, <1>3, <1>4, <1>5, <1>6, <1>7, <1>8, <1>9 DEF HandlerStep, WriterStep

LEMMA TypeStep == TelemetryTypeOK /\ [TelemetryNext]_vars => TelemetryTypeOK'
<1> SUFFICES ASSUME TelemetryTypeOK, [TelemetryNext]_vars PROVE TelemetryTypeOK'
  OBVIOUS
<1>1. CASE UNCHANGED vars
  BY <1>1 DEF vars, edgeVars, ingestVars, TelemetryTypeOK
<1> QED BY <1>1, EdgeTypeStep, IngestTypeStep DEF TelemetryNext

-----------------------------------------------------------------------------
(* The nodes.                                                              *)

LEMMA EdgeKeeps ==
    ASSUME TelemetryInv, NEW e \in Edges,
           count'[e] = count[e], queue'[e] = queue[e], pending'[e] = pending[e],
           shipper'[e].step = "wait" <=> shipper[e].step = "wait",
           Shipped' \subseteq Shipped,
           \A h \in handlers' : \E g \in handlers : g.batch = h.batch,
           sent' \cap ToSet(pending[e]) = {}
    PROVE  EdgeOK(e)'
BY DEF EdgeOK, TelemetryInv

\* The batch is let go, or the node is down.
LEMMA EdgeLets ==
    ASSUME TelemetryInv, NEW e \in Edges,
           count'[e] = count[e], queue'[e] \in {queue[e], <<>>}, pending'[e] = <<>>,
           shipper'[e].step # "wait", Shipped' \subseteq Shipped
    PROVE  EdgeOK(e)'
<1>1. Ascending(<<>>)
  BY DEF Ascending
<1>2. ToSet(queue'[e]) \subseteq ToSet(queue[e]) /\ ToSet(pending'[e]) = {}
  BY ToSetEmpty
<1> QED BY <1>1, <1>2 DEF EdgeOK, TelemetryInv

LEMMA EdgeRecord ==
    ASSUME TelemetryInv, NEW e \in Edges, Record(e)
    PROVE  EdgeOK(e)'
<1> DEFINE event == [edge |-> e, n |-> count[e] + 1]
<1>1. TelemetryTypeOK /\ EdgeOK(e)
  BY DEF TelemetryInv
<1>2. /\ event \in Events /\ event.n = count[e] + 1 /\ event.edge = e
      /\ count[e] \in Nat /\ count'[e] = count[e] + 1
  BY <1>1, NextEvent DEF TelemetryTypeOK
<1>3. /\ queue[e] \in Seq(Events) /\ pending[e] \in Seq(Events)
      /\ queue'[e] = queue[e] \/ queue'[e] = Append(queue[e], event)
      /\ pending' = pending /\ shipper' = shipper /\ sent' = sent /\ handlers' = handlers
      /\ Shipped' = Shipped
  <2>1. /\ queue \in [Edges -> Seq(Events)] /\ queue[e] \in Seq(Events)
        /\ pending[e] \in Seq(Events)
    BY <1>1 DEF TelemetryTypeOK
  <2>2. \/ queue' = queue
        \/ queue' = [queue EXCEPT ![e] = Append(queue[e], event)]
    BY DEF Record
  <2>3. UNCHANGED <<pending, shipper, sent, ingestVars>>
    BY DEF Record
  <2>4. queue'[e] = queue[e] \/ queue'[e] = Append(queue[e], event)
    <3> HIDE DEF event
    <3> QED BY <2>1, <2>2
  <2>5. handlers' = handlers /\ Shipped' = Shipped
    BY <2>3 DEF ingestVars, Shipped, Ahead
  <2> QED BY <2>1, <2>3, <2>4, <2>5
<1> HIDE DEF event
<1>4. /\ ToSet(queue'[e]) \subseteq ToSet(queue[e]) \cup {event}
      /\ ToSet(queue[e]) \subseteq Events /\ ToSet(pending[e]) \subseteq Events
  <2>1. ToSet(queue[e]) \subseteq Events /\ ToSet(pending[e]) \subseteq Events
    BY <1>3, ToSetEvents
  <2>2. ToSet(Append(queue[e], event)) = ToSet(queue[e]) \cup {event}
    BY <1>2, <1>3, ToSetAppend
  <2> QED BY <1>3, <2>1, <2>2
<1>5. \A v \in ToSet(queue[e]) \cup ToSet(pending[e]) : v.n \in Nat /\ v.n < count[e] + 1
  BY <1>1, <1>2, <1>4, EventType DEF EdgeOK
<1>6. Shipped \subseteq Events
  <2>1. /\ ToSet(stored) \subseteq Events /\ ToSet(batch) \subseteq Events
        /\ ToSet(ingestQueue) \subseteq Events /\ sent \subseteq Events
    BY <1>1, ToSetEvents DEF TelemetryTypeOK
  <2> QED BY <2>1 DEF Shipped, Ahead
<1>7. \A v \in Shipped : v.edge = e => v.n \in Nat /\ v.n < count[e] + 1
  BY <1>1, <1>2, <1>6, EventType DEF EdgeOK
<1>8. Ascending(queue'[e])
  BY <1>1, <1>2, <1>3, <1>5, AscendingAppend DEF EdgeOK
<1>9. \A v \in ToSet(queue'[e]) \cup ToSet(pending[e]) : v.edge = e /\ v.n <= count'[e]
  BY <1>1, <1>2, <1>4, <1>5 DEF EdgeOK
<1>10. \A v \in Shipped : v.edge = e => v.n <= count'[e]
  BY <1>2, <1>7
<1>11. /\ \A v \in ToSet(pending[e]), w \in ToSet(queue'[e]) : v.n < w.n
       /\ \A v \in Shipped : v.edge = e => \A w \in ToSet(queue'[e]) : v.n < w.n
  BY <1>1, <1>2, <1>4, <1>5, <1>7 DEF EdgeOK
<1> QED BY <1>1, <1>3, <1>8, <1>9, <1>10, <1>11 DEF EdgeOK

LEMMA EdgeTake ==
    ASSUME TelemetryInv, NEW e \in Edges, Take(e)
    PROVE  EdgeOK(e)'
<1>1. TelemetryTypeOK /\ EdgeOK(e)
  BY DEF TelemetryInv
<1>2. /\ queue[e] \in Seq(Events) /\ pending[e] \in Seq(Events) /\ queue[e] # <<>>
      /\ queue'[e] = Tail(queue[e]) /\ pending'[e] = Append(pending[e], Head(queue[e]))
      /\ shipper[e].step = "select" /\ shipper'[e].step \in {"select", "send"}
      /\ count' = count /\ sent' = sent /\ handlers' = handlers /\ Shipped' = Shipped
  BY <1>1 DEF Take, AtSelect, Selecting, TelemetryTypeOK, ingestVars, Shipped, Ahead
<1>3. /\ Head(queue[e]) \in Events /\ Tail(queue[e]) \in Seq(Events)
      /\ ToSet(queue[e]) = {Head(queue[e])} \cup ToSet(Tail(queue[e]))
      /\ ToSet(pending'[e]) = ToSet(pending[e]) \cup {Head(queue[e])}
      /\ Ascending(Tail(queue[e]))
      /\ \A w \in ToSet(Tail(queue[e])) : Head(queue[e]).n < w.n
  BY <1>1, <1>2, ToSetTail, ToSetAppend, AscendingTail DEF EdgeOK
<1>4. Ascending(pending'[e])
  BY <1>1, <1>2, <1>3, AscendingAppend DEF EdgeOK
<1>5. sent \subseteq Shipped
  BY DEF Shipped
<1>6. sent \cap ToSet(pending'[e]) = {}
  <2>1. SUFFICES Head(queue[e]) \notin sent
    BY <1>1, <1>3 DEF EdgeOK
  <2>2. Head(queue[e]).edge = e /\ Head(queue[e]).n \in Nat
    BY <1>1, <1>3, EventType DEF EdgeOK
  <2> QED BY <1>1, <1>3, <1>5, <2>2 DEF EdgeOK
<1> QED BY <1>1, <1>2, <1>3, <1>4, <1>6 DEF EdgeOK

LEMMA ShippedBatch ==
    ASSUME TelemetryTypeOK
    PROVE  \A h \in handlers : ToSet(h.batch) \subseteq Shipped
BY ToSetEvents DEF TelemetryTypeOK, Shipped

LEMMA AcceptShips ==
    ASSUME TelemetryInv, NEW e \in Edges, Accept(e)
    PROVE  Shipped' = Shipped \cup ToSet(pending[e])
<1>1. ToSet(pending[e]) \subseteq Events
  BY ToSetEvents DEF TelemetryInv, TelemetryTypeOK
<1> DEFINE new == [batch |-> pending[e], left |-> pending[e]]
           given == {v \in Events : \E h \in handlers : v \in ToSet(h.batch)}
<1>2. handlers' = handlers \cup {new} /\ new.batch = pending[e] /\ Ahead' = Ahead /\ sent' = sent
  BY DEF Accept, Ahead
<1>3. given' = given \cup ToSet(pending[e])
  <2> HIDE DEF new
  <2> QED BY <1>1, <1>2
<1>4. Shipped = Ahead \cup given \cup sent /\ Shipped' = Ahead' \cup given' \cup sent'
  BY DEF Shipped
<1> HIDE DEF given
<1> QED BY <1>2, <1>3, <1>4

\* A batch that is not waited for is not shipped.
LEMMA NotShippedYet ==
    ASSUME TelemetryInv, NEW e \in Edges, shipper[e].step # "wait"
    PROVE  /\ Shipped \cap ToSet(pending[e]) = {}
           /\ Before(Shipped, ToSet(pending[e]), Live)
<1>1. TelemetryTypeOK /\ EdgeOK(e)
  BY DEF TelemetryInv
<1>2. ASSUME NEW v \in Shipped, NEW w \in ToSet(pending[e])
      PROVE  v # w /\ MayPrecede(v, w, Live)
  <2>1. w \in Events /\ w.n \in Nat /\ w.edge = e
    BY <1>1, ToSetEvents, EventType DEF EdgeOK, TelemetryTypeOK
  <2>2. v.edge = e => v.n < w.n
    BY <1>1, <1>2 DEF EdgeOK
  <2> QED BY <2>1, <2>2 DEF MayPrecede
<1> QED BY <1>2, Zenon DEF Before

LEMMA EdgeAccept ==
    ASSUME TelemetryInv, NEW e \in Edges, Accept(e)
    PROVE  EdgeOK(e)'
<1>1. TelemetryTypeOK /\ EdgeOK(e)
  BY DEF TelemetryInv
<1>2. /\ shipper[e].step = "send" /\ shipper'[e].step = "wait"
      /\ count' = count /\ sent' = sent /\ queue' = queue /\ pending' = pending
      /\ handlers' = handlers \cup {[batch |-> pending[e], left |-> pending[e]]}
      /\ pending[e] \in Seq(Events)
      /\ \A x \in Edges : x # e => shipper'[x] = shipper[x]
  BY <1>1 DEF Accept, TelemetryTypeOK
<1>3. \A h \in handlers : ToSet(h.batch) \cap ToSet(pending[e]) = {}
  BY <1>1, <1>2, NotShippedYet, ShippedBatch
<1>6. Shipped' = Shipped \cup ToSet(pending[e])
  BY AcceptShips
<1>4. \A h \in handlers' : h.batch = pending[e] \/ ToSet(h.batch) \cap ToSet(pending[e]) = {}
  BY <1>2, <1>3
<1>5. \A v \in Shipped' : v.edge = e =>
          /\ v.n <= count[e] /\ \A w \in ToSet(queue[e]) : v.n < w.n
          /\ v \in ToSet(pending[e]) \/ \A w \in ToSet(pending[e]) : v.n < w.n
  BY <1>1, <1>2, <1>6 DEF EdgeOK
<1> QED BY <1>1, <1>2, <1>4, <1>5 DEF EdgeOK

\* A step of a node leaves the others as they are.
LEMMA OtherEdges ==
    ASSUME TelemetryInv, NEW e \in Edges, NEW x \in Edges, x # e,
           Record(e) \/ ShipperStep(e) \/ StopEdge(e) \/ EdgeDown(e) \/ EdgeUp(e)
    PROVE  EdgeOK(x)'
<1>1. TelemetryTypeOK /\ EdgeOK(x) /\ EdgeOK(e)
  BY DEF TelemetryInv
<1>2. count'[x] = count[x] /\ queue'[x] = queue[x] /\ pending'[x] = pending[x]
      /\ shipper'[x] = shipper[x] /\ sent' = sent
  BY <1>1 DEF Record, ShipperStep, Take, Flush, LastFlush, Unreachable, Reject, Accept, GiveUp,
              EndShip, StopEdge, EdgeDown, EdgeUp, TelemetryTypeOK
<1>3. \/ Shipped' = Shipped /\ handlers' = handlers
      \/ /\ Shipped' = Shipped \cup ToSet(pending[e])
         /\ handlers' = handlers \cup {[batch |-> pending[e], left |-> pending[e]]}
  <2>1. CASE Accept(e)
    BY <2>1, AcceptShips DEF Accept
  <2>2. CASE ~ Accept(e)
    BY <2>2 DEF Record, ShipperStep, Take, Flush, LastFlush, Unreachable, Reject, GiveUp,
                StopEdge, EdgeDown, EdgeUp, ingestVars, Shipped, Ahead
  <2> QED BY <2>1, <2>2
<1>4. \A v \in ToSet(pending[e]) : v.edge # x
  BY <1>1 DEF EdgeOK
<1>5. \A v \in ToSet(pending[x]) : v.edge = x
  BY <1>1 DEF EdgeOK
<1>6. ToSet(pending[e]) \cap ToSet(pending[x]) = {}
  BY <1>4, <1>5
<1> QED BY <1>1, <1>2, <1>3, <1>4, <1>6 DEF EdgeOK

LEMMA EdgesStep ==
    ASSUME TelemetryInv, NEW e \in Edges, NEW x \in Edges,
           Record(e) \/ ShipperStep(e) \/ StopEdge(e) \/ EdgeDown(e) \/ EdgeUp(e)
    PROVE  EdgeOK(x)'
<1>1. TelemetryTypeOK /\ EdgeOK(e) /\ sent \cap ToSet(pending[e]) = {}
  BY DEF TelemetryInv, EdgeOK
<1> SUFFICES ASSUME x = e PROVE EdgeOK(e)'
  BY OtherEdges
<1>2. CASE Flush(e) \/ LastFlush(e) \/ StopEdge(e) \/ EdgeUp(e)
  <2>1. /\ count' = count /\ queue' = queue /\ pending' = pending /\ sent' = sent
        /\ handlers' = handlers /\ Shipped' = Shipped
        /\ shipper'[e].step = "wait" <=> shipper[e].step = "wait"
    BY <1>1, <1>2 DEF Flush, LastFlush, StopEdge, EdgeUp, AtSelect, Selecting, TelemetryTypeOK,
                      ingestVars, Shipped, Ahead
  <2> QED BY <1>1, <2>1, EdgeKeeps
<1>3. CASE Unreachable(e) \/ Reject(e) \/ GiveUp(e) \/ EdgeDown(e)
  <2>1. /\ count' = count /\ queue'[e] \in {queue[e], <<>>} /\ pending'[e] = <<>>
        /\ shipper'[e].step # "wait" /\ Shipped' = Shipped
    BY <1>1, <1>3 DEF Unreachable, Reject, GiveUp, EdgeDown, EndShip, Selecting, TelemetryTypeOK,
                      ingestVars, Shipped, Ahead
  <2> QED BY <2>1, EdgeLets
<1> QED BY <1>2, <1>3, EdgeRecord, EdgeTake, EdgeAccept DEF ShipperStep

\* What may yet be counted as sent only gets less.
LEMMA LiveEdges ==
    ASSUME TelemetryInv, NEW e \in Edges,
           Record(e) \/ ShipperStep(e) \/ StopEdge(e) \/ EdgeDown(e) \/ EdgeUp(e)
    PROVE  Live' \subseteq Live
<1>1. TelemetryTypeOK
  BY DEF TelemetryInv
<1>2. \A x \in Edges \ {e} : /\ count'[x] = count[x] /\ queue'[x] = queue[x]
                            /\ pending'[x] = pending[x]
  BY <1>1 DEF Record, ShipperStep, Take, Flush, LastFlush, Unreachable, Reject, Accept, GiveUp,
              EndShip, StopEdge, EdgeDown, EdgeUp, TelemetryTypeOK
<1>3. sent' = sent
  BY DEF Record, ShipperStep, Take, Flush, LastFlush, Unreachable, Reject, Accept, GiveUp,
         StopEdge, EdgeDown, EdgeUp
<1>4. ASSUME NEW v \in Events, v.edge = e, v \in Live' PROVE v \in Live
  <2>1. CASE Record(e)
    <3> DEFINE event == [edge |-> e, n |-> count[e] + 1]
    <3>1. /\ event \in Events /\ event.n = count[e] + 1 /\ event.edge = e
          /\ count[e] \in Nat /\ count'[e] = count[e] + 1
      BY <1>1, <2>1, NextEvent DEF TelemetryTypeOK
    <3>2. /\ queue[e] \in Seq(Events) /\ pending' = pending
          /\ queue'[e] = queue[e] \/ queue'[e] = Append(queue[e], event)
      BY <1>1, <2>1 DEF Record, TelemetryTypeOK
    <3> HIDE DEF event
    <3>3. ToSet(queue'[e]) \subseteq ToSet(queue[e]) \cup {event}
      BY <3>1, <3>2, ToSetAppend
    <3>4. event \in Live
      BY <3>1 DEF Live
    <3>5. v.n > count'[e] => v.n > count[e]
      BY <3>1, EventType
    <3> QED BY <1>3, <1>4, <3>2, <3>3, <3>4, <3>5 DEF Live
  <2>2. CASE Take(e)
    <3>1. /\ queue[e] \in Seq(Events) /\ pending[e] \in Seq(Events) /\ queue[e] # <<>>
          /\ queue'[e] = Tail(queue[e]) /\ pending'[e] = Append(pending[e], Head(queue[e]))
          /\ count' = count
      BY <1>1, <2>2 DEF Take, TelemetryTypeOK
    <3>2. /\ ToSet(queue[e]) = {Head(queue[e])} \cup ToSet(Tail(queue[e]))
          /\ ToSet(pending'[e]) = ToSet(pending[e]) \cup {Head(queue[e])}
      BY <3>1, ToSetTail, ToSetAppend
    <3> QED BY <1>3, <1>4, <3>1, <3>2 DEF Live
  <2>3. CASE ~ Record(e) /\ ~ Take(e)
    <3>1. /\ count' = count /\ queue'[e] \in {queue[e], <<>>} /\ pending'[e] \in {pending[e], <<>>}
      BY <1>1, <2>3 DEF ShipperStep, Flush, LastFlush, Unreachable, Reject, Accept, GiveUp,
                        EndShip, StopEdge, EdgeDown, EdgeUp, TelemetryTypeOK
    <3> QED BY <1>3, <1>4, <3>1, ToSetEmpty DEF Live
  <2> QED BY <2>1, <2>2, <2>3
<1>5. ASSUME NEW v \in Events, v.edge # e, v \in Live' PROVE v \in Live
  <2>1. v.edge \in Edges \ {e}
    BY <1>5, EventType
  <2> QED BY <1>2, <1>3, <1>5, <2>1 DEF Live
<1> QED BY <1>4, <1>5 DEF Live

\* The order of the ingest does not depend on the nodes but for what may yet
\* be counted as sent.
LEMMA PipeFewer ==
    ASSUME TelemetryInv, Live' \subseteq Live, UNCHANGED <<ingestQueue, batch, stored>>
    PROVE  PipeOK'
BY SortedFewer DEF TelemetryInv, PipeOK

LEMMA HandlersFewer ==
    ASSUME TelemetryInv, Live' \subseteq Live, Ahead' \subseteq Ahead,
           handlers' \subseteq handlers, sent' = sent
    PROVE  HandlersOK'
<1>1. ASSUME NEW h \in handlers' PROVE Before(Ahead', ToSet(h.left), Live')
  <2>1. Before(Ahead, ToSet(h.left), Live)
    BY <1>1 DEF TelemetryInv, HandlersOK
  <2>2. Before(Ahead', ToSet(h.left), Live)
    BY <2>1 DEF Before
  <2> QED BY <2>2, SortedFewer
<1> QED BY <1>1 DEF TelemetryInv, HandlersOK

LEMMA HandlersEdges ==
    ASSUME TelemetryInv, NEW e \in Edges,
           Record(e) \/ ShipperStep(e) \/ StopEdge(e) \/ EdgeDown(e) \/ EdgeUp(e)
    PROVE  HandlersOK'
<1>1. Live' \subseteq Live
  BY LiveEdges
<1>2. UNCHANGED <<ingestQueue, batch, stored, sent>> /\ Ahead' = Ahead
  BY DEF Record, ShipperStep, Take, Flush, LastFlush, Unreachable, Reject, Accept, GiveUp,
         StopEdge, EdgeDown, EdgeUp, ingestVars, Ahead
<1>3. CASE handlers' = handlers
  BY <1>1, <1>2, <1>3, HandlersFewer
<1>4. CASE Accept(e)
  <2> DEFINE new == [batch |-> pending[e], left |-> pending[e]]
  <2>1. TelemetryTypeOK /\ EdgeOK(e) /\ HandlersOK
    BY DEF TelemetryInv
  <2>2. shipper[e].step # "wait" /\ handlers' = handlers \cup {new}
    BY <1>4 DEF Accept
  <2>3. /\ Shipped \cap ToSet(pending[e]) = {}
        /\ Before(Shipped, ToSet(pending[e]), Live)
    BY <2>2, NotShippedYet
  <2>4. /\ Ahead \subseteq Shipped /\ sent \subseteq Shipped
        /\ \A h \in handlers : ToSet(h.batch) \subseteq Shipped
    BY <2>1, ShippedBatch DEF Shipped
  <2>5. Before(Ahead, ToSet(pending[e]), Live)
    BY <2>3, <2>4 DEF Before
  <2>6. \A h \in handlers' : Before(Ahead', ToSet(h.left), Live')
    BY <1>1, <1>2, <2>1, <2>2, <2>5, SortedFewer DEF HandlersOK
  <2>7. \A h \in handlers' : /\ ToSet(h.left) \subseteq ToSet(h.batch) /\ Ascending(h.left)
                             /\ ToSet(h.left) \cap sent' = {}
    BY <1>2, <2>1, <2>2, <2>3, <2>4 DEF HandlersOK, EdgeOK
  <2>8. \A h, g \in handlers' : h # g => ToSet(h.batch) \cap ToSet(g.batch) = {}
    BY <2>1, <2>2, <2>3, <2>4 DEF HandlersOK
  <2> QED BY <2>6, <2>7, <2>8 DEF HandlersOK
<1>5. handlers' = handlers \/ Accept(e)
  BY DEF Record, ShipperStep, Take, Flush, LastFlush, Unreachable, Reject, GiveUp,
         StopEdge, EdgeDown, EdgeUp, ingestVars
<1> QED BY <1>3, <1>4, <1>5

-----------------------------------------------------------------------------
(* The ingest.                                                             *)

LEMMA EnqueueStep ==
    ASSUME TelemetryInv, NEW h \in handlers, Enqueue(h)
    PROVE  (\A e \in Edges : EdgeOK(e)') /\ HandlersOK' /\ PipeOK'
<1> DEFINE rest == [batch |-> h.batch, left |-> Tail(h.left)]
<1>1. TelemetryTypeOK /\ HandlersOK /\ PipeOK
  BY DEF TelemetryInv
<1>2. /\ UNCHANGED <<count, queue, pending, shipper, sent, batch, stored>>
      /\ handlers' = (handlers \ {h}) \cup {rest}
      /\ \/ ingestQueue' = Append(ingestQueue, Head(h.left))
         \/ ingestQueue' = ingestQueue
      /\ h.left # <<>> /\ h.left \in Seq(Events) /\ ingestQueue \in Seq(Events)
  BY <1>1 DEF Enqueue, edgeVars, TelemetryTypeOK
<1>3. /\ Head(h.left) \in Events /\ Tail(h.left) \in Seq(Events)
      /\ ToSet(h.left) = {Head(h.left)} \cup ToSet(Tail(h.left))
      /\ Ascending(Tail(h.left)) /\ \A w \in ToSet(Tail(h.left)) : Head(h.left).n < w.n
      /\ ToSet(Tail(h.left)) \subseteq Events
  BY <1>1, <1>2, ToSetTail, AscendingTail, ToSetEvents DEF HandlersOK
<1>4. ToSet(ingestQueue') \subseteq ToSet(ingestQueue) \cup {Head(h.left)}
  BY <1>2, <1>3, ToSetAppend
<1>5. Live' = Live
  BY <1>2 DEF Live
<1>6. Head(h.left) \in ToSet(h.batch) /\ Ahead' \subseteq Ahead \cup {Head(h.left)}
  BY <1>1, <1>2, <1>3, <1>4 DEF HandlersOK, Ahead
<1>7. Shipped' \subseteq Shipped
  <2>1. rest.batch = h.batch
    OBVIOUS
  <2> HIDE DEF rest
  <2> QED BY <1>2, <1>3, <1>6, <2>1 DEF Shipped
<1>8. \A g \in handlers' : \E f \in handlers : f.batch = g.batch
  BY <1>2
<1>9. \A e \in Edges : EdgeOK(e)'
  BY <1>2, <1>7, <1>8, EdgeKeeps DEF TelemetryInv, EdgeOK
<1>10. /\ Before(ToSet(stored), {Head(h.left)}, Live)
       /\ Before(ToSet(batch), {Head(h.left)}, Live)
       /\ Before(ToSet(ingestQueue), {Head(h.left)}, Live)
  BY <1>1, <1>3 DEF HandlersOK, Before, Ahead
<1>11. PipeOK'
  <2>1. /\ Sorted(ingestQueue', Live)
        /\ Before(ToSet(stored), ToSet(ingestQueue'), Live)
        /\ Before(ToSet(batch), ToSet(ingestQueue'), Live)
    <3>1. Sorted(ingestQueue', Live)
      BY <1>1, <1>2, <1>3, <1>10, SortedAppend DEF PipeOK
    <3>2. /\ Before(ToSet(stored), ToSet(ingestQueue'), Live)
          /\ Before(ToSet(batch), ToSet(ingestQueue'), Live)
      BY <1>1, <1>4, <1>10 DEF PipeOK, Before
    <3> QED BY <3>1, <3>2
  <2> QED BY <1>1, <1>2, <1>5, <2>1 DEF PipeOK
<1>15. rest.batch = h.batch /\ rest.left = Tail(h.left)
  OBVIOUS
<1>16. \A g \in handlers' : (g \in handlers /\ g # h) \/ g = rest
  BY <1>2
<1> HIDE DEF rest
<1>12. \A g \in handlers' : /\ ToSet(g.left) \subseteq ToSet(g.batch) /\ Ascending(g.left)
                            /\ ToSet(g.left) \cap sent' = {}
  BY <1>1, <1>2, <1>3, <1>15, <1>16 DEF HandlersOK
<1>13. \A g, f \in handlers' : g # f => ToSet(g.batch) \cap ToSet(f.batch) = {}
  BY <1>1, <1>15, <1>16 DEF HandlersOK
<1>14. ASSUME NEW g \in handlers' PROVE Before(Ahead', ToSet(g.left), Live')
  <2>1. Before({Head(h.left)}, ToSet(Tail(h.left)), Live)
    <3>1. \A w \in ToSet(Tail(h.left)) : Head(h.left) # w
      BY <1>3, EventType
    <3> QED BY <1>3, <3>1 DEF Before, MayPrecede
  <2>2. CASE g = rest
    BY <1>1, <1>3, <1>5, <1>6, <1>15, <2>1, <2>2 DEF HandlersOK, Before
  <2>3. CASE g \in handlers /\ g # h
    <3>1. ASSUME NEW w \in ToSet(g.left) PROVE MayPrecede(Head(h.left), w, Live)
      <4>1. w \in ToSet(g.batch) /\ w \in Events /\ w \notin sent
        BY <1>1, <2>3, <3>1, ToSetEvents DEF HandlersOK, TelemetryTypeOK
      <4>2. Head(h.left) # w
        BY <1>1, <1>6, <2>3, <4>1 DEF HandlersOK
      <4>3. ASSUME Head(h.left) \in Live, w \in Live, Head(h.left).edge = w.edge PROVE FALSE
        <5> DEFINE e == w.edge
        <5>1. e \in Edges /\ EdgeOK(e) /\ w.n \in Nat /\ Head(h.left).n \in Nat
          BY <1>3, <4>1, EventType DEF TelemetryInv
        <5>2. /\ w \in Shipped /\ Head(h.left) \in Shipped
              /\ Head(h.left) \in ToSet(h.left) /\ Head(h.left) \notin sent
          BY <1>1, <1>3, <1>6, <2>3, <4>1, ShippedBatch DEF HandlersOK
        <5>3. count[e] \in Nat /\ w.n <= count[e] /\ Head(h.left).n <= count[e]
          BY <1>1, <4>3, <5>1, <5>2 DEF EdgeOK, TelemetryTypeOK
        <5>4. w \notin ToSet(queue[e]) /\ Head(h.left) \notin ToSet(queue[e])
          BY <4>3, <5>1, <5>2 DEF EdgeOK
        <5>5. w \in ToSet(pending[e]) /\ Head(h.left) \in ToSet(pending[e])
          BY <4>1, <4>3, <5>1, <5>2, <5>3, <5>4 DEF Live
        <5>6. shipper[e].step = "wait"
          BY <5>1, <5>2, <5>5 DEF EdgeOK
        <5>7. g.batch = pending[e] /\ h.batch = pending[e]
          BY <1>6, <2>3, <4>1, <5>1, <5>5, <5>6 DEF EdgeOK
        <5> QED BY <1>1, <1>6, <2>3, <5>7 DEF HandlersOK
      <4> QED BY <4>2, <4>3 DEF MayPrecede
    <3>2. Before(Ahead, ToSet(g.left), Live)
      BY <1>1, <2>3 DEF HandlersOK
    <3> QED BY <1>5, <1>6, <3>1, <3>2 DEF Before
  <2> QED BY <1>14, <1>16, <2>2, <2>3
<1> QED BY <1>9, <1>11, <1>12, <1>13, <1>14 DEF HandlersOK

LEMMA AnswerStep ==
    ASSUME TelemetryInv, NEW h \in handlers, Answer(h)
    PROVE  (\A e \in Edges : EdgeOK(e)') /\ HandlersOK' /\ PipeOK'
<1>1. TelemetryTypeOK /\ HandlersOK /\ PipeOK
  BY DEF TelemetryInv
<1>2. /\ UNCHANGED <<count, queue, ingestQueue, batch, stored>>
      /\ handlers' = handlers \ {h} /\ Ahead' = Ahead
  BY DEF Answer, Ahead
<1>3. CASE \E x \in Edges : IsAnswered(x, h)
  <2> DEFINE e == CHOOSE x \in Edges : IsAnswered(x, h)
  <2>1. e \in Edges /\ IsAnswered(e, h)
    BY <1>3
  <2> HIDE DEF e
  <2>2. EndShip(e) /\ sent' = sent \cup ToSet(h.batch)
    BY <1>3 DEF Answer, e
  <2>3. /\ pending' = [pending EXCEPT ![e] = <<>>] /\ shipper'[e].step # "wait"
        /\ \A x \in Edges \ {e} : shipper'[x] = shipper[x]
        /\ h.batch = pending[e] /\ EdgeOK(e)
    BY <1>1, <2>1, <2>2, EndShipType DEF IsAnswered, TelemetryInv
  <2>4. Shipped' \subseteq Shipped
    BY <1>1, <1>2, <2>2, ShippedBatch DEF Shipped
  <2>5. Live' \subseteq Live
    <3>1. \A v \in ToSet(h.batch) : v.edge = e
      BY <2>3 DEF EdgeOK
    <3>2. \A x \in Edges : ToSet(pending'[x]) \subseteq ToSet(pending[x])
      BY <1>1, <2>1, <2>3, ToSetEmpty DEF TelemetryTypeOK
    <3> QED BY <1>2, <2>2, <2>3, <3>1, <3>2, EventType DEF Live
  <2>6. ASSUME NEW x \in Edges PROVE EdgeOK(x)'
    <3>1. CASE x = e
      BY <1>1, <1>2, <2>1, <2>3, <2>4, <3>1, EdgeLets DEF TelemetryTypeOK
    <3>2. CASE x # e
      <4>1. pending'[x] = pending[x] /\ shipper'[x] = shipper[x] /\ EdgeOK(x)
        BY <1>1, <2>1, <2>3, <3>2 DEF TelemetryTypeOK, TelemetryInv
      <4>2. \A v \in ToSet(pending[x]) : v.edge = x /\ v \notin sent
        BY <4>1 DEF EdgeOK
      <4>3. \A v \in ToSet(h.batch) : v.edge = e
        BY <2>3 DEF EdgeOK
      <4>4. sent' \cap ToSet(pending[x]) = {}
        BY <2>2, <3>2, <4>2, <4>3
      <4> QED BY <1>2, <2>4, <4>1, <4>4, EdgeKeeps
    <3> QED BY <3>1, <3>2
  <2>7. PipeOK'
    BY <1>2, <2>5, PipeFewer
  <2>8. HandlersOK'
    <3>1. \A g \in handlers' : Before(Ahead', ToSet(g.left), Live')
      BY <1>1, <1>2, <2>5, SortedFewer DEF HandlersOK
    <3>2. \A g \in handlers' : ToSet(g.left) \cap sent' = {}
      <4> SUFFICES ASSUME NEW g \in handlers' PROVE ToSet(g.left) \cap sent' = {}
        OBVIOUS
      <4>1. g \in handlers /\ g # h
        BY <1>2
      <4>2. ToSet(g.batch) \cap ToSet(h.batch) = {} /\ ToSet(g.left) \subseteq ToSet(g.batch)
            /\ ToSet(g.left) \cap sent = {}
        BY <1>1, <4>1 DEF HandlersOK
      <4> QED BY <2>2, <4>2
    <3> QED BY <1>1, <1>2, <3>1, <3>2 DEF HandlersOK
  <2> QED BY <2>6, <2>7, <2>8
<1>4. CASE ~ \E x \in Edges : IsAnswered(x, h)
  <2>1. UNCHANGED <<shipper, pending, sent>>
    BY <1>4 DEF Answer
  <2>2. Shipped' \subseteq Shipped /\ Live' = Live
    BY <1>2, <2>1 DEF Shipped, Live
  <2>3. \A e \in Edges : EdgeOK(e)'
    BY <1>2, <2>1, <2>2, EdgeKeeps DEF TelemetryInv, EdgeOK
  <2> QED BY <1>2, <2>1, <2>2, <2>3, PipeFewer, HandlersFewer
<1> QED BY <1>3, <1>4

\* The writer, and the process: the nodes, the requests and the order are as
\* they were.
LEMMA WriterStepOK ==
    ASSUME TelemetryInv, WriterStep \/ StopIngest \/ IngestDown \/ IngestUp
    PROVE  (\A e \in Edges : EdgeOK(e)') /\ HandlersOK' /\ PipeOK'
<1>1. TelemetryTypeOK /\ HandlersOK /\ PipeOK
  BY DEF TelemetryInv
<1>2. UNCHANGED edgeVars /\ handlers' \subseteq handlers /\ Live' = Live
  BY DEF WriterStep, WriterTake, Drain, Write, WriterEnds, StopIngest, IngestDown, IngestUp,
         edgeVars, Live
<1>3. PipeOK' /\ Ahead' \subseteq Ahead
  <2> USE DEF PipeOK
  <2>1. CASE WriterTake
    <3>1. /\ ingestQueue # <<>> /\ batch' = <<Head(ingestQueue)>>
          /\ ingestQueue' = Tail(ingestQueue) /\ stored' = stored
          /\ ingestQueue \in Seq(Events)
      BY <1>1, <2>1 DEF WriterTake, TelemetryTypeOK
    <3>2. /\ Head(ingestQueue) \in Events
          /\ ToSet(ingestQueue) = {Head(ingestQueue)} \cup ToSet(Tail(ingestQueue))
          /\ Sorted(Tail(ingestQueue), Live)
          /\ Before({Head(ingestQueue)}, ToSet(Tail(ingestQueue)), Live)
      BY <1>1, <3>1, ToSetTail, SortedTail
    <3>3. ToSet(batch') = {Head(ingestQueue)} /\ Sorted(batch', Live)
      BY <3>1 DEF ToSet, Sorted
    <3>4. /\ Before(ToSet(stored), {Head(ingestQueue)}, Live)
          /\ Before(ToSet(stored), ToSet(Tail(ingestQueue)), Live)
      BY <1>1, <3>2 DEF Before
    <3> QED BY <1>1, <1>2, <3>1, <3>2, <3>3, <3>4 DEF Ahead
  <2>2. CASE Drain /\ ingestQueue' # ingestQueue
    <3>1. /\ ingestQueue # <<>> /\ batch' = Append(batch, Head(ingestQueue))
          /\ ingestQueue' = Tail(ingestQueue) /\ stored' = stored
          /\ ingestQueue \in Seq(Events) /\ batch \in Seq(Events)
      BY <1>1, <2>2 DEF Drain, TelemetryTypeOK
    <3>2. /\ Head(ingestQueue) \in Events
          /\ ToSet(ingestQueue) = {Head(ingestQueue)} \cup ToSet(Tail(ingestQueue))
          /\ Sorted(Tail(ingestQueue), Live)
          /\ Before({Head(ingestQueue)}, ToSet(Tail(ingestQueue)), Live)
      BY <1>1, <3>1, ToSetTail, SortedTail
    <3>3. /\ Before(ToSet(stored), {Head(ingestQueue)}, Live)
          /\ Before(ToSet(stored), ToSet(Tail(ingestQueue)), Live)
          /\ Before(ToSet(batch), {Head(ingestQueue)}, Live)
          /\ Before(ToSet(batch), ToSet(Tail(ingestQueue)), Live)
      BY <1>1, <3>2 DEF Before
    <3>4. ToSet(batch') = ToSet(batch) \cup {Head(ingestQueue)} /\ Sorted(batch', Live)
      BY <1>1, <3>1, <3>2, <3>3, ToSetAppend, SortedAppend
    <3>5. /\ Before(ToSet(stored), ToSet(batch'), Live)
          /\ Before(ToSet(batch'), ToSet(Tail(ingestQueue)), Live)
      BY <1>1, <3>2, <3>3, <3>4 DEF Before
    <3> QED BY <1>1, <1>2, <3>1, <3>2, <3>3, <3>4, <3>5 DEF Ahead
  <2>3. CASE Write
    <3>1. /\ batch \in Seq(Events) /\ stored \in Seq(Events) /\ batch # <<>>
          /\ batch' = Tail(batch) /\ ingestQueue' = ingestQueue
          /\ stored' = stored \/ stored' = Append(stored, Head(batch))
      BY <1>1, <2>3 DEF Write, TelemetryTypeOK
    <3>2. /\ Head(batch) \in Events
          /\ ToSet(batch) = {Head(batch)} \cup ToSet(Tail(batch))
          /\ Sorted(Tail(batch), Live) /\ Before({Head(batch)}, ToSet(Tail(batch)), Live)
      BY <1>1, <3>1, ToSetTail, SortedTail
    <3>3. /\ Before(ToSet(stored), {Head(batch)}, Live)
          /\ Before(ToSet(stored), ToSet(Tail(batch)), Live)
          /\ Before({Head(batch)}, ToSet(ingestQueue), Live)
          /\ Before(ToSet(Tail(batch)), ToSet(ingestQueue), Live)
      BY <1>1, <3>2 DEF Before
    <3>4. ToSet(stored') \subseteq ToSet(stored) \cup {Head(batch)} /\ Sorted(stored', Live)
      <4>1. Sorted(stored, Live)
        BY <1>1
      <4>2. CASE stored' = stored
        BY <4>1, <4>2
      <4>3. CASE stored' = Append(stored, Head(batch))
        <5>1. ToSet(stored') = ToSet(stored) \cup {Head(batch)}
          BY <3>1, <3>2, <4>3, ToSetAppend
        <5>2. Sorted(stored', Live)
          BY <3>1, <3>2, <3>3, <4>1, <4>3, SortedAppend
        <5> QED BY <5>1, <5>2
      <4> QED BY <3>1, <4>2, <4>3
    <3>5. /\ Before(ToSet(stored'), ToSet(Tail(batch)), Live)
          /\ Before(ToSet(stored'), ToSet(ingestQueue), Live)
      BY <1>1, <3>2, <3>3, <3>4 DEF Before
    <3> QED BY <1>1, <1>2, <3>1, <3>2, <3>3, <3>4, <3>5 DEF Ahead
  <2>4. CASE IngestDown
    <3>1. Sorted(<<>>, Live)
      BY DEF Sorted
    <3>2. ToSet(ingestQueue') = {} /\ ToSet(batch') = {} /\ stored' = stored
      BY <2>4, ToSetEmpty DEF IngestDown
    <3>3. Before(ToSet(stored), {}, Live) /\ Before({}, {}, Live)
      BY DEF Before
    <3> QED BY <1>1, <1>2, <2>4, <3>1, <3>2, <3>3 DEF IngestDown, Ahead
  <2>5. CASE UNCHANGED <<ingestQueue, batch, stored>>
    BY <1>1, <1>2, <2>5 DEF Ahead
  <2>6. \/ WriterTake \/ Write \/ IngestDown \/ UNCHANGED <<ingestQueue, batch, stored>>
        \/ Drain /\ ingestQueue' # ingestQueue
    <3>1. ASSUME Drain, ingestQueue' = ingestQueue PROVE UNCHANGED <<batch, stored>>
      <4>1. ASSUME ingestQueue # <<>> PROVE Tail(ingestQueue) # ingestQueue
        BY <1>1, <4>1, ToSetTail DEF TelemetryTypeOK
      <4> QED BY <3>1, <4>1 DEF Drain
    <3> QED BY <3>1 DEF WriterStep, WriterEnds, StopIngest, IngestUp
  <2> QED BY <2>1, <2>2, <2>3, <2>4, <2>5, <2>6
<1>4. Shipped' \subseteq Shipped
  BY <1>2, <1>3 DEF Shipped, edgeVars
<1>5. \A e \in Edges : EdgeOK(e)'
  BY <1>2, <1>4, EdgeKeeps DEF TelemetryInv, EdgeOK, edgeVars
<1>6. HandlersOK'
  BY <1>2, <1>3, HandlersFewer DEF edgeVars
<1> QED BY <1>3, <1>5, <1>6

LEMMA TelemetryInvStep == TelemetryInv /\ [TelemetryNext]_vars => TelemetryInv'
<1> SUFFICES ASSUME TelemetryInv, [TelemetryNext]_vars PROVE TelemetryInv'
  OBVIOUS
<1>1. TelemetryTypeOK'
  BY TypeStep DEF TelemetryInv
<1>2. CASE UNCHANGED vars
  <2>1. /\ UNCHANGED <<count, queue, pending, shipper, sent, handlers, stored, batch, ingestQueue>>
        /\ Live' = Live /\ Ahead' = Ahead /\ Shipped' = Shipped
    BY <1>2 DEF vars, edgeVars, ingestVars, Live, Shipped, Ahead
  <2>2. (\A e \in Edges : EdgeOK(e)') /\ HandlersOK' /\ PipeOK'
    BY <2>1 DEF TelemetryInv, EdgeOK, HandlersOK, PipeOK
  <2> QED BY <1>1, <2>2 DEF TelemetryInv
<1>3. ASSUME NEW e \in Edges,
             Record(e) \/ ShipperStep(e) \/ StopEdge(e) \/ EdgeDown(e) \/ EdgeUp(e)
      PROVE  (\A x \in Edges : EdgeOK(x)') /\ HandlersOK' /\ PipeOK'
  <2>1. UNCHANGED <<ingestQueue, batch, stored>>
    BY <1>3 DEF Record, ShipperStep, Take, Flush, LastFlush, Unreachable, Reject, Accept, GiveUp,
                StopEdge, EdgeDown, EdgeUp, ingestVars
  <2> QED BY <1>3, <2>1, EdgesStep, HandlersEdges, LiveEdges, PipeFewer
<1>4. CASE HandlerStep
  <2>1. (\A x \in Edges : EdgeOK(x)') /\ HandlersOK' /\ PipeOK'
    BY <1>4, EnqueueStep, AnswerStep DEF HandlerStep
  <2> QED BY <1>1, <2>1 DEF TelemetryInv
<1>5. CASE WriterStep \/ StopIngest \/ IngestDown \/ IngestUp
  <2>1. (\A x \in Edges : EdgeOK(x)') /\ HandlersOK' /\ PipeOK'
    BY <1>5, WriterStepOK
  <2> QED BY <1>1, <2>1 DEF TelemetryInv
<1>6. CASE \E e \in Edges : Record(e) \/ ShipperStep(e) \/ StopEdge(e) \/ EdgeDown(e) \/ EdgeUp(e)
  BY <1>1, <1>3, <1>6 DEF TelemetryInv
<1> QED BY <1>2, <1>4, <1>5, <1>6 DEF TelemetryNext

LEMMA TelemetryInvInit == TelemetryInit => TelemetryInv
<1> SUFFICES ASSUME TelemetryInit PROVE TelemetryInv
  OBVIOUS
<1>1. TelemetryTypeOK
  BY TypeInit
<1>2. Ahead = {} /\ Shipped = {}
  BY ToSetEmpty DEF TelemetryInit, Ahead, Shipped
<1>3. Ascending(<<>>) /\ Sorted(<<>>, Live) /\ Before({}, {}, Live)
  BY DEF Ascending, Sorted, Before
<1>4. \A e \in Edges : EdgeOK(e)
  BY <1>2, <1>3, ToSetEmpty DEF TelemetryInit, EdgeOK
<1> QED BY <1>1, <1>2, <1>3, <1>4, ToSetEmpty DEF TelemetryInit, TelemetryInv, HandlersOK, PipeOK

-----------------------------------------------------------------------------
(* The order of what was acknowledged.                                     *)

LEMMA OrderFollows == TelemetryInv => AcknowledgedInOrder
<1> SUFFICES ASSUME TelemetryInv,
                    NEW i \in DOMAIN stored, NEW j \in DOMAIN stored,
                    stored[i] \in sent, stored[j] \in sent,
                    stored[i].edge = stored[j].edge, stored[i].n < stored[j].n
             PROVE  i < j
  BY DEF AcknowledgedInOrder
<1>1. /\ stored \in Seq(Events) /\ sent \subseteq Events /\ Sorted(stored, Live)
  BY DEF TelemetryInv, TelemetryTypeOK, PipeOK
<1>2. i \in 1..Len(stored) /\ j \in 1..Len(stored) /\ Len(stored) \in Nat
  BY <1>1, LenProperties
<1>3. /\ stored[i] \in Live /\ stored[j] \in Live
      /\ stored[i].n \in Nat /\ stored[j].n \in Nat
  BY <1>1, EventType DEF Live
<1>4. i # j
  BY <1>3
<1>5. ASSUME j < i PROVE FALSE
  BY <1>1, <1>2, <1>3, <1>5 DEF Sorted, MayPrecede
<1> QED BY <1>2, <1>4, <1>5

\* Of two events of a node that were both counted as sent, the earlier is the
\* earlier record (ship, ingestHandler, RunWriter), across any timeouts, lost
\* requests, kills and restarts.
THEOREM AcknowledgedKeepTheirOrder == TelemetrySpec => []AcknowledgedInOrder
<1>1. TelemetrySpec => []TelemetryInv
  BY TelemetryInvInit, TelemetryInvStep, PTL DEF TelemetrySpec
<1> QED BY <1>1, OrderFollows, PTL

-----------------------------------------------------------------------------
(* The refinement of EventDelivery, without its promise that every event   *)
(* settles.                                                                *)

\* What it is to be under way.
LEMMA InHandHas ==
    /\ \A v : v \in InHand <=>
           \/ v \in ToSet(ingestQueue) \/ v \in ToSet(batch)
           \/ \E h \in handlers : v \in ToSet(h.left)
           \/ \E e \in Edges : v \in ToSet(queue[e]) \/ v \in ToSet(pending[e])
    /\ \A v : v \in InHand' <=>
           \/ v \in ToSet(ingestQueue') \/ v \in ToSet(batch')
           \/ \E h \in handlers' : v \in ToSet(h.left)
           \/ \E e \in Edges : v \in ToSet(queue'[e]) \/ v \in ToSet(pending'[e])
<1> DEFINE given == UNION {ToSet(h.left) : h \in handlers}
           held == UNION {ToSet(queue[e]) \cup ToSet(pending[e]) : e \in Edges}
<1>1. \A v : /\ v \in given <=> \E h \in handlers : v \in ToSet(h.left)
             /\ v \in held <=> \E e \in Edges : v \in ToSet(queue[e]) \cup ToSet(pending[e])
  OBVIOUS
<1>2. \A v : /\ v \in given' <=> \E h \in handlers' : v \in ToSet(h.left)
             /\ v \in held' <=> \E e \in Edges : v \in ToSet(queue'[e]) \cup ToSet(pending'[e])
  OBVIOUS
<1>3. /\ InHand = ToSet(ingestQueue) \cup ToSet(batch) \cup given \cup held
      /\ InHand' = ToSet(ingestQueue') \cup ToSet(batch') \cup given' \cup held'
  BY Zenon DEF InHand
<1> HIDE DEF given, held
<1> QED BY <1>1, <1>2, <1>3

LEMMA FateHas ==
    \A v : /\ Fate(v) = "new" <=> v.n > count[v.edge]
           /\ Fate(v) = "stored" <=> ~ (v.n > count[v.edge]) /\ v \in ToSet(stored)
           /\ Fate(v) = "underway" <=>
                  ~ (v.n > count[v.edge]) /\ v \notin ToSet(stored) /\ v \in InHand
           /\ Fate(v) = "lost" <=>
                  ~ (v.n > count[v.edge]) /\ v \notin ToSet(stored) /\ v \notin InHand
           /\ Fate(v) \in {"new", "stored", "underway", "lost"}
BY DEF Fate

LEMMA FateHasNext ==
    \A v : /\ Fate(v)' = "new" <=> v.n > count'[v.edge]
           /\ Fate(v)' = "stored" <=> ~ (v.n > count'[v.edge]) /\ v \in ToSet(stored')
           /\ Fate(v)' = "underway" <=>
                  ~ (v.n > count'[v.edge]) /\ v \notin ToSet(stored') /\ v \in InHand'
           /\ Fate(v)' = "lost" <=>
                  ~ (v.n > count'[v.edge]) /\ v \notin ToSet(stored') /\ v \notin InHand'
           /\ Fate(v)' \in {"new", "stored", "underway", "lost"}
BY DEF Fate

\* What is under way or stored was recorded.
LEMMA WasRecorded ==
    ASSUME TelemetryInv, NEW v \in InHand \cup ToSet(stored)
    PROVE  v \in Events /\ v.n \in Nat /\ v.n <= count[v.edge] /\ count[v.edge] \in Nat
<1>1. TelemetryTypeOK /\ HandlersOK /\ \A e \in Edges : EdgeOK(e)
  BY DEF TelemetryInv
<1>2. CASE v \in Shipped
  <2>1. Shipped \subseteq Events
    BY <1>1, ToSetEvents DEF TelemetryTypeOK, Shipped, Ahead
  <2> QED BY <1>1, <1>2, <2>1, EventType DEF EdgeOK, TelemetryTypeOK
<1>3. ASSUME NEW e \in Edges, v \in ToSet(queue[e]) \/ v \in ToSet(pending[e])
      PROVE  v \in Events /\ v.n \in Nat /\ v.n <= count[v.edge] /\ count[v.edge] \in Nat
  <2>1. queue[e] \in Seq(Events) /\ pending[e] \in Seq(Events) /\ count[e] \in Nat
    BY <1>1 DEF TelemetryTypeOK
  <2>2. v \in Events
    BY <1>3, <2>1, ToSetEvents
  <2> QED BY <1>1, <1>3, <2>1, <2>2, EventType DEF EdgeOK
<1>4. ASSUME NEW h \in handlers, v \in ToSet(h.left) PROVE v \in Shipped
  BY <1>1, <1>4, ShippedBatch DEF HandlersOK
<1>5. v \in ToSet(ingestQueue) \cup ToSet(batch) \cup ToSet(stored) => v \in Shipped
  BY DEF Shipped, Ahead
<1> QED BY <1>2, <1>3, <1>4, <1>5, InHandHas

deliveryVars == <<[v \in Events |-> Fate(v)], stored>>

\* Less is under way: what is no longer is lost.
LEMMA LessIsLost ==
    ASSUME TelemetryInv, count' = count, stored' = stored, InHand' \subseteq InHand
    PROVE  [Delivery!DeliveryNext]_deliveryVars
<1> DEFINE some == {v \in Events : Fate(v) = "underway" /\ Fate(v)' # "underway"}
<1>1. ASSUME NEW v \in Events, v \notin some PROVE Fate(v)' = Fate(v)
  BY <1>1, FateHas, FateHasNext
<1>2. ASSUME NEW v \in some PROVE Fate(v) = "underway" /\ Fate(v)' = "lost"
  BY FateHas, FateHasNext
<1> HIDE DEF some
<1>3. CASE some = {}
  <2>1. [v \in Events |-> Fate(v)]' = [v \in Events |-> Fate(v)]
    BY <1>1, <1>3
  <2> QED BY <2>1 DEF deliveryVars
<1>4. CASE some # {}
  <2>1. some \in SUBSET Events
    BY DEF some
  <2>2. \A v \in some : [w \in Events |-> Fate(w)][v] = "underway"
    BY <1>2, <2>1
  <2>3. [v \in Events |-> Fate(v)]' =
            [v \in Events |-> IF v \in some THEN "lost" ELSE [w \in Events |-> Fate(w)][v]]
    BY <1>1, <1>2
  <2>4. Delivery!Lose(some)
    BY <1>4, <2>2, <2>3 DEF Delivery!Lose
  <2> QED BY <2>1, <2>4 DEF Delivery!DeliveryNext
<1> QED BY <1>3, <1>4

LEMMA RecordAppears ==
    ASSUME TelemetryInv, NEW e \in Edges, Record(e)
    PROVE  Delivery!DeliveryNext
<1>1. TelemetryTypeOK
  BY DEF TelemetryInv
<1>10. PICK event \in Events : event = [edge |-> e, n |-> count[e] + 1]
  BY <1>1, NextEvent
<1>2. /\ event \in Events /\ event.n = count[e] + 1 /\ event.edge = e
      /\ count[e] \in Nat /\ count' = [count EXCEPT ![e] = count[e] + 1]
      /\ count \in [Edges -> Nat]
  BY <1>1, <1>10, NextEvent DEF TelemetryTypeOK
<1>3. /\ queue \in [Edges -> Seq(Events)] /\ UNCHANGED <<pending, handlers, ingestQueue, batch, stored>>
      /\ queue' = queue \/ queue' = [queue EXCEPT ![e] = Append(queue[e], event)]
  BY <1>1, <1>10 DEF Record, TelemetryTypeOK, ingestVars
<1>4. \A v \in Events : v.edge = e /\ v.n = count[e] + 1 => v = event
  BY <1>2, EventEqual
<1>5. InHand' \subseteq InHand \cup {event} /\ InHand \subseteq InHand'
  <2>1. queue[e] \in Seq(Events) /\ ToSet(Append(queue[e], event)) = ToSet(queue[e]) \cup {event}
    BY <1>2, <1>3, ToSetAppend
  <2>2. \A x \in Edges : /\ ToSet(queue'[x]) \subseteq ToSet(queue[x]) \cup {event}
                         /\ ToSet(queue[x]) \subseteq ToSet(queue'[x])
    BY <1>3, <2>1
  <2> QED BY <1>3, <2>2, InHandHas
<1>6. Fate(event) = "new" /\ Fate(event)' \in {"underway", "lost"}
  <2>1. event \notin ToSet(stored)
    BY <1>2, WasRecorded
  <2> QED BY <1>2, <1>3, <2>1, FateHas, FateHasNext
<1>7. ASSUME NEW v \in Events, v # event PROVE Fate(v)' = Fate(v)
  <2>1. v.edge \in Edges /\ v.n \in Nat /\ count[v.edge] \in Nat
    BY <1>2, EventType
  <2>2. v.n > count'[v.edge] <=> v.n > count[v.edge]
    BY <1>2, <1>4, <1>7, <2>1
  <2>3. v \in InHand' <=> v \in InHand
    BY <1>5, <1>7
  <2> QED BY <1>3, <2>2, <2>3, FateHas, FateHasNext
<1>8. [v \in Events |-> Fate(v)]' = [[v \in Events |-> Fate(v)] EXCEPT ![event] = Fate(event)']
  BY <1>2, <1>7
<1>9. Delivery!Appear(event)
  BY <1>2, <1>3, <1>6, <1>8 DEF Delivery!Appear
<1> QED BY <1>2, <1>9 DEF Delivery!DeliveryNext

\* A record is created once: its event is not yet stored.
LEMMA WriteStores ==
    ASSUME TelemetryInv, Write, stored' = Append(stored, Head(batch))
    PROVE  Delivery!DeliveryNext
<1>1. TelemetryTypeOK /\ PipeOK
  BY DEF TelemetryInv
<1>2. /\ batch \in Seq(Events) /\ stored \in Seq(Events) /\ batch # <<>> /\ batch' = Tail(batch)
      /\ UNCHANGED <<count, queue, pending, handlers, ingestQueue>>
  BY <1>1 DEF Write, TelemetryTypeOK, edgeVars
<1>10. PICK event \in Events : event = Head(batch)
  BY <1>2, ToSetTail
<1>3. /\ ToSet(batch) = {event} \cup ToSet(Tail(batch))
      /\ ToSet(stored') = ToSet(stored) \cup {event}
  BY <1>2, <1>10, ToSetTail, ToSetAppend
<1>4. event \in InHand /\ event \notin ToSet(stored)
  BY <1>1, <1>3, InHandHas DEF PipeOK, Before, MayPrecede
<1>5. InHand' \subseteq InHand /\ InHand \subseteq InHand' \cup {event}
  BY <1>2, <1>3, InHandHas
<1>6. Fate(event) = "underway" /\ Fate(event)' = "stored"
  <2>1. event.n \in Nat /\ count[event.edge] \in Nat /\ event.n <= count[event.edge]
    BY <1>4, WasRecorded
  <2>2. ~ (event.n > count[event.edge]) /\ ~ (event.n > count'[event.edge])
    BY <1>2, <2>1
  <2>3. event \in ToSet(stored')
    BY <1>3
  <2>4. Fate(event) = "underway"
    BY <1>4, <2>2, FateHas
  <2>5. Fate(event)' = "stored"
    BY <2>2, <2>3, FateHasNext
  <2> QED BY <2>4, <2>5
<1>7. ASSUME NEW v \in Events, v # event PROVE Fate(v)' = Fate(v)
  <2>1. count' = count /\ (v \in ToSet(stored') <=> v \in ToSet(stored))
    BY <1>2, <1>3, <1>7
  <2>2. v \in InHand' <=> v \in InHand
    BY <1>5, <1>7
  <2> QED BY <2>1, <2>2, FateHas, FateHasNext
<1>8. [v \in Events |-> Fate(v)]' = [[v \in Events |-> Fate(v)] EXCEPT ![event] = "stored"]
  BY <1>3, <1>6, <1>7
<1>9. Delivery!Store(event)
  BY <1>6, <1>8, <1>10 DEF Delivery!Store
<1> QED BY <1>3, <1>9 DEF Delivery!DeliveryNext

\* Every other step of a node keeps what it holds, hands it on or lets it go.
LEMMA EdgeHandsOn ==
    ASSUME TelemetryInv, NEW e \in Edges, ShipperStep(e) \/ StopEdge(e) \/ EdgeDown(e) \/ EdgeUp(e)
    PROVE  count' = count /\ stored' = stored /\ InHand' \subseteq InHand
<1>1. TelemetryTypeOK
  BY DEF TelemetryInv
<1>2. UNCHANGED <<count, stored, ingestQueue, batch>>
  BY DEF ShipperStep, Take, Flush, LastFlush, Unreachable, Reject, Accept, GiveUp, StopEdge,
         EdgeDown, EdgeUp, ingestVars
<1>3. \A x \in Edges : /\ ToSet(queue'[x]) \subseteq ToSet(queue[x])
                       /\ ToSet(pending'[x]) \subseteq ToSet(queue[x]) \cup ToSet(pending[x])
  <2>1. CASE Take(e)
    <3>1. /\ queue[e] \in Seq(Events) /\ pending[e] \in Seq(Events) /\ queue[e] # <<>>
          /\ queue' = [queue EXCEPT ![e] = Tail(queue[e])] /\ queue \in [Edges -> Seq(Events)]
          /\ pending' = [pending EXCEPT ![e] = Append(pending[e], Head(queue[e]))]
          /\ pending \in [Edges -> Seq(Events)]
      BY <1>1, <2>1 DEF Take, TelemetryTypeOK
    <3>2. /\ ToSet(queue[e]) = {Head(queue[e])} \cup ToSet(Tail(queue[e]))
          /\ ToSet(Append(pending[e], Head(queue[e]))) = ToSet(pending[e]) \cup {Head(queue[e])}
      BY <3>1, ToSetTail, ToSetAppend
    <3> QED BY <3>1, <3>2
  <2>2. CASE ~ Take(e)
    <3>1. \A x \in Edges : queue'[x] \in {queue[x], <<>>} /\ pending'[x] \in {pending[x], <<>>}
      BY <1>1, <2>2 DEF ShipperStep, Flush, LastFlush, Unreachable, Reject, Accept, GiveUp, EndShip,
                        StopEdge, EdgeDown, EdgeUp, TelemetryTypeOK
    <3> QED BY <3>1, ToSetEmpty
  <2> QED BY <2>1, <2>2
<1>4. \A h \in handlers' : h \in handlers \/ h.left = pending[e]
  BY DEF ShipperStep, Take, Flush, LastFlush, Unreachable, Reject, Accept, GiveUp, StopEdge,
         EdgeDown, EdgeUp, ingestVars
<1> QED BY <1>2, <1>3, <1>4, InHandHas

LEMMA IngestHandsOn ==
    ASSUME TelemetryInv, HandlerStep \/ WriterStep \/ StopIngest \/ IngestDown \/ IngestUp
    PROVE  count' = count /\ (stored' = stored => InHand' \subseteq InHand)
<1>1. TelemetryTypeOK
  BY DEF TelemetryInv
<1>2. count' = count /\ queue' = queue
  BY DEF HandlerStep, Enqueue, Answer, WriterStep, WriterTake, Drain, Write, WriterEnds,
         StopIngest, IngestDown, IngestUp, edgeVars
<1>3. ASSUME NEW h \in handlers, Enqueue(h) PROVE InHand' \subseteq InHand
  <2>3. \A g \in handlers' : g \in handlers \/ g.left = Tail(h.left)
    <3> DEFINE rest == [batch |-> h.batch, left |-> Tail(h.left)]
    <3>1. handlers' = (handlers \ {h}) \cup {rest} /\ rest.left = Tail(h.left)
      BY <1>3 DEF Enqueue
    <3> HIDE DEF rest
    <3> QED BY <3>1
  <2>4. h.left \in Seq(Events) /\ ingestQueue \in Seq(Events)
    BY <1>1 DEF TelemetryTypeOK
  <2>1. /\ h.left # <<>> /\ UNCHANGED <<queue, pending, batch>>
        /\ ingestQueue' = ingestQueue \/ ingestQueue' = Append(ingestQueue, Head(h.left))
    BY <1>3 DEF Enqueue, edgeVars
  <2>2. /\ ToSet(h.left) = {Head(h.left)} \cup ToSet(Tail(h.left))
        /\ ToSet(ingestQueue') \subseteq ToSet(ingestQueue) \cup {Head(h.left)}
    BY <2>1, <2>4, ToSetTail, ToSetAppend
  <2> QED BY <2>1, <2>2, <2>3, InHandHas
<1>4. ASSUME NEW h \in handlers, Answer(h) PROVE InHand' \subseteq InHand
  <2>1. \A x \in Edges : pending'[x] \in {pending[x], <<>>}
    BY <1>1, <1>4 DEF Answer, EndShip, TelemetryTypeOK
  <2>2. UNCHANGED <<queue, batch, ingestQueue>> /\ handlers' \subseteq handlers
    BY <1>4 DEF Answer
  <2> QED BY <2>1, <2>2, ToSetEmpty, InHandHas
<1>5. CASE WriterTake
  <2>1. /\ ingestQueue # <<>> /\ ingestQueue \in Seq(Events) /\ ingestQueue' = Tail(ingestQueue)
        /\ batch' = <<Head(ingestQueue)>> /\ UNCHANGED <<queue, pending, handlers>>
    BY <1>1, <1>5 DEF WriterTake, TelemetryTypeOK, edgeVars
  <2>2. ToSet(ingestQueue) = {Head(ingestQueue)} \cup ToSet(Tail(ingestQueue))
    BY <2>1, ToSetTail
  <2>3. ToSet(batch') = {Head(ingestQueue)}
    BY <2>1 DEF ToSet
  <2> QED BY <1>2, <2>1, <2>2, <2>3, InHandHas
<1>6. CASE Drain
  <2>1. CASE ingestQueue # <<>> /\ ingestQueue' = Tail(ingestQueue) /\ batch' = Append(batch, Head(ingestQueue))
    <3>1. /\ ToSet(ingestQueue) = {Head(ingestQueue)} \cup ToSet(Tail(ingestQueue))
          /\ ToSet(batch') = ToSet(batch) \cup {Head(ingestQueue)}
      BY <1>1, <2>1, ToSetTail, ToSetAppend DEF TelemetryTypeOK
    <3>2. UNCHANGED <<queue, pending, handlers>>
      BY <1>6 DEF Drain, edgeVars
    <3> QED BY <1>2, <2>1, <3>1, <3>2, InHandHas
  <2>2. CASE UNCHANGED <<batch, ingestQueue>>
    BY <1>2, <1>6, <2>2, InHandHas DEF Drain, edgeVars
  <2> QED BY <1>6, <2>1, <2>2 DEF Drain
<1>7. CASE Write
  <2>1. /\ batch # <<>> /\ batch \in Seq(Events) /\ batch' = Tail(batch)
        /\ UNCHANGED <<queue, pending, handlers, ingestQueue>>
    BY <1>1, <1>7 DEF Write, TelemetryTypeOK, edgeVars
  <2>2. ToSet(batch) = {Head(batch)} \cup ToSet(Tail(batch))
    BY <2>1, ToSetTail
  <2> QED BY <1>2, <2>1, <2>2, InHandHas
<1>8. CASE WriterEnds \/ StopIngest \/ IngestUp
  BY <1>2, <1>8, InHandHas DEF WriterEnds, StopIngest, IngestUp, edgeVars
<1>9. CASE IngestDown
  BY <1>2, <1>9, InHandHas, ToSetEmpty DEF IngestDown, edgeVars
<1> QED BY <1>2, <1>3, <1>4, <1>5, <1>6, <1>7, <1>8, <1>9 DEF HandlerStep, WriterStep

LEMMA DeliveryStep ==
    TelemetryInv /\ [TelemetryNext]_vars => [Delivery!DeliveryNext]_deliveryVars
<1> SUFFICES ASSUME TelemetryInv, [TelemetryNext]_vars
             PROVE  [Delivery!DeliveryNext]_deliveryVars
  OBVIOUS
<1>1. CASE UNCHANGED vars
  <2>1. count' = count /\ stored' = stored /\ InHand' = InHand
    BY <1>1 DEF vars, edgeVars, ingestVars, InHand
  <2> QED BY <2>1, LessIsLost
<1>2. ASSUME NEW e \in Edges, Record(e) PROVE [Delivery!DeliveryNext]_deliveryVars
  BY <1>2, RecordAppears
<1>3. ASSUME NEW e \in Edges, ShipperStep(e) \/ StopEdge(e) \/ EdgeDown(e) \/ EdgeUp(e)
      PROVE  [Delivery!DeliveryNext]_deliveryVars
  BY <1>3, EdgeHandsOn, LessIsLost
<1>4. CASE HandlerStep \/ WriterStep \/ StopIngest \/ IngestDown \/ IngestUp
  <2>1. CASE stored' = stored
    BY <1>4, <2>1, IngestHandsOn, LessIsLost
  <2>2. CASE stored' # stored
    <3>1. Write /\ stored' = Append(stored, Head(batch))
      BY <1>4, <2>2 DEF HandlerStep, Enqueue, Answer, WriterStep, WriterTake, Drain, Write,
                        WriterEnds, StopIngest, IngestDown, IngestUp
    <3> QED BY <3>1, WriteStores
  <2> QED BY <2>1, <2>2
<1> QED BY <1>1, <1>2, <1>3, <1>4 DEF TelemetryNext

LEMMA DeliveryStart == TelemetryInit => Delivery!DeliveryInit
<1> SUFFICES ASSUME TelemetryInit PROVE Delivery!DeliveryInit
  OBVIOUS
<1>1. \A v \in Events : v.n > count[v.edge]
  BY EventType DEF TelemetryInit
<1> QED BY <1>1, FateHas DEF TelemetryInit, Delivery!DeliveryInit

\* Whatever is lost, stopped or killed on its way, an event goes from new to
\* under way, and from there either into the log, once, or out of the system for
\* good: the telemetry path implements EventDelivery but for its liveness.
THEOREM DeliveredOnceOrLost == TelemetrySpec => Delivery!DeliverySafety
<1>1. TelemetrySpec => []TelemetryInv
  BY TelemetryInvInit, TelemetryInvStep, PTL DEF TelemetrySpec
<1>2. [Delivery!DeliveryNext]_deliveryVars
        => [Delivery!DeliveryNext]_<<[v \in Events |-> Fate(v)], stored>>
  BY DEF deliveryVars
<1> QED BY <1>1, <1>2, DeliveryStart, DeliveryStep, PTL DEF TelemetrySpec, Delivery!DeliverySafety

-----------------------------------------------------------------------------
(* What a loss needs.                                                      *)

LEMMA SizesStep ==
    ASSUME TelemetryTypeOK, SizesOK, [TelemetryNext]_vars
    PROVE  SizesOK'
<1> SUFFICES ASSUME NEW x \in Edges
             PROVE  /\ Len(pending'[x]) <= MaxBatch
                    /\ shipper'[x].step = "select" => Len(pending'[x]) < MaxBatch
  BY DEF SizesOK
<1>1. /\ MaxBatch \in Nat \ {0} /\ Len(<<>>) = 0 /\ pending[x] \in Seq(Events)
      /\ Len(pending[x]) \in Nat /\ Len(pending[x]) <= MaxBatch
      /\ shipper[x].step = "select" => Len(pending[x]) < MaxBatch
  BY TelemetryAssumption, LenProperties DEF SizesOK, TelemetryTypeOK
<1>2. CASE pending'[x] = <<>>
  BY <1>1, <1>2
<1>3. CASE pending'[x] = pending[x] /\ (shipper'[x].step = "select" => shipper[x].step = "select")
  BY <1>1, <1>3
<1>4. CASE Take(x)
  <2>1. /\ pending'[x] = Append(pending[x], Head(queue[x])) /\ shipper[x].step = "select"
        /\ Head(queue[x]) \in Events
        /\ shipper'[x].step = IF Len(pending[x]) + 1 >= MaxBatch THEN "send" ELSE "select"
    BY <1>4, ToSetTail DEF Take, AtSelect, Selecting, TelemetryTypeOK
  <2>2. Len(pending'[x]) = Len(pending[x]) + 1
    BY <1>1, <2>1, AppendProperties
  <2> QED BY <1>1, <2>1, <2>2
<1>5. ASSUME NEW e \in Edges, Record(e) \/ ShipperStep(e) \/ StopEdge(e) \/ EdgeDown(e) \/ EdgeUp(e)
      PROVE  \/ pending'[x] = <<>> \/ Take(x)
             \/ pending'[x] = pending[x] /\ (shipper'[x].step = "select" => shipper[x].step = "select")
  <2>1. CASE x # e
    BY <1>5, <2>1 DEF Record, ShipperStep, Take, Flush, LastFlush, Unreachable, Reject, Accept,
                      GiveUp, EndShip, StopEdge, EdgeDown, EdgeUp, TelemetryTypeOK
  <2>2. CASE x = e
    BY <1>5, <2>2 DEF Record, ShipperStep, Flush, LastFlush, Unreachable, Reject, Accept,
                      GiveUp, EndShip, StopEdge, EdgeDown, EdgeUp, TelemetryTypeOK
  <2> QED BY <2>1, <2>2
<1>6. ASSUME NEW h \in handlers, Enqueue(h) \/ Answer(h)
      PROVE  \/ pending'[x] = <<>>
             \/ pending'[x] = pending[x] /\ (shipper'[x].step = "select" => shipper[x].step = "select")
  BY <1>6 DEF Enqueue, Answer, EndShip, edgeVars, TelemetryTypeOK
<1>7. CASE WriterStep \/ StopIngest \/ IngestDown \/ IngestUp \/ UNCHANGED vars
  BY <1>3, <1>7 DEF WriterStep, WriterTake, Drain, Write, WriterEnds, StopIngest, IngestDown,
                    IngestUp, edgeVars, vars
<1> QED BY <1>2, <1>3, <1>4, <1>5, <1>6, <1>7 DEF TelemetryNext, HandlerStep

Quiet == faults + stops = 0

LEMMA NoneOfEither == \A m, n \in Nat : m + n = 0 => m = 0 /\ n = 0
OBVIOUS

\* Nothing is kept less, nothing waits that did not, and a batch that is let go
\* is kept.
LEMMA QuietKeeps ==
    ASSUME QuietOK, Quiet, Kept \subseteq Kept', count' = count, queue' = queue,
           UNCHANGED <<ingest, edge>>,
           \A x \in Edges :
               /\ shipper'[x].step # "gone" /\ ~ shipper'[x].last
               /\ \/ /\ pending'[x] = pending[x]
                     /\ shipper'[x].step = "wait" => shipper[x].step = "wait"
                  \/ /\ shipper'[x].step # "wait"
                     /\ \/ x \in WrongToken \/ MaxBatch > MaxRequestEvents
                        \/ ToSet(pending[x]) \subseteq Kept'
    PROVE  QuietOK'
BY TelemetryAssumption DEF QuietOK, Quiet

LEMMA QuietEdges ==
    ASSUME TelemetryInv, QuietOK, SizesOK, Quiet, Quiet', NEW e \in Edges,
           Record(e) \/ ShipperStep(e) \/ StopEdge(e) \/ EdgeDown(e) \/ EdgeUp(e)
    PROVE  QuietOK'
<1>1. /\ TelemetryTypeOK /\ faults = 0 /\ stops = 0 /\ faults' = 0 /\ stops' = 0
  <2>1. TelemetryTypeOK /\ TelemetryTypeOK'
    BY TypeStep DEF TelemetryInv, TelemetryNext
  <2>2. faults \in Nat /\ stops \in Nat /\ faults' \in Nat /\ stops' \in Nat
    BY <2>1 DEF TelemetryTypeOK
  <2>3. faults + stops = 0 /\ faults' + stops' = 0
    BY DEF Quiet
  <2>4. faults = 0 /\ stops = 0 /\ faults' = 0 /\ stops' = 0
    BY <2>2, <2>3, NoneOfEither
  <2> QED BY <2>1, <2>4
<1>2. /\ ingest = "up"
      /\ \A x \in Edges : edge[x] = "up" /\ shipper[x].step # "gone" /\ ~ shipper[x].last
  BY DEF QuietOK, Quiet
<1>3. CASE Record(e)
  <2>1. PICK event \in Events : event = [edge |-> e, n |-> count[e] + 1]
    BY <1>1, <1>3, NextEvent
  <2>2. /\ event.n = count[e] + 1 /\ event.edge = e
        /\ count[e] \in Nat /\ count' = [count EXCEPT ![e] = count[e] + 1]
        /\ count \in [Edges -> Nat] /\ queue \in [Edges -> Seq(Events)]
    BY <1>1, <1>3, <2>1, NextEvent DEF TelemetryTypeOK
  <2>3. /\ UNCHANGED <<ingest, edge, pending, shipper, handlers, ingestQueue, batch, stored>>
        /\ \/ queue' = [queue EXCEPT ![e] = Append(queue[e], event)] /\ dropped' = dropped
           \/ queue' = queue /\ dropped' = dropped \cup {event}
    BY <1>3, <2>1 DEF Record, ingestVars
  <2>4. ToSet(Append(queue[e], event)) = ToSet(queue[e]) \cup {event}
    BY <2>2, ToSetAppend
  <2>5. /\ Kept \subseteq Kept' /\ \A x \in Edges : ToSet(queue[x]) \subseteq ToSet(queue'[x])
        /\ event \in Kept' \cup ToSet(queue'[e])
    BY <2>2, <2>3, <2>4 DEF Kept
  <2>6. ASSUME NEW v \in Events, v.n <= count'[v.edge], v # event PROVE v.n <= count[v.edge]
    <3>1. v.edge \in Edges /\ v.n \in Nat
      BY EventType
    <3>2. CASE v.edge = e
      BY <2>2, <2>6, <3>1, <3>2, EventEqual
    <3>3. CASE v.edge # e
      BY <2>2, <2>6, <3>1, <3>3
    <3> QED BY <3>2, <3>3
  <2>7. ASSUME NEW x \in Edges, x \notin WrongToken, MaxBatch <= MaxRequestEvents,
               NEW v \in Events, v.edge = x, v.n <= count'[x]
        PROVE  v \in Kept' \cup ToSet(queue'[x]) \cup ToSet(pending'[x])
    <3>1. CASE v = event
      BY <2>2, <2>5, <2>7, <3>1
    <3>2. CASE v # event
      BY <2>3, <2>5, <2>6, <2>7, <3>2 DEF QuietOK, Quiet
    <3> QED BY <3>1, <3>2
  <2> QED BY <1>2, <2>3, <2>5, <2>7 DEF QuietOK, Quiet
<1>4. CASE Take(e)
  <2>1. /\ queue[e] \in Seq(Events) /\ pending[e] \in Seq(Events) /\ queue[e] # <<>>
        /\ queue' = [queue EXCEPT ![e] = Tail(queue[e])] /\ queue \in [Edges -> Seq(Events)]
        /\ pending' = [pending EXCEPT ![e] = Append(pending[e], Head(queue[e]))]
        /\ pending \in [Edges -> Seq(Events)]
    BY <1>1, <1>4 DEF Take, TelemetryTypeOK
  <2>2. /\ ToSet(queue[e]) = {Head(queue[e])} \cup ToSet(Tail(queue[e]))
        /\ ToSet(Append(pending[e], Head(queue[e]))) = ToSet(pending[e]) \cup {Head(queue[e])}
    BY <2>1, ToSetTail, ToSetAppend
  <2>3. \A x \in Edges : ToSet(queue[x]) \cup ToSet(pending[x]) = ToSet(queue'[x]) \cup ToSet(pending'[x])
    BY <2>1, <2>2
  <2>4. Kept' = Kept /\ UNCHANGED <<ingest, edge, count>>
    BY <1>4 DEF Take, ingestVars, Kept
  <2>5. \A x \in Edges : /\ shipper'[x].step # "gone" /\ ~ shipper'[x].last
                         /\ shipper'[x].step = "wait" => shipper[x].step = "wait" /\ pending'[x] = pending[x]
    BY <1>1, <1>2, <1>4 DEF Take, TelemetryTypeOK
  <2>6. ASSUME NEW x \in Edges, x \notin WrongToken, MaxBatch <= MaxRequestEvents
        PROVE  /\ \A v \in Events : v.edge = x /\ v.n <= count'[x] =>
                      v \in Kept' \cup ToSet(queue'[x]) \cup ToSet(pending'[x])
               /\ shipper'[x].step = "wait" => ToSet(pending'[x]) \subseteq Kept'
    <3>1. \A v \in Events : v.edge = x /\ v.n <= count[x] =>
              v \in Kept \cup (ToSet(queue[x]) \cup ToSet(pending[x]))
      BY <2>6 DEF QuietOK, Quiet
    <3>2. shipper[x].step = "wait" => ToSet(pending[x]) \subseteq Kept
      BY <2>6 DEF QuietOK, Quiet
    <3> QED BY <2>3, <2>4, <2>5, <3>1, <3>2
  <2> QED BY <1>2, <2>4, <2>5, <2>6 DEF QuietOK, Quiet
<1>5. CASE Flush(e)
  <2>1. Kept' = Kept /\ UNCHANGED <<ingest, edge, count, queue, pending>>
    BY <1>5 DEF Flush, ingestVars, Kept
  <2>2. \A x \in Edges : /\ shipper'[x].step # "gone" /\ ~ shipper'[x].last
                         /\ shipper'[x].step = "wait" => shipper[x].step = "wait"
    BY <1>1, <1>2, <1>5 DEF Flush, TelemetryTypeOK
  <2> QED BY <2>1, <2>2, QuietKeeps
<1>6. CASE Reject(e)
  <2>1. Kept' = Kept /\ UNCHANGED <<ingest, edge, count, queue>> /\ EndShip(e)
    BY <1>6 DEF Reject, ingestVars, Kept
  <2>2. e \in WrongToken \/ MaxBatch > MaxRequestEvents
    <3>1. Len(pending[e]) <= MaxBatch /\ Len(pending[e]) \in Nat
      BY <1>1, LenProperties DEF SizesOK, TelemetryTypeOK
    <3> QED BY <1>6, <3>1, TelemetryAssumption DEF Reject, Refused
  <2>3. \A x \in Edges : shipper'[x].step # "gone" /\ ~ shipper'[x].last
    BY <1>1, <1>2, <2>1, EndShipType
  <2>4. /\ shipper'[e].step # "wait"
        /\ \A x \in Edges \ {e} : shipper'[x] = shipper[x] /\ pending'[x] = pending[x]
    BY <1>1, <2>1, EndShipType DEF TelemetryTypeOK
  <2> QED BY <2>1, <2>2, <2>3, <2>4, QuietKeeps
<1>7. CASE Accept(e)
  <2> DEFINE new == [batch |-> pending[e], left |-> pending[e]]
  <2>1. /\ UNCHANGED <<ingest, edge, count, queue, pending, dropped, stored, batch, ingestQueue>>
        /\ handlers' = handlers \cup {new} /\ new.left = pending[e]
    BY <1>7 DEF Accept
  <2> HIDE DEF new
  <2>2. ToSet(pending[e]) \subseteq Events
    BY <1>1, ToSetEvents DEF TelemetryTypeOK
  <2>3. Kept \subseteq Kept' /\ ToSet(pending[e]) \subseteq Kept'
    BY <2>1, <2>2 DEF Kept
  <2>4. /\ \A x \in Edges : shipper'[x].step # "gone" /\ ~ shipper'[x].last
        /\ \A x \in Edges \ {e} : shipper'[x] = shipper[x]
    BY <1>1, <1>2, <1>7 DEF Accept, TelemetryTypeOK
  <2>5. ASSUME NEW x \in Edges, x \notin WrongToken, MaxBatch <= MaxRequestEvents
        PROVE  /\ \A v \in Events : v.edge = x /\ v.n <= count'[x] =>
                      v \in Kept' \cup ToSet(queue'[x]) \cup ToSet(pending'[x])
               /\ shipper'[x].step = "wait" => ToSet(pending'[x]) \subseteq Kept'
    BY <2>1, <2>3, <2>4, <2>5 DEF QuietOK, Quiet
  <2> QED BY <1>2, <2>1, <2>4, <2>5 DEF QuietOK, Quiet
<1>8. CASE GiveUp(e)
  <2>1. /\ Kept' = Kept /\ UNCHANGED <<ingest, edge, count, queue>> /\ EndShip(e)
        /\ shipper[e].step = "wait"
    BY <1>8 DEF GiveUp, ingestVars, Kept
  <2>2. e \in WrongToken \/ MaxBatch > MaxRequestEvents \/ ToSet(pending[e]) \subseteq Kept
    BY <2>1, TelemetryAssumption DEF QuietOK, Quiet
  <2>3. \A x \in Edges : shipper'[x].step # "gone" /\ ~ shipper'[x].last
    BY <1>1, <1>2, <2>1, EndShipType
  <2>4. /\ shipper'[e].step # "wait"
        /\ \A x \in Edges \ {e} : shipper'[x] = shipper[x] /\ pending'[x] = pending[x]
    BY <1>1, <2>1, EndShipType DEF TelemetryTypeOK
  <2> QED BY <2>1, <2>2, <2>3, <2>4, QuietKeeps
<1>9. ~ LastFlush(e) /\ ~ Unreachable(e) /\ ~ StopEdge(e) /\ ~ EdgeDown(e) /\ ~ EdgeUp(e)
  BY <1>1, <1>2 DEF LastFlush, Unreachable, StopEdge, EdgeDown, EdgeUp, Fault
<1> QED BY <1>3, <1>4, <1>5, <1>6, <1>7, <1>8, <1>9 DEF ShipperStep

LEMMA QuietIngest ==
    ASSUME TelemetryInv, QuietOK, Quiet, Quiet',
           HandlerStep \/ WriterStep \/ StopIngest \/ IngestDown \/ IngestUp
    PROVE  QuietOK'
<1>1. /\ TelemetryTypeOK /\ faults = 0 /\ stops = 0 /\ faults' = 0 /\ stops' = 0
  <2>1. TelemetryTypeOK /\ TelemetryTypeOK'
    BY TypeStep DEF TelemetryInv, TelemetryNext
  <2>2. faults \in Nat /\ stops \in Nat /\ faults' \in Nat /\ stops' \in Nat
    BY <2>1 DEF TelemetryTypeOK
  <2>3. faults + stops = 0 /\ faults' + stops' = 0
    BY DEF Quiet
  <2>4. faults = 0 /\ stops = 0 /\ faults' = 0 /\ stops' = 0
    BY <2>2, <2>3, NoneOfEither
  <2> QED BY <2>1, <2>4
<1>2. /\ ingest = "up"
      /\ \A x \in Edges : edge[x] = "up" /\ shipper[x].step # "gone" /\ ~ shipper[x].last
  BY DEF QuietOK, Quiet
<1>3. ASSUME NEW h \in handlers, Enqueue(h) PROVE QuietOK'
  <2> DEFINE rest == [batch |-> h.batch, left |-> Tail(h.left)]
  <2>1. /\ h.left # <<>> /\ UNCHANGED <<edgeVars, ingest, batch, stored>>
        /\ handlers' = (handlers \ {h}) \cup {rest} /\ rest.left = Tail(h.left)
        /\ \/ ingestQueue' = Append(ingestQueue, Head(h.left)) /\ dropped' = dropped
           \/ ingestQueue' = ingestQueue /\ dropped' = dropped \cup {Head(h.left)}
    BY <1>3 DEF Enqueue
  <2> HIDE DEF rest
  <2>2. h.left \in Seq(Events) /\ ingestQueue \in Seq(Events)
    BY <1>1 DEF TelemetryTypeOK
  <2>3. /\ ToSet(h.left) = {Head(h.left)} \cup ToSet(Tail(h.left)) /\ Head(h.left) \in Events
        /\ ToSet(Append(ingestQueue, Head(h.left))) = ToSet(ingestQueue) \cup {Head(h.left)}
    BY <2>1, <2>2, ToSetTail, ToSetAppend
  <2>4. Kept \subseteq Kept'
    BY <2>1, <2>3 DEF Kept
  <2> QED BY <1>2, <2>1, <2>4, QuietKeeps DEF edgeVars
<1>4. ASSUME NEW h \in handlers, Answer(h) PROVE QuietOK'
  <2>1. /\ h.left = <<>> /\ handlers' = handlers \ {h}
        /\ UNCHANGED <<count, edge, queue, ingest, ingestQueue, batch, stored, dropped>>
    BY <1>4 DEF Answer
  <2>2. Kept \subseteq Kept'
    BY <2>1, ToSetEmpty DEF Kept
  <2>3. CASE \E x \in Edges : IsAnswered(x, h)
    <3> DEFINE e == CHOOSE x \in Edges : IsAnswered(x, h)
    <3>1. e \in Edges /\ IsAnswered(e, h) /\ EndShip(e)
      BY <1>4, <2>3 DEF Answer
    <3> HIDE DEF e
    <3>2. PICK x \in Edges : IsAnswered(x, h) /\ EndShip(x)
      BY <3>1
    <3>3. x \in WrongToken \/ MaxBatch > MaxRequestEvents \/ ToSet(pending[x]) \subseteq Kept
      BY <3>2, TelemetryAssumption DEF QuietOK, Quiet, IsAnswered
    <3>4. \A y \in Edges : shipper'[y].step # "gone" /\ ~ shipper'[y].last
      BY <1>1, <1>2, <3>2, EndShipType
    <3>5. /\ shipper'[x].step # "wait"
          /\ \A y \in Edges \ {x} : shipper'[y] = shipper[y] /\ pending'[y] = pending[y]
      BY <1>1, <3>2, EndShipType DEF TelemetryTypeOK
    <3> QED BY <2>1, <2>2, <3>3, <3>4, <3>5, QuietKeeps
  <2>4. CASE ~ \E x \in Edges : IsAnswered(x, h)
    <3>1. UNCHANGED <<shipper, pending>>
      BY <1>4, <2>4 DEF Answer
    <3> QED BY <1>2, <2>1, <2>2, <3>1, QuietKeeps
  <2> QED BY <2>3, <2>4
<1>5. CASE WriterStep
  <2>1. Kept \subseteq Kept'
    <3>1. CASE WriterTake
      <4>1. /\ ingestQueue # <<>> /\ ingestQueue \in Seq(Events) /\ ingestQueue' = Tail(ingestQueue)
            /\ batch' = <<Head(ingestQueue)>> /\ batch = <<>> /\ UNCHANGED <<handlers, stored, dropped>>
        BY <1>1, <3>1 DEF WriterTake, TelemetryTypeOK
      <4>2. /\ ToSet(ingestQueue) = {Head(ingestQueue)} \cup ToSet(Tail(ingestQueue))
            /\ ToSet(batch) = {}
        BY <4>1, ToSetTail, ToSetEmpty
      <4>3. ToSet(batch') = {Head(ingestQueue)}
        BY <4>1 DEF ToSet
      <4> QED BY <4>1, <4>2, <4>3 DEF Kept
    <3>2. CASE Drain
      <4>1. CASE ingestQueue # <<>> /\ ingestQueue' = Tail(ingestQueue)
                     /\ batch' = Append(batch, Head(ingestQueue))
        <5>1. /\ ToSet(ingestQueue) = {Head(ingestQueue)} \cup ToSet(Tail(ingestQueue))
              /\ ToSet(batch') = ToSet(batch) \cup {Head(ingestQueue)}
          BY <1>1, <4>1, ToSetTail, ToSetAppend DEF TelemetryTypeOK
        <5> QED BY <3>2, <4>1, <5>1 DEF Drain, Kept
      <4>2. CASE UNCHANGED <<batch, ingestQueue>>
        BY <3>2, <4>2 DEF Drain, Kept
      <4> QED BY <3>2, <4>1, <4>2 DEF Drain
    <3>3. CASE Write
      <4>1. /\ batch # <<>> /\ batch \in Seq(Events) /\ stored \in Seq(Events) /\ batch' = Tail(batch)
            /\ stored' = Append(stored, Head(batch)) /\ UNCHANGED <<handlers, ingestQueue, dropped>>
        BY <1>1, <3>3 DEF Write, Fault, TelemetryTypeOK
      <4>2. /\ ToSet(batch) = {Head(batch)} \cup ToSet(Tail(batch))
            /\ ToSet(stored') = ToSet(stored) \cup {Head(batch)}
        BY <4>1, ToSetTail, ToSetAppend
      <4> QED BY <4>1, <4>2 DEF Kept
    <3>4. CASE WriterEnds
      BY <3>4 DEF WriterEnds, Kept
    <3> QED BY <1>5, <3>1, <3>2, <3>3, <3>4 DEF WriterStep
  <2>2. UNCHANGED <<edgeVars, ingest>>
    BY <1>5 DEF WriterStep, WriterTake, Drain, Write, WriterEnds
  <2> QED BY <1>2, <2>1, <2>2, QuietKeeps DEF edgeVars
<1>6. ~ StopIngest /\ ~ IngestDown /\ ~ IngestUp
  BY <1>1, <1>2 DEF StopIngest, IngestDown, IngestUp, Fault
<1> QED BY <1>3, <1>4, <1>5, <1>6 DEF HandlerStep

\* A count of failures or stops is never taken back.
LEMMA QuietBefore ==
    ASSUME TelemetryTypeOK, [TelemetryNext]_vars, Quiet'
    PROVE  Quiet
<1>1. faults \in Nat /\ stops \in Nat
  BY DEF TelemetryTypeOK
<1>2. (faults' = faults \/ faults' = faults + 1) /\ (stops' = stops \/ stops' = stops + 1)
  BY DEF TelemetryNext, Record, ShipperStep, Take, Flush, LastFlush, Unreachable, Reject, Accept,
         GiveUp, StopEdge, EdgeDown, EdgeUp, HandlerStep, Enqueue, Answer, WriterStep, WriterTake,
         Drain, Write, WriterEnds, StopIngest, IngestDown, IngestUp, Fault, vars
<1> QED BY <1>1, <1>2 DEF Quiet

LossInv == TelemetryInv /\ QuietOK /\ SizesOK

LEMMA LossInvStep == LossInv /\ [TelemetryNext]_vars => LossInv'
<1> SUFFICES ASSUME LossInv, [TelemetryNext]_vars PROVE LossInv'
  OBVIOUS
<1>1. TelemetryInv' /\ SizesOK' /\ TelemetryTypeOK
  BY TelemetryInvStep, SizesStep DEF LossInv, TelemetryInv
<1>2. QuietOK'
  <2>1. CASE ~ Quiet'
    BY <2>1 DEF QuietOK, Quiet
  <2>2. CASE Quiet'
    <3>1. Quiet /\ TelemetryInv /\ QuietOK /\ SizesOK
      BY <1>1, <2>2, QuietBefore DEF LossInv
    <3>2. CASE UNCHANGED vars
      <4>1. Kept' = Kept /\ UNCHANGED <<count, queue, ingest, edge, pending, shipper, faults, stops>>
        BY <3>2 DEF vars, edgeVars, ingestVars, Kept
      <4> QED BY <3>1, <4>1 DEF QuietOK
    <3> QED BY <2>2, <3>1, <3>2, QuietEdges, QuietIngest DEF TelemetryNext
  <2> QED BY <2>1, <2>2
<1> QED BY <1>1, <1>2 DEF LossInv

LEMMA LossInvInit == TelemetryInit => LossInv
<1> SUFFICES ASSUME TelemetryInit PROVE LossInv
  OBVIOUS
<1>1. SizesOK
  BY TelemetryAssumption DEF TelemetryInit, SizesOK, Selecting
<1>2. QuietOK
  BY EventType DEF TelemetryInit, QuietOK, Selecting
<1> QED BY <1>1, <1>2, TelemetryInvInit DEF LossInv

LEMMA LossFollows == LossInv => LostOnlyUnderPressure
<1> SUFFICES ASSUME LossInv, NEW v \in Events, Fate(v) = "lost", v \notin dropped, ~ (faults + stops > 0),
                    v.edge \notin WrongToken, ~ (MaxBatch > MaxRequestEvents)
             PROVE  FALSE
  BY DEF LostOnlyUnderPressure
<1>1. TelemetryTypeOK /\ QuietOK
  BY DEF LossInv, TelemetryInv
<1>2. ~ (v.n > count[v.edge]) /\ v \notin ToSet(stored) /\ v \notin InHand
  BY FateHas
<1>3. v.edge \in Edges /\ v.n \in Nat /\ count[v.edge] \in Nat /\ v.n <= count[v.edge]
  BY <1>1, <1>2, EventType DEF TelemetryTypeOK
<1>4. faults + stops = 0 /\ MaxBatch <= MaxRequestEvents
  BY <1>1, TelemetryAssumption DEF TelemetryTypeOK
<1>5. v \in Kept \cup ToSet(queue[v.edge]) \cup ToSet(pending[v.edge])
  BY <1>1, <1>3, <1>4 DEF QuietOK
<1> QED BY <1>2, <1>3, <1>5, InHandHas DEF Kept

\* Without a full queue, a failure or a stop, no event is lost of a node that is
\* let in and whose batches are not too large (package comments of telemetry and
\* ingest: dropping is for pressure).
THEOREM NothingIsLostQuietly == TelemetrySpec => []LostOnlyUnderPressure
<1>1. TelemetrySpec => []LossInv
  BY LossInvInit, LossInvStep, PTL DEF TelemetrySpec
<1> QED BY <1>1, LossFollows, PTL

=============================================================================
