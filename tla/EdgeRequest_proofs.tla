------------------------- MODULE EdgeRequest_proofs -------------------------
(***************************************************************************)
(* The two promises of the clearance cookie, the one of the budgets and    *)
(* the one of the walk, for every rule language, number of hosts and       *)
(* clients, lifetime, edit and restart.                                    *)
(*                                                                         *)
(* The first two are not inductive: both need to know of every cookie in   *)
(* circulation that it was handed out with a challenge and signed for the  *)
(* zone, the address, the run and the expiry of that challenge (EntryOK).  *)
(* The third rests on what the counters have to do with the log            *)
(* (CountersInv).                                                          *)
(***************************************************************************)
EXTENDS EdgeRequest, SequenceTheorems, FiniteSetTheorems, TLAPS

\* The cookie a challenge with this entry hands out.
IssuedWith(e) ==
    [expires |-> e.at + TTL, signature |-> Sign(e.run, e.zoneId, e.req.ip, e.at + TTL)]

\* A challenge hands out its cookie, and nothing else hands one out.
EntryOK(e) ==
    /\ e.at \in Nat
    /\ e.outcome = "challenged" => e.issued = IssuedWith(e)
    /\ e.outcome # "challenged" => e.issued = NoCookie

\* The entry of a challenge for this zone and address.
HandedTo(e, zoneId, ip) == e.outcome = "challenged" /\ e.zoneId = zoneId /\ e.req.ip = ip

ClearanceInv ==
    /\ now \in Nat
    /\ log \in Seq({log[i] : i \in DOMAIN log})
    /\ \A i \in DOMAIN log : EntryOK(log[i])
    /\ ClearedWasChallenged
    /\ NoChallengeLoop

\* What handle decides about a challenge, as the entry it logs shows it.
Handled(e, cookie) ==
    /\ e.at = now /\ e.cookie = cookie /\ e.run = secret
    /\ \/ /\ e.outcome = "cleared" /\ e.issued = NoCookie
          /\ Verify(cookie, e.zoneId, e.req.ip)
       \/ /\ e.outcome = "challenged" /\ e.issued = Issue(e.zoneId, e.req.ip)
          /\ ~ Verify(cookie, e.zoneId, e.req.ip)
       \/ e.outcome \notin {"cleared", "challenged"} /\ e.issued = NoCookie

\* Every branch of handle logs exactly one such entry.
LEMMA HandleLogs ==
    ASSUME NEW req, NEW cookie, Handle(req, cookie)
    PROVE  \E e : log' = Append(log, e) /\ Handled(e, cookie)
<1>1. CASE UnknownHost(req, cookie)
  BY <1>1 DEF UnknownHost, Record, Handled
<1>2. CASE PassThrough(req, cookie)
  BY <1>2 DEF PassThrough, Record, Handled
<1>3. CASE Decide(req, cookie)
  <2> DEFINE zone == served[req.host]
             rule == Walk(zone)[Trigger(zone, req)]
             action == EffectiveAction(zone, rule)
             cleared == Verify(cookie, zone.id, req.ip)
             entry(outcome, issued) ==
                [at |-> now, req |-> req, cookie |-> cookie, zone |-> authored[req.host],
                 zoneId |-> zone.id, by |-> IF rule = Nil THEN Nil ELSE rule.id,
                 outcome |-> outcome, issued |-> issued, run |-> secret]
  <2>1. /\ zone # Nil
        /\ CASE action = "block" -> Record(req, cookie, rule, "blocked", NoCookie)
             [] action = "challenge" /\ cleared -> Record(req, cookie, rule, "cleared", NoCookie)
             [] action = "challenge" /\ ~ cleared ->
                    Record(req, cookie, rule, "challenged", Issue(zone.id, req.ip))
             [] OTHER -> Record(req, cookie, rule, "passed", NoCookie)
    BY <1>3 DEF Decide
  <2>2. \A outcome, issued :
            Record(req, cookie, rule, outcome, issued) => log' = Append(log, entry(outcome, issued))
    BY <2>1 DEF Record
  <2> HIDE DEF zone, rule, action
  <2>3. \/ Record(req, cookie, rule, "blocked", NoCookie)
        \/ cleared /\ Record(req, cookie, rule, "cleared", NoCookie)
        \/ ~ cleared /\ Record(req, cookie, rule, "challenged", Issue(zone.id, req.ip))
        \/ Record(req, cookie, rule, "passed", NoCookie)
    BY <2>1
  <2>4. CASE Record(req, cookie, rule, "blocked", NoCookie)
    <3>1. Handled(entry("blocked", NoCookie), cookie)
      BY DEF Handled
    <3> QED BY <2>2, <2>4, <3>1
  <2>5. CASE cleared /\ Record(req, cookie, rule, "cleared", NoCookie)
    <3>1. Handled(entry("cleared", NoCookie), cookie)
      BY <2>5 DEF Handled
    <3> QED BY <2>2, <2>5, <3>1
  <2>6. CASE ~ cleared /\ Record(req, cookie, rule, "challenged", Issue(zone.id, req.ip))
    <3>1. Handled(entry("challenged", Issue(zone.id, req.ip)), cookie)
      BY <2>6 DEF Handled
    <3> QED BY <2>2, <2>6, <3>1
  <2>7. CASE Record(req, cookie, rule, "passed", NoCookie)
    <3>1. Handled(entry("passed", NoCookie), cookie)
      BY DEF Handled
    <3> QED BY <2>2, <2>7, <3>1
  <2> QED BY <2>3, <2>4, <2>5, <2>6, <2>7
<1> QED BY <1>1, <1>2, <1>3 DEF Handle

\* A function on 1..n is a sequence over its values.
LEMMA SequenceOf ==
    ASSUME NEW T, NEW n \in Nat, NEW s \in [1..n -> T]
    PROVE  s \in Seq(T)
<1>1. s \in UNION {[1..m -> T] : m \in Nat}
  OBVIOUS
<1> QED BY <1>1, SeqDef

\* The log grows by one entry at its end.
LEMMA LogGrows ==
    ASSUME NEW e, log \in Seq({log[i] : i \in DOMAIN log}), log' = Append(log, e)
    PROVE  /\ log' \in Seq({log'[i] : i \in DOMAIN log'})
           /\ Len(log) \in Nat
           /\ DOMAIN log = 1..Len(log)
           /\ DOMAIN log' = 1..(Len(log) + 1)
           /\ \A i \in 1..Len(log) : log'[i] = log[i]
           /\ log'[Len(log) + 1] = e
<1> DEFINE S == {log[i] : i \in DOMAIN log} \cup {e}
<1>1. log \in Seq(S)
  <2> DEFINE T == {log[i] : i \in DOMAIN log}
  <2>1. T \subseteq S
    OBVIOUS
  <2> HIDE DEF S, T
  <2>2. log \in Seq(T)
    BY DEF T
  <2> QED BY <2>1, <2>2
<1>2. e \in S
  OBVIOUS
<1> HIDE DEF S
<1>3. /\ log' \in Seq(S)
      /\ Len(log) \in Nat
      /\ DOMAIN log = 1..Len(log)
      /\ DOMAIN log' = 1..(Len(log) + 1)
      /\ Len(log') = Len(log) + 1
      /\ \A i \in 1..Len(log) : log'[i] = log[i]
      /\ log'[Len(log) + 1] = e
  BY <1>1, <1>2
<1>4. log' \in Seq({log'[i] : i \in DOMAIN log'})
  <2> DEFINE T == {log'[i] : i \in DOMAIN log'}
  <2>1. \A i \in 1..Len(log') : log'[i] \in T
    BY <1>3
  <2>2. log' = [i \in 1..Len(log') |-> log'[i]]
    <3>1. log' \in [1..Len(log') -> S]
      BY <1>3, LenProperties
    <3> QED BY <3>1
  <2> HIDE DEF T
  <2>3. log' \in [1..Len(log') -> T]
    BY <2>1, <2>2
  <2>4. Len(log') \in Nat
    BY <1>3
  <2>5. log' \in Seq(T)
    BY <2>3, <2>4, SequenceOf
  <2> QED BY <2>5 DEF T
<1> QED BY <1>3, <1>4

\* A cookie is accepted only if it came with a challenge of this zone, this
\* address and this run, within its lifetime; and such a cookie is accepted.
LEMMA VerifyMeans ==
    ASSUME ClearanceInv, NEW zoneId, NEW ip
    PROVE  /\ \A cookie \in Cookies : Verify(cookie, zoneId, ip) =>
                \E j \in DOMAIN log : /\ Challenged(j, zoneId, ip)
                                      /\ log[j].run = secret
                                      /\ now - log[j].at < TTL
           /\ \A j \in DOMAIN log :
                /\ Challenged(j, zoneId, ip)
                /\ log[j].run = secret
                /\ now - log[j].at < TTL
                => Verify(log[j].issued, zoneId, ip)
<1>1. now \in Nat /\ TTL \in Nat
  BY ClearanceAssumption DEF ClearanceInv
<1>2. \A j \in DOMAIN log : EntryOK(log[j])
  BY DEF ClearanceInv
<1>3. ASSUME NEW cookie \in Cookies, Verify(cookie, zoneId, ip)
      PROVE  \E j \in DOMAIN log : /\ Challenged(j, zoneId, ip)
                                   /\ log[j].run = secret
                                   /\ now - log[j].at < TTL
  <2>1. cookie # NoCookie
    BY <1>1, <1>3 DEF Verify, NoCookie
  <2>2. PICK j \in DOMAIN log : cookie = log[j].issued
    BY <2>1 DEF Cookies
  <2>3. log[j].outcome = "challenged" /\ log[j].at \in Nat /\ cookie = IssuedWith(log[j])
    BY <1>2, <2>1, <2>2 DEF EntryOK
  <2>4. /\ cookie.expires = log[j].at + TTL
        /\ cookie.signature = Sign(log[j].run, log[j].zoneId, log[j].req.ip, log[j].at + TTL)
    BY <2>3 DEF IssuedWith
  <2>5. log[j].run = secret /\ log[j].zoneId = zoneId /\ log[j].req.ip = ip
    BY <1>3, <2>4 DEF Verify, Sign
  <2>6. log[j].at + TTL > now
    BY <1>3, <2>4 DEF Verify
  <2>7. now - log[j].at < TTL
    BY <1>1, <2>3, <2>6
  <2> QED BY <2>3, <2>5, <2>7 DEF Challenged
<1>4. ASSUME NEW j \in DOMAIN log, Challenged(j, zoneId, ip), log[j].run = secret,
             now - log[j].at < TTL
      PROVE  Verify(log[j].issued, zoneId, ip)
  <2>1. log[j].at \in Nat /\ log[j].issued = IssuedWith(log[j])
    BY <1>2, <1>4 DEF EntryOK, Challenged
  <2>2. log[j].at + TTL > now
    BY <1>1, <1>4, <2>1
  <2> QED BY <1>4, <2>1, <2>2 DEF Verify, IssuedWith, Sign, Challenged
<1> QED BY <1>3, <1>4

LEMMA InitClearance == EdgeRequestInit => ClearanceInv
<1> SUFFICES ASSUME EdgeRequestInit PROVE ClearanceInv
  OBVIOUS
<1>1. now = 0 /\ log = <<>>
  BY DEF EdgeRequestInit
<1>2. DOMAIN log = {}
  BY <1>1
<1>3. log \in Seq({log[i] : i \in DOMAIN log})
  BY <1>1
<1> QED BY <1>1, <1>2, <1>3 DEF ClearanceInv, ClearedWasChallenged, NoChallengeLoop

\* An answered request, whatever the request and the cookie that came with it.
LEMMA HandleKeepsClearance ==
    ASSUME ClearanceInv, NEW req, NEW cookie \in Cookies, Handle(req, cookie)
    PROVE  ClearanceInv'
<1>1. PICK e : log' = Append(log, e) /\ Handled(e, cookie)
  BY HandleLogs
<1> DEFINE n == Len(log)
<1>2. /\ log' \in Seq({log'[i] : i \in DOMAIN log'})
      /\ n \in Nat
      /\ DOMAIN log = 1..n
      /\ DOMAIN log' = 1..(n + 1)
      /\ \A i \in 1..n : log'[i] = log[i]
      /\ log'[n + 1] = e
  BY <1>1, LogGrows DEF ClearanceInv
<1> HIDE DEF n
<1>3. now' = now /\ now \in Nat
  BY DEF ClearanceInv, Handle
<1>4. EntryOK(e)
  BY <1>1, <1>3 DEF Handled, EntryOK, IssuedWith, Issue
<1>5. \A i \in DOMAIN log' : EntryOK(log'[i])
  BY <1>2, <1>4 DEF ClearanceInv
<1>6. \A i \in 1..(n + 1) : i \in 1..n \/ i = n + 1
  BY <1>2
<1>7. \A i \in 1..(n + 1) : \A j \in 1..(i - 1) : j \in 1..n
  BY <1>2
<1>9. e.at = now /\ e.run = secret /\ e.cookie = cookie
  BY <1>1 DEF Handled
<1>10. ASSUME NEW i \in 1..(n + 1), log'[i].outcome = "cleared"
       PROVE  \E j \in 1..(i - 1) :
                  /\ HandedTo(log'[j], log'[i].zoneId, log'[i].req.ip)
                  /\ log'[j].run = log'[i].run
                  /\ log'[i].at - log'[j].at < TTL
  <2>1. CASE i \in 1..n
    <3>1. log'[i] = log[i] /\ i \in DOMAIN log
      BY <1>2, <2>1
    <3>2. PICK j \in 1..(i - 1) : /\ Challenged(j, log[i].zoneId, log[i].req.ip)
                                  /\ log[j].run = log[i].run
                                  /\ log[i].at - log[j].at < TTL
      BY <1>10, <3>1 DEF ClearanceInv, ClearedWasChallenged
    <3>3. j \in 1..n /\ log'[j] = log[j]
      BY <1>2, <1>7
    <3> QED BY <3>1, <3>2, <3>3 DEF HandedTo, Challenged
  <2>2. CASE i = n + 1
    <3>1. log'[i] = e
      BY <1>2, <2>2
    <3>2. Verify(cookie, e.zoneId, e.req.ip)
      BY <1>1, <1>10, <3>1 DEF Handled
    <3>3. PICK j \in DOMAIN log : /\ Challenged(j, e.zoneId, e.req.ip)
                                  /\ log[j].run = secret
                                  /\ now - log[j].at < TTL
      BY <3>2, VerifyMeans
    <3>4. j \in 1..(i - 1) /\ j \in 1..n /\ log'[j] = log[j]
      BY <1>2, <2>2, <3>3
    <3> QED BY <1>9, <3>1, <3>3, <3>4 DEF HandedTo, Challenged
  <2> QED BY <1>6, <2>1, <2>2
<1>11. ASSUME NEW i \in 1..(n + 1), log'[i].outcome = "challenged",
              NEW j \in 1..(i - 1),
              HandedTo(log'[j], log'[i].zoneId, log'[i].req.ip),
              log'[i].cookie = log'[j].issued,
              log'[j].run = log'[i].run,
              log'[i].at - log'[j].at < TTL
       PROVE  FALSE
  <2>1. j \in 1..n /\ log'[j] = log[j]
    BY <1>2, <1>7
  <2>2. Challenged(j, log'[i].zoneId, log'[i].req.ip)
    BY <1>11, <2>1 DEF HandedTo, Challenged
  <2>3. CASE i \in 1..n
    <3>1. log'[i] = log[i] /\ i \in DOMAIN log
      BY <1>2, <2>3
    <3> QED BY <1>11, <2>1, <2>2, <3>1 DEF ClearanceInv, NoChallengeLoop
  <2>4. CASE i = n + 1
    <3>1. log'[i] = e
      BY <1>2, <2>4
    <3>2. ~ Verify(cookie, e.zoneId, e.req.ip)
      BY <1>1, <1>11, <3>1 DEF Handled
    <3>3. Verify(log[j].issued, e.zoneId, e.req.ip)
      BY <1>2, <1>9, <1>11, <2>1, <2>2, <3>1, VerifyMeans
    <3> QED BY <1>9, <1>11, <2>1, <3>1, <3>2, <3>3
  <2> QED BY <1>6, <2>3, <2>4
<1>12. ClearedWasChallenged'
  BY <1>2, <1>10 DEF ClearedWasChallenged, Challenged, HandedTo
<1>13. NoChallengeLoop'
  BY <1>2, <1>11 DEF NoChallengeLoop, Challenged, HandedTo
<1> QED BY <1>2, <1>3, <1>5, <1>12, <1>13 DEF ClearanceInv, EntryOK, IssuedWith, Sign, NoCookie

\* Nothing but a request writes the log, and time only goes forward.
LEMMA StepKeepsClearance ==
    ASSUME ClearanceInv, [EdgeRequestNext]_edgeRequestVars
    PROVE  ClearanceInv'
<1>1. CASE \E req \in Requests(authored), cookie \in Cookies : Handle(req, cookie)
  BY <1>1, HandleKeepsClearance
<1>2. ASSUME log' = log, now' \in Nat
      PROVE  ClearanceInv'
  <2>1. ClearedWasChallenged' /\ NoChallengeLoop'
    BY <1>2 DEF ClearanceInv, ClearedWasChallenged, NoChallengeLoop, Challenged
  <2> QED BY <1>2, <2>1 DEF ClearanceInv, EntryOK, IssuedWith, Sign, NoCookie
<1>3. CASE Tick \/ Republish \/ Restart \/ UNCHANGED edgeRequestVars
  <2>1. log' = log /\ now' \in Nat
    BY <1>3 DEF Tick, Republish, Restart, edgeRequestVars, ClearanceInv
  <2> QED BY <1>2, <2>1
<1> QED BY <1>1, <1>3 DEF EdgeRequestNext

LEMMA ClearanceInvariant == EdgeRequestSpec => []ClearanceInv
<1> QED BY InitClearance, StepKeepsClearance, PTL DEF EdgeRequestSpec

\* Whoever is let through on a cookie was challenged for that zone, on that
\* address, by that run of the node and within the lifetime (clearance.Verify):
\* no cookie can be carried to another zone, client, run or expiry.
THEOREM ClearanceIsEarned == EdgeRequestSpec => []ClearedWasChallenged
<1>1. ClearanceInv => ClearedWasChallenged
  BY DEF ClearanceInv
<1> QED BY <1>1, ClearanceInvariant, PTL

\* A client that brings back the cookie of its challenge in time is let
\* through: the challenge cannot loop (waf-edge handle).
THEOREM ClearanceEndsTheChallenge == EdgeRequestSpec => []NoChallengeLoop
<1>1. ClearanceInv => NoChallengeLoop
  BY DEF ClearanceInv
<1> QED BY <1>1, ClearanceInvariant, PTL

(***************************************************************************)
(* Budgets: a counter never shows more than the requests that were counted *)
(* on it since its window began, across edits and restarts.                *)
(***************************************************************************)

\* The request of this entry matched a record with this budget.
AppliesTo(e, key) ==
    /\ CompiledFor(e.zone) # Nil
    /\ \E m \in DOMAIN Walk(CompiledFor(e.zone)) :
        /\ IsCharged(Walk(CompiledFor(e.zone))[m], e.req)
        /\ Key(CompiledFor(e.zone), Walk(CompiledFor(e.zone))[m], e.req.ip) = key

\* The first n requests of a log that matched it in one run, from a time on.
Since(l, n, key, run, at) ==
    {j \in 1..n : AppliesTo(l[j], key) /\ l[j].run = run /\ l[j].at >= at}

\* This record acted on request i, and had been matched beyond its budget.
ActedBy(rule, l, i) ==
    /\ rule.id = l[i].by
    /\ Applies(rule, l[i].req)
    /\ rule.limit # Nil /\ rule.limit.window > 0 =>
           \E at \in 0..l[i].at :
               /\ l[i].at - at < rule.limit.window
               /\ Cardinality(Since(l, i, Key(CompiledFor(l[i].zone), rule, l[i].req.ip), l[i].run, at))
                      > rule.limit.threshold

\* A record acts only on a request it matches, and one with a budget only
\* once more requests than its threshold matched it within its window and
\* this run (evaluate.Evaluate, RateLimiter.Check).
BudgetIsUsedUp ==
    \A i \in DOMAIN log : log[i].by # Nil =>
        \E m \in DOMAIN Walk(CompiledFor(log[i].zone)) :
            ActedBy(Walk(CompiledFor(log[i].zone))[m], log, i)

CountersInv ==
    \A key \in Keys : kept[key] # Nil =>
        /\ kept[key].start <= now
        /\ kept[key].hits <= Cardinality(Since(log, Len(log), key, secret, kept[key].start))

BudgetInv ==
    /\ EdgeRequestTypeOK
    /\ log \in Seq({log[i] : i \in DOMAIN log})
    /\ CountersInv
    /\ BudgetIsUsedUp

\* A set of naturals has a least element.
LEMMA LeastExists ==
    ASSUME NEW S \in SUBSET Nat, S # {}
    PROVE  \E i \in S : \A j \in S : i <= j
<1> DEFINE R == OpToRel(<, Nat)
<1>1. IsWellFoundedOn(R, Nat)
  BY NatLessThanWellFounded
<1>2. \A x, y \in Nat : x < y => <<x, y>> \in R
  BY DEF OpToRel
<1> HIDE DEF R
<1>3. \E i \in S : \A j \in S : ~ (<<j, i>> \in R)
  BY <1>1, WFMin
<1>4. PICK i \in S : \A j \in S : ~ (<<j, i>> \in R)
  BY <1>3
<1>5. \A j \in S : ~ (j < i)
  BY <1>2, <1>4, S \subseteq Nat
<1> QED BY <1>4, <1>5

\* The rule that acts is one of the walk, and it fires.
LEMMA TriggerFires ==
    ASSUME NEW zone, NEW req, DOMAIN Walk(zone) \subseteq Nat \ {0}, Trigger(zone, req) # 0
    PROVE  /\ Trigger(zone, req) \in DOMAIN Walk(zone)
           /\ Fires(zone, Walk(zone)[Trigger(zone, req)], req)
<1> DEFINE firing == {i \in DOMAIN Walk(zone) : Fires(zone, Walk(zone)[i], req)}
<1>1. firing # {} /\ Trigger(zone, req) = CHOOSE i \in firing : \A j \in firing : i <= j
  BY DEF Trigger
<1>2. firing \in SUBSET Nat
  OBVIOUS
<1>3. \E i \in firing : \A j \in firing : i <= j
  <2> HIDE DEF firing
  <2> QED BY <1>1, <1>2, LeastExists
<1>4. Trigger(zone, req) \in firing
  <2> HIDE DEF firing
  <2> QED BY <1>1, <1>3
<1> QED BY <1>4

\* One hit, whatever the limit: the counter stays one, and counts one more or anew.
LEMMA CountedOnce ==
    ASSUME NEW c \in Limiter!Counter \cup {Nil}, NEW limit, now \in 0..MaxClock
    PROVE  LET d == Limiter!Counted(c, now, limit)
           IN  /\ d \in Limiter!Counter
               /\ \/ d.start = now /\ d.hits <= 1
                  \/ /\ c # Nil /\ d.start = c.start /\ d.hits <= c.hits + 1
                     /\ ~ (now - c.start >= limit.window)
<1> DEFINE old == IF c = Nil THEN Limiter!Fresh(now) ELSE c
           cur == IF now - old.start >= limit.window THEN Limiter!Fresh(now) ELSE old
           d == Limiter!Counted(c, now, limit)
<1>1. Wrap \in Nat \ {0} /\ now \in Nat
  BY NodeAssumption, ClearanceAssumption
<1>2. Limiter!Fresh(now) \in Limiter!Counter /\ Limiter!Fresh(now).start = now /\ Limiter!Fresh(now).hits = 0
  BY <1>1 DEF Limiter!Fresh, Limiter!Counter
<1>3. \/ cur = Limiter!Fresh(now)
      \/ c # Nil /\ cur = c /\ ~ (now - c.start >= limit.window)
  BY <1>2
<1>4. cur \in Limiter!Counter
  BY <1>2, <1>3
<1>5. d = [start |-> cur.start, hits |-> (cur.hits + 1) % Wrap, last |-> now]
  BY DEF Limiter!Counted
<1> HIDE DEF cur, d
<1>6. cur.hits \in Nat /\ cur.start \in 0..MaxClock
  BY <1>1, <1>4 DEF Limiter!Counter
<1>7. \A n \in Nat : (n + 1) % Wrap \in 0..(Wrap - 1) /\ (n + 1) % Wrap <= n + 1
  BY <1>1
<1>8. (cur.hits + 1) % Wrap \in 0..(Wrap - 1) /\ (cur.hits + 1) % Wrap <= cur.hits + 1
  BY <1>6, <1>7
<1>9. d \in Limiter!Counter /\ d.start = cur.start /\ d.hits <= cur.hits + 1
  BY <1>5, <1>6, <1>8 DEF Limiter!Counter
<1> QED BY <1>2, <1>3, <1>9 DEF d

\* The counters after a request: as they were, or hit once for a record it matched.
LEMMA CountCharges ==
    ASSUME NEW zone, NEW req, Count(zone, req)
    PROVE  /\ kept' = [key \in Keys |-> kept'[key]]
           /\ \A key \in Keys :
                \/ kept'[key] = kept[key]
                \/ \E i \in DOMAIN Walk(zone) :
                    /\ IsCharged(Walk(zone)[i], req)
                    /\ Key(zone, Walk(zone)[i], req.ip) = key
                    /\ kept'[key] = Limiter!Counted(kept[key], now, Walk(zone)[i].limit)
<1> DEFINE t == Trigger(zone, req)
           charged == {i \in DOMAIN Walk(zone) : (t = 0 \/ i <= t) /\ IsCharged(Walk(zone)[i], req)}
           RuleOf(key) == {Walk(zone)[i] : i \in {i \in charged : Key(zone, Walk(zone)[i], req.ip) = key}}
<1>1. kept' = [key \in Keys |-> IF RuleOf(key) = {} THEN kept[key]
                                ELSE Hit(zone, CHOOSE r \in RuleOf(key) : TRUE, req.ip)]
  BY DEF Count
<1>2. ASSUME NEW key \in Keys, RuleOf(key) # {}
      PROVE  \E i \in DOMAIN Walk(zone) :
                    /\ IsCharged(Walk(zone)[i], req)
                    /\ Key(zone, Walk(zone)[i], req.ip) = key
                    /\ kept'[key] = Limiter!Counted(kept[key], now, Walk(zone)[i].limit)
  <2> DEFINE r == CHOOSE r \in RuleOf(key) : TRUE
  <2>1. r \in RuleOf(key)
    <3> HIDE DEF RuleOf
    <3> QED BY <1>2
  <2>2. kept'[key] = Hit(zone, r, req.ip)
    <3> HIDE DEF RuleOf
    <3> QED BY <1>1, <1>2
  <2> HIDE DEF r
  <2>3. PICK i \in DOMAIN Walk(zone) : /\ IsCharged(Walk(zone)[i], req)
                                       /\ Key(zone, Walk(zone)[i], req.ip) = key
                                       /\ r = Walk(zone)[i]
    BY <2>1
  <2> QED BY <2>2, <2>3 DEF Hit
<1> HIDE DEF RuleOf
<1>3. \A key \in Keys : RuleOf(key) = {} => kept'[key] = kept[key]
  BY <1>1
<1> QED BY <1>1, <1>2, <1>3

\* The requests counted among a longer log are no fewer.
LEMMA SinceNeverShrinks ==
    ASSUME NEW l, NEW m, NEW n \in Nat, \A j \in 1..n : m[j] = l[j],
           NEW key, NEW run, NEW at
    PROVE  /\ Cardinality(Since(l, n, key, run, at)) \in Nat
           /\ Cardinality(Since(m, n + 1, key, run, at)) \in Nat
           /\ Cardinality(Since(m, n + 1, key, run, at)) >= Cardinality(Since(l, n, key, run, at))
<1> DEFINE S == Since(l, n, key, run, at)
           T == Since(m, n + 1, key, run, at)
<1>1. S \subseteq T /\ T \subseteq 1..(n + 1)
  BY DEF Since
<1> HIDE DEF S, T
<1>2. IsFiniteSet(1..(n + 1))
  BY FS_Interval
<1>3. IsFiniteSet(T)
  BY <1>1, <1>2, FS_Subset
<1>4. IsFiniteSet(S) /\ Cardinality(S) <= Cardinality(T)
  BY <1>1, <1>3, FS_Subset
<1>5. Cardinality(S) \in Nat /\ Cardinality(T) \in Nat
  BY <1>3, <1>4, FS_CardinalityType
<1> QED BY <1>4, <1>5 DEF S, T

\* One more request that matched is one more counted, from any time not after it.
LEMMA SinceGrows ==
    ASSUME NEW l, NEW m, NEW n \in Nat, \A j \in 1..n : m[j] = l[j],
           NEW key, NEW run, NEW at,
           AppliesTo(m[n + 1], key), m[n + 1].run = run, m[n + 1].at >= at
    PROVE  Cardinality(Since(m, n + 1, key, run, at)) >= Cardinality(Since(l, n, key, run, at)) + 1
<1> DEFINE S == Since(l, n, key, run, at)
           T == Since(m, n + 1, key, run, at)
<1>1. S \subseteq 1..n /\ T \subseteq 1..(n + 1) /\ S \subseteq T /\ n + 1 \in T
  BY DEF Since
<1> HIDE DEF S, T
<1>2. IsFiniteSet(1..n) /\ IsFiniteSet(1..(n + 1))
  BY FS_Interval
<1>3. IsFiniteSet(S) /\ IsFiniteSet(T)
  BY <1>1, <1>2, FS_Subset
<1>4. n + 1 \notin S /\ S \cup {n + 1} \subseteq T
  BY <1>1
<1>5. /\ IsFiniteSet(S \cup {n + 1})
      /\ Cardinality(S \cup {n + 1}) = Cardinality(S) + 1
  BY <1>3, <1>4, FS_AddElement
<1>6. Cardinality(S \cup {n + 1}) <= Cardinality(T)
  BY <1>3, <1>4, FS_Subset
<1> QED BY <1>5, <1>6 DEF S, T

\* A counter just hit for a record that a new request matched still shows no
\* more than what was counted since its window began.
LEMMA HitIsCounted ==
    ASSUME BudgetInv, NEW m, NEW n \in Nat, n = Len(log), \A j \in 1..n : m[j] = log[j],
           NEW key \in Keys, AppliesTo(m[n + 1], key), m[n + 1].run = secret, m[n + 1].at = now,
           NEW limit
    PROVE  LET d == Limiter!Counted(kept[key], now, limit)
           IN  /\ d \in Limiter!Counter
               /\ d.start \in Nat /\ d.hits \in Nat /\ d.start <= now
               /\ d.hits <= Cardinality(Since(m, n + 1, key, secret, d.start))
               /\ limit.window \in Nat /\ limit.window > 0 => now - d.start < limit.window
<1> DEFINE c == kept[key]
           d == Limiter!Counted(c, now, limit)
           before == Cardinality(Since(log, n, key, secret, d.start))
           after == Cardinality(Since(m, n + 1, key, secret, d.start))
<1>1. c \in Limiter!Counter \cup {Nil} /\ now \in 0..MaxClock
  BY DEF BudgetInv, EdgeRequestTypeOK
<1>2. /\ d \in Limiter!Counter
      /\ \/ d.start = now /\ d.hits <= 1
         \/ /\ c # Nil /\ d.start = c.start /\ d.hits <= c.hits + 1
            /\ ~ (now - c.start >= limit.window)
  <2> HIDE DEF c
  <2> QED BY <1>1, CountedOnce
<1>3. d.start \in 0..MaxClock /\ d.hits \in 0..(Wrap - 1) /\ MaxClock \in Nat /\ Wrap \in Nat /\ now \in Nat
  <2> HIDE DEF d
  <2>1. MaxClock \in Nat /\ Wrap \in Nat
    BY NodeAssumption, ClearanceAssumption
  <2>2. d.start \in 0..MaxClock /\ d.hits \in 0..(Wrap - 1)
    BY <1>2 DEF Limiter!Counter
  <2> QED BY <1>1, <2>1, <2>2
<1>4. before \in Nat /\ after \in Nat /\ (now >= d.start => after >= before + 1) /\ after >= before
  <2> HIDE DEF d
  <2>1. \A j \in 1..n : m[j] = log[j]
    OBVIOUS
  <2>2. before \in Nat /\ after \in Nat /\ after >= before
    BY <2>1, SinceNeverShrinks
  <2>3. m[n + 1].at >= d.start => after >= before + 1
    BY <2>1, SinceGrows
  <2> HIDE DEF before, after
  <2> QED BY <2>2, <2>3
<1>5. c # Nil => c.start <= now /\ c.hits <= Cardinality(Since(log, n, key, secret, c.start)) /\ c.hits \in Nat /\ c.start \in Nat
  <2>1. c # Nil => /\ c.start <= now
                   /\ c.hits <= Cardinality(Since(log, n, key, secret, c.start))
    BY DEF BudgetInv, CountersInv
  <2>2. c # Nil => c.start \in 0..MaxClock /\ c.hits \in 0..(Wrap - 1)
    BY <1>1 DEF Limiter!Counter
  <2> HIDE DEF c
  <2> QED BY <1>3, <2>1, <2>2
<1>6. CASE d.start = now /\ d.hits <= 1
  <2>1. d.start <= now /\ d.hits <= after
    <3> HIDE DEF d, after, before
    <3> QED BY <1>3, <1>4, <1>6
  <2>2. limit.window \in Nat /\ limit.window > 0 => now - d.start < limit.window
    <3> HIDE DEF c, d
    <3> QED BY <1>3, <1>6
  <2> HIDE DEF c
  <2> QED BY <1>2, <1>3, <2>1, <2>2 DEF c
<1>7. CASE /\ c # Nil /\ d.start = c.start /\ d.hits <= c.hits + 1
           /\ ~ (now - c.start >= limit.window)
  <2>1. before >= c.hits
    <3>1. before = Cardinality(Since(log, n, key, secret, c.start))
      BY <1>7
    <3> HIDE DEF c, d, before
    <3> QED BY <1>4, <1>5, <1>7, <3>1
  <2>2. d.start <= now /\ d.hits <= after
    <3> HIDE DEF d, after, before
    <3> QED BY <1>3, <1>4, <1>5, <1>7, <2>1
  <2>3. limit.window \in Nat /\ limit.window > 0 => now - d.start < limit.window
    <3> HIDE DEF c, d
    <3> QED BY <1>3, <1>5, <1>7
  <2> HIDE DEF c
  <2> QED BY <1>2, <1>3, <2>2, <2>3 DEF c
<1> QED BY <1>2, <1>6, <1>7

Outcomes == {"unknownHost", "passed", "blocked", "cleared", "challenged"}

\* What handle decides about rules and budgets, as the entry it logs shows it.
Acted(e, req) ==
    LET zone == served[req.host]
    IN  /\ e.at = now /\ e.run = secret /\ e.req = req /\ e.zone = authored[req.host]
        /\ e.outcome \in Outcomes
        /\ zone = Nil => e.by = Nil /\ kept' = kept
        /\ zone # Nil =>
               /\ Count(zone, req)
               /\ e.by # Nil => /\ Trigger(zone, req) # 0
                                /\ e.by = Walk(zone)[Trigger(zone, req)].id

LEMMA HandleActs ==
    ASSUME NEW req, NEW cookie, Handle(req, cookie)
    PROVE  \E e : log' = Append(log, e) /\ Acted(e, req)
<1>1. CASE UnknownHost(req, cookie)
  BY <1>1 DEF UnknownHost, Record, Acted, Outcomes
<1>2. CASE PassThrough(req, cookie)
  BY <1>2 DEF PassThrough, Record, Acted, Outcomes
<1>3. CASE Decide(req, cookie)
  <2> DEFINE zone == served[req.host]
             rule == Walk(zone)[Trigger(zone, req)]
             action == EffectiveAction(zone, rule)
             cleared == Verify(cookie, zone.id, req.ip)
             entry(outcome, issued) ==
                [at |-> now, req |-> req, cookie |-> cookie, zone |-> authored[req.host],
                 zoneId |-> zone.id, by |-> IF rule = Nil THEN Nil ELSE rule.id,
                 outcome |-> outcome, issued |-> issued, run |-> secret]
  <2>1. /\ zone # Nil /\ Trigger(zone, req) # 0 /\ Count(zone, req)
        /\ CASE action = "block" -> Record(req, cookie, rule, "blocked", NoCookie)
             [] action = "challenge" /\ cleared -> Record(req, cookie, rule, "cleared", NoCookie)
             [] action = "challenge" /\ ~ cleared ->
                    Record(req, cookie, rule, "challenged", Issue(zone.id, req.ip))
             [] OTHER -> Record(req, cookie, rule, "passed", NoCookie)
    BY <1>3 DEF Decide
  <2>2. \A outcome, issued :
            Record(req, cookie, rule, outcome, issued) => log' = Append(log, entry(outcome, issued))
    BY <2>1 DEF Record
  <2>3. \A outcome \in Outcomes : \A issued : Acted(entry(outcome, issued), req)
    BY <2>1 DEF Acted
  <2> HIDE DEF zone, rule, action, entry, cleared
  <2>4. \E outcome \in Outcomes : \E issued : Record(req, cookie, rule, outcome, issued)
    BY <2>1 DEF Outcomes
  <2> QED BY <2>2, <2>3, <2>4
<1> QED BY <1>1, <1>2, <1>3 DEF Handle

LEMMA InitBudgets == EdgeRequestInit => BudgetInv
<1> SUFFICES ASSUME EdgeRequestInit PROVE BudgetInv
  OBVIOUS
<1>1. now = 0 /\ secret = 0 /\ log = <<>> /\ kept = [key \in Keys |-> Nil]
  BY DEF EdgeRequestInit
<1>2. DOMAIN log = {}
  BY <1>1
<1>3. log \in Seq({log[i] : i \in DOMAIN log})
  BY <1>1
<1>4. EdgeRequestTypeOK
  BY <1>1, <1>2, ClearanceAssumption DEF EdgeRequestInit, EdgeRequestTypeOK, Authored
<1> QED BY <1>1, <1>2, <1>3, <1>4 DEF BudgetInv, CountersInv, BudgetIsUsedUp

\* An answered request: it is counted on what it matched, and the record that
\* acted, if it has a budget, was beyond it.
LEMMA HandleKeepsBudgets ==
    ASSUME BudgetInv, NEW req \in Requests(authored), NEW cookie, Handle(req, cookie)
    PROVE  BudgetInv'
<1> DEFINE n == Len(log)
           zone == served[req.host]
<1>1. PICK e : log' = Append(log, e) /\ Acted(e, req)
  BY HandleActs
<1>2. /\ log' \in Seq({log'[i] : i \in DOMAIN log'})
      /\ n \in Nat
      /\ DOMAIN log = 1..n
      /\ DOMAIN log' = 1..(n + 1)
      /\ \A i \in 1..n : log'[i] = log[i]
      /\ log'[n + 1] = e
  BY <1>1, LogGrows DEF BudgetInv
<1>3. Len(log') = n + 1
  BY <1>2
<1>4. UNCHANGED <<authored, served, now, secret>>
  BY DEF Handle
<1>5. authored \in Authored /\ served = [h \in Hosts |-> CompiledFor(authored[h])]
  BY DEF BudgetInv, EdgeRequestTypeOK
<1>6. zone = CompiledFor(e.zone)
  BY <1>1, <1>5, NodeAssumption DEF Acted
<1>7. zone # Nil =>
        /\ DOMAIN Walk(zone) \subseteq Nat \ {0}
        /\ \A i \in DOMAIN Walk(zone) : Walk(zone)[i].limit # Nil =>
               /\ Walk(zone)[i].limit \in [threshold: Nat, window: Nat]
               /\ Key(zone, Walk(zone)[i], req.ip) \in Keys
  <2>1. zone = CompiledFor(authored[req.host])
    BY <1>5, NodeAssumption
  <2> HIDE DEF zone
  <2> QED BY <1>5, <2>1, NodeAssumption
<1>8. e.at = now /\ e.run = secret /\ e.req = req /\ e.outcome \in Outcomes
  BY <1>1 DEF Acted
<1>9. now \in Nat /\ kept \in [Keys -> Limiter!Counter \cup {Nil}]
  BY ClearanceAssumption DEF BudgetInv, EdgeRequestTypeOK
\* The request matched what it is counted on.
<1>10. \A i \in DOMAIN Walk(zone) :
           zone # Nil /\ IsCharged(Walk(zone)[i], req) => AppliesTo(log'[n + 1], Key(zone, Walk(zone)[i], req.ip))
  BY <1>2, <1>6, <1>8 DEF AppliesTo
<1>11. \A key \in Keys :
           \/ kept'[key] = kept[key]
           \/ \E limit : /\ AppliesTo(log'[n + 1], key)
                         /\ kept'[key] = Limiter!Counted(kept[key], now, limit)
  <2>1. CASE zone = Nil
    BY <1>1, <2>1 DEF Acted
  <2>2. CASE zone # Nil
    <3>1. Count(zone, req)
      BY <1>1, <2>2 DEF Acted
    <3> HIDE DEF zone, n
    <3> QED BY <1>10, <2>2, <3>1, CountCharges
  <2> QED BY <2>1, <2>2
<1>12. kept' = [key \in Keys |-> kept'[key]]
  <2>1. CASE zone = Nil
    BY <1>1, <1>9, <2>1 DEF Acted
  <2>2. CASE zone # Nil
    <3>1. Count(zone, req)
      BY <1>1, <2>2 DEF Acted
    <3> QED BY <3>1, CountCharges
  <2> QED BY <2>1, <2>2
<1> HIDE DEF zone, n
<1>13. \A key \in Keys : AppliesTo(log'[n + 1], key) => \A limit :
           LET d == Limiter!Counted(kept[key], now, limit)
           IN  /\ d \in Limiter!Counter
               /\ d.start \in Nat /\ d.hits \in Nat /\ d.start <= now
               /\ d.hits <= Cardinality(Since(log', n + 1, key, secret, d.start))
               /\ limit.window \in Nat /\ limit.window > 0 => now - d.start < limit.window
  BY <1>2, <1>8, HitIsCounted DEF n
<1>14. EdgeRequestTypeOK'
  <2>1. \A key \in Keys : kept'[key] \in Limiter!Counter \cup {Nil}
    BY <1>9, <1>11, <1>13
  <2>2. kept' \in [Keys -> Limiter!Counter \cup {Nil}]
    BY <1>12, <2>1
  <2>3. \A i \in DOMAIN log' : log'[i].outcome \in Outcomes
    <3>1. \A i \in 1..(n + 1) : i \in 1..n \/ i = n + 1
      BY <1>2
    <3> QED BY <1>2, <1>8, <3>1 DEF BudgetInv, EdgeRequestTypeOK, Outcomes
  <2>4. Limiter!Counter' = Limiter!Counter
    BY DEF Limiter!Counter
  <2> QED BY <1>4, <2>2, <2>3, <2>4 DEF BudgetInv, EdgeRequestTypeOK, Outcomes
<1>15. CountersInv'
  <2> SUFFICES ASSUME NEW key \in Keys, kept'[key] # Nil
               PROVE  /\ kept'[key].start <= now
                      /\ kept'[key].hits <= Cardinality(Since(log', n + 1, key, secret, kept'[key].start))
    BY <1>3, <1>4 DEF CountersInv
  <2>1. CASE kept'[key] = kept[key]
    <3> DEFINE at == kept[key].start
    <3>1. /\ at <= now
          /\ kept[key].hits <= Cardinality(Since(log, n, key, secret, at))
      BY <2>1 DEF BudgetInv, CountersInv, n
    <3>2. kept[key].hits \in Nat
      BY <1>9, <2>1, NodeAssumption DEF Limiter!Counter
    <3> HIDE DEF at
    <3>3. /\ Cardinality(Since(log, n, key, secret, at)) \in Nat
          /\ Cardinality(Since(log', n + 1, key, secret, at)) \in Nat
          /\ Cardinality(Since(log', n + 1, key, secret, at)) >= Cardinality(Since(log, n, key, secret, at))
      <4>1. n \in Nat /\ \A j \in 1..n : log'[j] = log[j]
        BY <1>2
      <4> HIDE DEF n
      <4> QED BY <4>1, SinceNeverShrinks
    <3> QED BY <2>1, <3>1, <3>2, <3>3 DEF at
  <2>2. CASE kept'[key] # kept[key]
    BY <1>11, <1>13, <2>2
  <2> QED BY <2>1, <2>2
<1>16. BudgetIsUsedUp'
  <2> SUFFICES ASSUME NEW i \in 1..(n + 1), log'[i].by # Nil
               PROVE  \E m \in DOMAIN Walk(CompiledFor(log'[i].zone)) :
                          ActedBy(Walk(CompiledFor(log'[i].zone))[m], log', i)
    BY <1>2 DEF BudgetIsUsedUp
  <2>1. CASE i \in 1..n
    <3>1. log'[i] = log[i] /\ \A j \in 1..i : log'[j] = log[j]
      BY <1>2, <2>1
    <3>2. \A key, run, at : Since(log', i, key, run, at) = Since(log, i, key, run, at)
      BY <3>1 DEF Since
    <3>3. PICK m \in DOMAIN Walk(CompiledFor(log[i].zone)) :
              ActedBy(Walk(CompiledFor(log[i].zone))[m], log, i)
      BY <1>2, <2>1, <3>1 DEF BudgetInv, BudgetIsUsedUp
    <3>4. ActedBy(Walk(CompiledFor(log[i].zone))[m], log', i)
      BY <3>1, <3>2, <3>3 DEF ActedBy
    <3> QED BY <3>1, <3>4
  <2>2. CASE i = n + 1
    <3> DEFINE t == Trigger(zone, req)
               rule == Walk(zone)[t]
               key == Key(zone, rule, req.ip)
               d == Hit(zone, rule, req.ip)
    <3>1. log'[i] = e /\ e.by # Nil
      BY <1>2, <2>2
    <3>2. zone # Nil /\ t # 0 /\ e.by = rule.id
      BY <1>1, <3>1 DEF Acted, zone
    <3>3. t \in DOMAIN Walk(zone) /\ Fires(zone, rule, req)
      BY <1>7, <3>2, TriggerFires
    <3>4. ActedBy(rule, log', i)
      <4>1. Applies(rule, req)
        BY <3>3 DEF Fires
      <4>2. ASSUME rule.limit # Nil, rule.limit.window > 0
            PROVE  \E at \in 0..now :
                       /\ now - at < rule.limit.window
                       /\ Cardinality(Since(log', n + 1, key, secret, at)) > rule.limit.threshold
        <5>1. key \in Keys /\ rule.limit \in [threshold: Nat, window: Nat]
          BY <1>7, <3>2, <3>3, <4>2
        <5>2. AppliesTo(log'[n + 1], key)
          BY <1>10, <3>2, <3>3, <4>1, <4>2 DEF IsCharged
        <5>3. d.hits > rule.limit.threshold
          BY <3>3, <4>2 DEF Fires, Limiter!Over
        <5>4. d = Limiter!Counted(kept[key], now, rule.limit)
          BY DEF Hit
        <5> HIDE DEF d, key, rule
        <5>5. /\ d.start \in Nat /\ d.hits \in Nat /\ d.start \in 0..now
              /\ d.hits <= Cardinality(Since(log', n + 1, key, secret, d.start))
              /\ now - d.start < rule.limit.window
          BY <1>9, <1>13, <4>2, <5>1, <5>2, <5>4
        <5>6. Cardinality(Since(log', n + 1, key, secret, d.start)) \in Nat
          <6>1. n \in Nat /\ \A j \in 1..n : log'[j] = log[j]
            BY <1>2
          <6> HIDE DEF n
          <6> QED BY <6>1, SinceNeverShrinks
        <5>7. rule.limit.threshold \in Nat
          BY <5>1
        <5>8. Cardinality(Since(log', n + 1, key, secret, d.start)) > rule.limit.threshold
          BY <5>3, <5>5, <5>6, <5>7
        <5> QED BY <5>5, <5>8
      <4> HIDE DEF rule
      <4> QED BY <1>6, <1>8, <2>2, <3>1, <3>2, <4>1, <4>2 DEF ActedBy
    <3> HIDE DEF t
    <3> QED BY <1>6, <3>1, <3>3, <3>4
  <2> QED BY <1>2, <2>1, <2>2
<1> QED BY <1>2, <1>14, <1>15, <1>16 DEF BudgetInv

\* Time, edits and restarts leave the log alone; a restart forgets every counter.
LEMMA StepKeepsBudgets ==
    ASSUME BudgetInv, [EdgeRequestNext]_edgeRequestVars
    PROVE  BudgetInv'
<1>1. CASE \E req \in Requests(authored), cookie \in Cookies : Handle(req, cookie)
  BY <1>1, HandleKeepsBudgets
<1>2. ASSUME log' = log, CountersInv', EdgeRequestTypeOK'
      PROVE  BudgetInv'
  <2>1. BudgetIsUsedUp'
    BY <1>2 DEF BudgetInv, BudgetIsUsedUp
  <2> QED BY <1>2, <2>1 DEF BudgetInv
<1>3. EdgeRequestTypeOK /\ MaxClock \in Nat /\ MaxRestarts \in Nat /\ now \in Nat
  BY ClearanceAssumption DEF BudgetInv, EdgeRequestTypeOK
<1>4. CASE Tick
  <2>1. now' = now + 1 /\ now' \in 0..MaxClock /\ UNCHANGED <<authored, served, kept, secret, log>>
    BY <1>3, <1>4 DEF Tick, EdgeRequestTypeOK
  <2>2. EdgeRequestTypeOK'
    BY <1>3, <2>1 DEF EdgeRequestTypeOK, Limiter!Counter
  <2>3. CountersInv'
    <3>1. \A key \in Keys : kept[key] # Nil => kept[key].start \in Nat
      BY <1>3, ClearanceAssumption DEF EdgeRequestTypeOK, Limiter!Counter
    <3> QED BY <1>3, <2>1, <3>1 DEF BudgetInv, CountersInv
  <2> QED BY <1>2, <2>1, <2>2, <2>3
<1>5. CASE Republish
  <2>1. /\ authored' \in Authored /\ served' = [h \in Hosts |-> CompiledFor(authored'[h])]
        /\ UNCHANGED <<now, kept, secret, log>>
    BY <1>5 DEF Republish, Authored
  <2>2. EdgeRequestTypeOK'
    BY <1>3, <2>1 DEF EdgeRequestTypeOK, Limiter!Counter
  <2>3. CountersInv'
    BY <2>1 DEF BudgetInv, CountersInv
  <2> QED BY <1>2, <2>1, <2>2, <2>3
<1>6. CASE Restart
  <2>1. /\ secret' \in 0..MaxRestarts /\ kept' = [key \in Keys |-> Nil]
        /\ UNCHANGED <<authored, served, now, log>>
    BY <1>3, <1>6 DEF Restart, EdgeRequestTypeOK
  <2>2. EdgeRequestTypeOK'
    BY <1>3, <2>1 DEF EdgeRequestTypeOK, Limiter!Counter
  <2>3. CountersInv'
    BY <2>1 DEF CountersInv
  <2> QED BY <1>2, <2>1, <2>2, <2>3
<1>7. CASE UNCHANGED edgeRequestVars
  <2>1. UNCHANGED <<authored, served, now, kept, secret, log>>
    BY <1>7 DEF edgeRequestVars
  <2>2. EdgeRequestTypeOK'
    BY <1>3, <2>1 DEF EdgeRequestTypeOK, Limiter!Counter
  <2>3. CountersInv'
    BY <2>1 DEF BudgetInv, CountersInv
  <2> QED BY <1>2, <2>1, <2>2, <2>3
<1> QED BY <1>1, <1>4, <1>5, <1>6, <1>7 DEF EdgeRequestNext

LEMMA BudgetInvariant == EdgeRequestSpec => []BudgetInv
<1> QED BY InitBudgets, StepKeepsBudgets, PTL DEF EdgeRequestSpec

\* The node serves what the zones of the moment compile to, its counters stay
\* counters across edits and restarts, and every request comes to an end of
\* handle, for any rule language.
THEOREM NodeIsTyped == EdgeRequestSpec => []EdgeRequestTypeOK
<1>1. BudgetInv => EdgeRequestTypeOK
  BY DEF BudgetInv
<1> QED BY <1>1, BudgetInvariant, PTL

\* A record acts only on a request it matches, and one with a budget only once
\* more requests than its threshold matched it within its window and this run
\* of the node: no edit, clock or other record charges it for anything else
\* (evaluate.Evaluate with RateLimiter.Check).
THEOREM BudgetsAreUsedUp == EdgeRequestSpec => []BudgetIsUsedUp
<1>1. BudgetInv => BudgetIsUsedUp
  BY DEF BudgetInv
<1> QED BY <1>1, BudgetInvariant, PTL

-----------------------------------------------------------------------------
(* The walk: which record acts, and what becomes of the request.           *)

\* The walk of this rule-set came to position t, or to its end when t is 0:
\* whatever matched on the way there had a budget, and what it met there did
\* with the request of entry e what the record and the zone's mode say.
WalkedTo(t, zone, e) ==
    /\ \A j \in DOMAIN Walk(zone) :
           (t = 0 \/ j < t) /\ Applies(Walk(zone)[j], e.req) => Walk(zone)[j].limit # Nil
    /\ t = 0 => e.by = Nil /\ e.outcome = "passed"
    /\ t # 0 =>
           /\ t \in DOMAIN Walk(zone)
           /\ Applies(Walk(zone)[t], e.req)
           /\ e.by = Walk(zone)[t].id
           /\ e.outcome = "blocked" <=> EffectiveAction(zone, Walk(zone)[t]) = "block"
           /\ e.outcome \in {"challenged", "cleared"}
                  <=> EffectiveAction(zone, Walk(zone)[t]) = "challenge"

\* A request to an unknown host is turned away; any other is decided by the
\* first record of the walk that matches it, unless that one has a budget.
FirstMatchWins ==
    \A i \in DOMAIN log :
        LET zone == CompiledFor(log[i].zone)
        IN  /\ log[i].outcome = "unknownHost" <=> zone = Nil
            /\ zone = Nil => log[i].by = Nil
            /\ zone # Nil => \E t \in {0} \cup DOMAIN Walk(zone) : WalkedTo(t, zone, log[i])

\* The trigger is the first record that fires.
LEMMA TriggerIsFirst ==
    ASSUME NEW zone, NEW req, DOMAIN Walk(zone) \subseteq Nat \ {0},
           NEW j \in DOMAIN Walk(zone), Trigger(zone, req) = 0 \/ j < Trigger(zone, req)
    PROVE  ~ Fires(zone, Walk(zone)[j], req)
<1> DEFINE firing == {i \in DOMAIN Walk(zone) : Fires(zone, Walk(zone)[i], req)}
<1>1. Trigger(zone, req) =
          IF firing = {} THEN 0 ELSE CHOOSE i \in firing : \A k \in firing : i <= k
  BY DEF Trigger
<1> SUFFICES ASSUME j \in firing PROVE FALSE
  OBVIOUS
<1>2. firing \in SUBSET (Nat \ {0})
  OBVIOUS
<1> HIDE DEF firing
<1>3. \E i \in firing : \A k \in firing : i <= k
  BY <1>2, LeastExists
<1>4. Trigger(zone, req) \in firing /\ \A k \in firing : Trigger(zone, req) <= k
  BY <1>1, <1>3
<1>5. Trigger(zone, req) \in Nat \ {0} /\ j \in Nat
  BY <1>2, <1>4
<1> QED BY <1>4, <1>5

\* What handle logs of the walk.
Walked(e, req) ==
    LET zone == served[req.host]
    IN  /\ e.zone = authored[req.host]
        /\ e.outcome = "unknownHost" <=> zone = Nil
        /\ zone = Nil => e.by = Nil
        /\ zone # Nil => WalkedTo(Trigger(zone, req), zone, e)

LEMMA HandleWalks ==
    ASSUME NEW req, NEW cookie, Handle(req, cookie),
           served[req.host] # Nil =>
               /\ DOMAIN Walk(served[req.host]) \subseteq Nat \ {0}
               /\ \A i \in DOMAIN Walk(served[req.host]) : Walk(served[req.host])[i] # Nil
    PROVE  \E e : log' = Append(log, e) /\ Walked(e, req)
<1> DEFINE zone == served[req.host]
           t == Trigger(zone, req)
<1>a. ASSUME zone # Nil, NEW j \in DOMAIN Walk(zone), t = 0 \/ j < t, Applies(Walk(zone)[j], req)
      PROVE  Walk(zone)[j].limit # Nil
  <2>1. ~ Fires(zone, Walk(zone)[j], req)
    BY <1>a, TriggerIsFirst
  <2> QED BY <1>a, <2>1 DEF Fires
<1>1. CASE UnknownHost(req, cookie)
  BY <1>1 DEF UnknownHost, Record, Walked
<1>2. CASE PassThrough(req, cookie)
  <2>1. zone # Nil /\ t = 0 /\ Record(req, cookie, Nil, "passed", NoCookie)
    BY <1>2 DEF PassThrough
  <2>2. PICK e : /\ log' = Append(log, e)
                 /\ e.req = req /\ e.zone = authored[req.host]
                 /\ e.by = Nil /\ e.outcome = "passed"
    BY <2>1 DEF Record
  <2>3. WalkedTo(t, zone, e)
    BY <1>a, <2>1, <2>2 DEF WalkedTo
  <2> QED BY <2>1, <2>2, <2>3 DEF Walked
<1>3. CASE Decide(req, cookie)
  <2> DEFINE rule == Walk(zone)[t]
             action == EffectiveAction(zone, rule)
             cleared == Verify(cookie, zone.id, req.ip)
  <2>1. /\ zone # Nil /\ t # 0
        /\ CASE action = "block" -> Record(req, cookie, rule, "blocked", NoCookie)
             [] action = "challenge" /\ cleared -> Record(req, cookie, rule, "cleared", NoCookie)
             [] action = "challenge" /\ ~ cleared ->
                    Record(req, cookie, rule, "challenged", Issue(zone.id, req.ip))
             [] OTHER -> Record(req, cookie, rule, "passed", NoCookie)
    BY <1>3 DEF Decide
  <2>2. t \in DOMAIN Walk(zone) /\ rule # Nil /\ Applies(rule, req)
    BY <2>1, TriggerFires DEF Fires
  <2>3. ASSUME NEW outcome, NEW issued, Record(req, cookie, rule, outcome, issued)
        PROVE  \E e : /\ log' = Append(log, e)
                      /\ e.req = req /\ e.zone = authored[req.host]
                      /\ e.by = rule.id /\ e.outcome = outcome
    <3> HIDE DEF rule
    <3> QED BY <2>2, <2>3 DEF Record
  <2>4. PICK outcome, issued :
            /\ outcome \in {"blocked", "cleared", "challenged", "passed"}
            /\ Record(req, cookie, rule, outcome, issued)
            /\ outcome = "blocked" <=> action = "block"
            /\ outcome \in {"challenged", "cleared"} <=> action = "challenge"
    <3> HIDE DEF rule, action, cleared
    <3> QED BY <2>1
  <2>5. PICK e : /\ log' = Append(log, e)
                 /\ e.req = req /\ e.zone = authored[req.host]
                 /\ e.by = rule.id /\ e.outcome = outcome
    BY <2>3, <2>4
  <2>6. WalkedTo(t, zone, e)
    BY <1>a, <2>1, <2>2, <2>4, <2>5 DEF WalkedTo
  <2> QED BY <2>1, <2>4, <2>5, <2>6 DEF Walked
<1> QED BY <1>1, <1>2, <1>3 DEF Handle

LEMMA StepKeepsFirstMatch ==
    ASSUME BudgetInv, FirstMatchWins, [EdgeRequestNext]_edgeRequestVars
    PROVE  FirstMatchWins'
<1>1. CASE \E req \in Requests(authored), cookie \in Cookies : Handle(req, cookie)
  <2>1. PICK req \in Requests(authored), cookie \in Cookies : Handle(req, cookie)
    BY <1>1
  <2> DEFINE zone == served[req.host]
  <2>2. authored \in Authored /\ served = [h \in Hosts |-> CompiledFor(authored[h])]
    BY DEF BudgetInv, EdgeRequestTypeOK
  <2>3. /\ zone = CompiledFor(authored[req.host])
        /\ zone # Nil => /\ DOMAIN Walk(zone) \subseteq Nat \ {0}
                         /\ \A i \in DOMAIN Walk(zone) : Walk(zone)[i] # Nil
    <3>1. req.host \in Hosts
      BY <2>2, NodeAssumption
    <3>2. zone = CompiledFor(authored[req.host])
      BY <2>2, <3>1
    <3> HIDE DEF zone
    <3> QED BY <2>2, <3>2, NodeAssumption
  <2>4. PICK e : log' = Append(log, e) /\ Walked(e, req)
    BY <2>1, <2>3, HandleWalks
  <2>5. /\ Len(log) \in Nat
        /\ DOMAIN log = 1..Len(log)
        /\ DOMAIN log' = 1..(Len(log) + 1)
        /\ \A i \in 1..Len(log) : log'[i] = log[i]
        /\ log'[Len(log) + 1] = e
    BY <2>4, LogGrows DEF BudgetInv
  <2>6. ASSUME zone # Nil
        PROVE  \E t \in {0} \cup DOMAIN Walk(zone) : WalkedTo(t, zone, e)
    <3>1. WalkedTo(Trigger(zone, req), zone, e)
      BY <2>4, <2>6 DEF Walked
    <3>2. Trigger(zone, req) \in {0} \cup DOMAIN Walk(zone)
      BY <3>1 DEF WalkedTo
    <3> QED BY <3>1, <3>2
  <2>7. /\ CompiledFor(e.zone) = zone
        /\ e.outcome = "unknownHost" <=> zone = Nil
        /\ zone = Nil => e.by = Nil
    BY <2>3, <2>4 DEF Walked
  <2> HIDE DEF zone
  <2>8. ASSUME NEW i \in DOMAIN log'
        PROVE  /\ log'[i].outcome = "unknownHost" <=> CompiledFor(log'[i].zone) = Nil
               /\ CompiledFor(log'[i].zone) = Nil => log'[i].by = Nil
               /\ CompiledFor(log'[i].zone) # Nil =>
                      \E t \in {0} \cup DOMAIN Walk(CompiledFor(log'[i].zone)) :
                          WalkedTo(t, CompiledFor(log'[i].zone), log'[i])
    <3>1. CASE i = Len(log) + 1
      BY <2>5, <2>6, <2>7, <3>1
    <3>2. CASE i \in 1..Len(log)
      BY <2>5, <3>2 DEF FirstMatchWins
    <3> QED BY <2>5, <3>1, <3>2
  <2> QED BY <2>8 DEF FirstMatchWins, WalkedTo
<1>2. CASE log' = log
  BY <1>2 DEF FirstMatchWins, WalkedTo
<1> QED BY <1>1, <1>2 DEF EdgeRequestNext, Tick, Republish, Restart, edgeRequestVars

\* The first match wins, in whatever language the records are written: a
\* request goes on past a record that matches it only if that record has a
\* budget, and what is logged of it is the action of the one record that
\* stopped the walk, or "passed" in a zone that does not enforce, or when
\* nothing stopped it (evaluate.Evaluate, handle).
THEOREM TheFirstMatchDecides == EdgeRequestSpec => []FirstMatchWins
<1>1. EdgeRequestInit => FirstMatchWins
  BY DEF EdgeRequestInit, FirstMatchWins
<1>2. BudgetInv /\ FirstMatchWins /\ [EdgeRequestNext]_edgeRequestVars => FirstMatchWins'
  BY StepKeepsFirstMatch
<1> QED BY <1>1, <1>2, BudgetInvariant, PTL DEF EdgeRequestSpec
=============================================================================
