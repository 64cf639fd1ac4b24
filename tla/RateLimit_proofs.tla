--------------------------- MODULE RateLimit_proofs ---------------------------
(***************************************************************************)
(* Pruning is invisible, for every number of keys and requests and for     *)
(* every set of limits whose windows are short against Idle; and with one  *)
(* limit the budget over real time is at most twice its threshold.         *)
(***************************************************************************)
EXTENDS MCRateLimit, FiniteSetTheorems, TLAPS

\* A hit leaves a counter dated by the hit, in the old window or a new one.
LEMMA CountedIsCounter ==
  ASSUME NEW c \in Counter \cup {Nil}, NEW now \in 0..MaxClock, NEW limit \in Limits
  PROVE  /\ Counted(c, now, limit) \in Counter
         /\ Counted(c, now, limit).last = now
         /\ \/ Counted(c, now, limit).start = now
            \/ c # Nil /\ Counted(c, now, limit).start = c.start
<1> DEFINE old == IF c = Nil THEN Fresh(now) ELSE c
           cur == IF now - old.start >= limit.window THEN Fresh(now) ELSE old
<1>1. Fresh(now) \in Counter
  BY BudgetAssumption DEF Fresh, Counter
<1>2. old \in Counter /\ cur \in Counter
  BY <1>1
<1>3. (cur.hits + 1) % Wrap \in 0..Wrap-1
  BY <1>2, BudgetAssumption DEF Counter
<1>4. Counted(c, now, limit) = [start |-> cur.start, hits |-> (cur.hits + 1) % Wrap, last |-> now]
  BY DEF Counted
<1>5. cur.start = now \/ (c # Nil /\ cur.start = c.start)
  BY DEF Fresh
<1> HIDE DEF cur
<1> QED BY <1>2, <1>3, <1>4, <1>5 DEF Counter

\* Past its window a counter counts as if it were not there.
LEMMA ExpiredCountsAsNew ==
  ASSUME NEW c \in Counter, NEW now \in 0..MaxClock, NEW limit \in Limits,
         c.start + limit.window <= now
  PROVE  Counted(c, now, limit) = Counted(Nil, now, limit)
<1>1. limit.window \in Nat /\ c.start \in Nat /\ now \in Nat
  BY BudgetAssumption DEF Counter
<1>2. c # Nil
  BY BudgetAssumption
<1>3. now - c.start >= limit.window
  BY <1>1
<1> QED BY <1>2, <1>3 DEF Counted, Fresh

\* The locked part of Check finds a counter that counts as the kept one.
LEMMA CheckAgrees ==
  ASSUME ForgottenExpired, NEW r \in Requests, Check(r)
  PROVE  /\ calls[r] \in Call
         /\ kept'[calls[r].key] = Counted(kept[calls[r].key], calls[r].now, calls[r].limit)
         /\ entries'[calls[r].key] = kept'[calls[r].key]
         /\ Answer(calls[r].key, kept'[calls[r].key], calls[r].limit)
<1> DEFINE c == calls[r]
<1>1. c \in Call
  BY DEF ForgottenExpired, LimitTypeOK, Check
<1>2. /\ c.key \in Keys
      /\ c.now \in 0..MaxClock
      /\ c.limit \in Limits
  BY <1>1 DEF Call
<1>3. Counted(entries[c.key], c.now, c.limit) = Counted(kept[c.key], c.now, c.limit)
  <2>1. CASE entries[c.key] # Nil
    BY <2>1, <1>2 DEF ForgottenExpired
  <2>2. CASE entries[c.key] = Nil /\ kept[c.key] = Nil
    BY <2>2
  <2>3. CASE entries[c.key] = Nil /\ kept[c.key] # Nil
    <3>1. kept[c.key] \in Counter
      BY <2>3, <1>2 DEF ForgottenExpired, LimitTypeOK
    <3>2. kept[c.key].start + c.limit.window + MaxDelay <= clock
      BY <2>3, <1>2 DEF ForgottenExpired
    <3>3. clock - MaxDelay <= c.now
      BY <1>1 DEF ForgottenExpired, Check
    <3>4. /\ kept[c.key].start \in Nat /\ c.limit.window \in Nat /\ c.now \in Nat
          /\ clock \in Nat /\ MaxDelay \in Nat
      <4>1. clock \in 0..MaxClock
        BY DEF ForgottenExpired, LimitTypeOK
      <4> QED BY <4>1, <3>1, <1>2, BudgetAssumption, RateLimitAssumption DEF Counter
    <3>5. kept[c.key].start + c.limit.window <= c.now
      <4> DEFINE s == kept[c.key].start
                 w == c.limit.window
      <4> HIDE DEF s, w, c
      <4> QED BY <3>2, <3>3, <3>4 DEF s, w
    <3> QED BY <2>3, <3>1, <3>5, <1>2, ExpiredCountsAsNew
  <2> QED BY <2>1, <2>2, <2>3
<1>4. /\ entries' = [entries EXCEPT ![c.key] = Counted(entries[c.key], c.now, c.limit)]
      /\ kept' = [kept EXCEPT ![c.key] = Counted(kept[c.key], c.now, c.limit)]
      /\ Answer(c.key, Counted(entries[c.key], c.now, c.limit), c.limit)
  BY DEF Check
<1>5. /\ kept'[c.key] = Counted(kept[c.key], c.now, c.limit)
      /\ entries'[c.key] = Counted(entries[c.key], c.now, c.limit)
  BY <1>2, <1>4 DEF ForgottenExpired, LimitTypeOK
<1> QED BY <1>1, <1>3, <1>4, <1>5

\* A counter the invariant allows: of the past, and at most MaxDelay older than its start.
LEMMA HitKeepsOrder ==
  ASSUME NEW c \in Counter \cup {Nil}, NEW limit \in Limits, NEW t \in Nat,
         NEW now \in 0..MaxClock, now <= t, t - MaxDelay <= now,
         c # Nil => c.start <= t
  PROVE  LET d == Counted(c, now, limit)
         IN  d.start <= t /\ d.last <= t /\ d.start - MaxDelay <= d.last
<1> DEFINE d == Counted(c, now, limit)
<1>1. /\ d \in Counter
      /\ d.last = now
      /\ d.start = now \/ (c # Nil /\ d.start = c.start)
  BY CountedIsCounter
<1>2. d.start \in Nat /\ now \in Nat /\ MaxDelay \in Nat
  BY <1>1, BudgetAssumption, RateLimitAssumption DEF Counter
<1>3. d.start <= t
  BY <1>1
<1> HIDE DEF d
<1>4. d.start - MaxDelay <= d.last
  BY <1>1, <1>2, <1>3
<1> QED BY <1>1, <1>3, <1>4 DEF d

(***************************************************************************)
(* Nothing is forgotten at the start.                                      *)
(***************************************************************************)
LEMMA LimitInitially == LimitInit => ForgottenExpired
<1> SUFFICES ASSUME LimitInit PROVE ForgottenExpired
  OBVIOUS
<1>1. LimitTypeOK
  BY BudgetAssumption, RateLimitAssumption DEF LimitInit, BudgetInit, LimitTypeOK
<1> QED BY <1>1 DEF LimitInit, BudgetInit, ForgottenExpired

\* The locked part of Check: one counter changes, and both views of it alike.
LEMMA CheckPreserves ==
  ASSUME ForgottenExpired, NEW r \in Requests, Check(r)
  PROVE  ForgottenExpired'
<1> DEFINE c == calls[r]
           d == Counted(kept[c.key], c.now, c.limit)
<1>1. /\ c \in Call
      /\ entries'[c.key] = d
      /\ kept'[c.key] = d
  BY CheckAgrees
<1>2. c.key \in Keys /\ c.now \in 0..MaxClock /\ c.limit \in Limits
  BY <1>1 DEF Call
<1>3. LimitTypeOK
  BY DEF ForgottenExpired
<1>4. /\ clock' = clock /\ pruning' = pruning /\ made' = made
      /\ calls' = [calls EXCEPT ![r] = Nil]
      /\ entries' = [entries EXCEPT ![c.key] = Counted(entries[c.key], c.now, c.limit)]
      /\ kept' = [kept EXCEPT ![c.key] = Counted(kept[c.key], c.now, c.limit)]
  BY DEF Check
<1>5. d \in Counter /\ d # Nil
  <2>1. kept[c.key] \in Counter \cup {Nil}
    BY <1>2, <1>3 DEF LimitTypeOK
  <2> QED BY <2>1, <1>2, CountedIsCounter, BudgetAssumption
<1>6. \A k \in Keys \ {c.key} : entries'[k] = entries[k] /\ kept'[k] = kept[k]
  BY <1>3, <1>4 DEF LimitTypeOK
<1>7. LimitTypeOK'
  <2>1. entries' \in [Keys -> Counter \cup {Nil}] /\ kept' \in [Keys -> Counter \cup {Nil}]
    <3>1. entries[c.key] \in Counter \cup {Nil}
      BY <1>2, <1>3 DEF LimitTypeOK
    <3>2. Counted(entries[c.key], c.now, c.limit) \in Counter
      BY <3>1, <1>2, CountedIsCounter
    <3>3. Counted(kept[c.key], c.now, c.limit) \in Counter
      BY <1>5
    <3> HIDE DEF c
    <3> QED BY <3>2, <3>3, <1>2, <1>3, <1>4 DEF LimitTypeOK
  <2>2. calls' \in [Requests -> Call \cup {Nil}]
    BY <1>3, <1>4 DEF LimitTypeOK
  <2>3. passed' \in [Keys -> Seq(Pass)]
    <3> DEFINE e == Counted(entries[c.key], c.now, c.limit)
               pass == [at |-> c.now, start |-> e.start, hits |-> e.hits]
    <3>1. pass \in Pass
      <4>1. entries[c.key] \in Counter \cup {Nil}
        BY <1>2, <1>3 DEF LimitTypeOK
      <4>2. e \in Counter
        BY <4>1, <1>2, CountedIsCounter
      <4> HIDE DEF c, e
      <4> QED BY <1>2, <4>2 DEF Counter, Pass
    <3>2. passed \in [Keys -> Seq(Pass)]
      BY <1>3 DEF LimitTypeOK
    <3>3. passed' = passed \/ passed' = [passed EXCEPT ![c.key] = Append(@, pass)]
      BY DEF Check
    <3> HIDE DEF pass, c
    <3>4. Append(passed[c.key], pass) \in Seq(Pass)
      BY <3>1, <3>2, <1>2
    <3> QED BY <3>2, <3>3, <3>4, <1>2
  <2> QED BY <2>1, <2>2, <2>3, <1>3, <1>4 DEF LimitTypeOK
<1>8. \A k \in Keys : entries'[k] # Nil => entries'[k] = kept'[k]
  BY <1>1, <1>6 DEF ForgottenExpired
<1>9. /\ d.start <= clock
      /\ d.last <= clock
      /\ d.start - MaxDelay <= d.last
  <2>1. clock \in Nat /\ c.now <= clock /\ clock - MaxDelay <= c.now
    <3>1. clock \in 0..MaxClock
      BY <1>3 DEF LimitTypeOK
    <3>2. c # Nil
      BY <1>1, RateLimitAssumption
    <3> QED BY <3>1, <3>2, BudgetAssumption DEF ForgottenExpired
  <2>2. kept[c.key] \in Counter \cup {Nil}
    BY <1>2, <1>3 DEF LimitTypeOK
  <2>3. kept[c.key] # Nil => kept[c.key].start <= clock
    BY <1>2 DEF ForgottenExpired
  <2> HIDE DEF c
  <2> QED BY <2>1, <2>2, <2>3, <1>2, HitKeepsOrder
<1>10. \A k \in Keys : kept'[k] # Nil =>
           /\ kept'[k].start <= clock'
           /\ kept'[k].last <= clock'
           /\ kept'[k].start - MaxDelay <= kept'[k].last
  BY <1>1, <1>4, <1>6, <1>9 DEF ForgottenExpired
<1>11. \A k \in Keys, limit \in Limits : entries'[k] = Nil /\ kept'[k] # Nil =>
           kept'[k].start + limit.window + MaxDelay <= clock'
  BY <1>1, <1>4, <1>5, <1>6 DEF ForgottenExpired
<1>12. \A q \in Requests : calls'[q] # Nil =>
           calls'[q].now <= clock' /\ clock' - MaxDelay <= calls'[q].now
  <2>1. \A q \in Requests : calls'[q] = calls[q] \/ calls'[q] = Nil
    BY <1>3, <1>4 DEF LimitTypeOK
  <2> QED BY <2>1, <1>4 DEF ForgottenExpired
<1>13. pruning' # Nil => pruning'.now <= clock'
  BY <1>4 DEF ForgottenExpired
<1> QED BY <1>7, <1>8, <1>10, <1>11, <1>12, <1>13 DEF ForgottenExpired

\* The pruning timer: what it forgets is out of every window still to be counted in.
LEMMA PrunePreserves ==
  ASSUME ForgottenExpired, NEW k \in Keys, PruneKey(k)
  PROVE  ForgottenExpired'
<1>1. LimitTypeOK
  BY DEF ForgottenExpired
<1>2. /\ pruning \in Walk
      /\ UNCHANGED <<clock, calls, passed, made, kept>>
      /\ pruning' = Nil \/ (pruning'.now = pruning.now /\ pruning' \in Walk)
  BY <1>1 DEF PruneKey, LimitTypeOK, Walk, budgetVars
<1>3. entries' = entries \/ (/\ entries[k] # Nil
                             /\ IsIdle(entries[k], pruning.now)
                             /\ entries' = [entries EXCEPT ![k] = Nil])
  BY DEF PruneKey
<1>4. LimitTypeOK'
  BY <1>1, <1>2, <1>3 DEF LimitTypeOK
<1>5. \A j \in Keys : entries'[j] = entries[j] \/ entries'[j] = Nil
  BY <1>1, <1>3 DEF LimitTypeOK
<1>6. \A j \in Keys, limit \in Limits : entries'[j] = Nil /\ kept'[j] # Nil =>
          kept'[j].start + limit.window + MaxDelay <= clock'
  <2> SUFFICES ASSUME NEW j \in Keys, NEW limit \in Limits,
                      entries'[j] = Nil, kept[j] # Nil
               PROVE  kept[j].start + limit.window + MaxDelay <= clock
    BY <1>2
  <2>1. CASE entries[j] = Nil
    BY <2>1 DEF ForgottenExpired
  <2>2. CASE entries[j] # Nil
    <3>1. entries[j] = kept[j] /\ kept[j] \in Counter
      BY <2>2, <1>1 DEF ForgottenExpired, LimitTypeOK
    <3>2. pruning.now - kept[j].last >= Idle
      BY <2>2, <3>1, <1>1, <1>3 DEF IsIdle, LimitTypeOK
    <3>3. /\ kept[j].start - MaxDelay <= kept[j].last
          /\ pruning.now <= clock
      BY <1>2, RateLimitAssumption DEF ForgottenExpired
    <3>4. limit.window + 2 * MaxDelay <= Idle
      BY RateLimitAssumption
    <3>5. /\ kept[j].start \in Nat /\ kept[j].last \in Nat /\ limit.window \in Nat
          /\ pruning.now \in Nat /\ clock \in Nat /\ MaxDelay \in Nat /\ Idle \in Nat
      BY <3>1, <1>1, <1>2, BudgetAssumption, RateLimitAssumption
         DEF LimitTypeOK, Counter, Walk
    <3> DEFINE s == kept[j].start
               l == kept[j].last
               w == limit.window
               n == pruning.now
    <3> HIDE DEF s, l, w, n
    <3>6. s + w + MaxDelay <= clock
      BY <3>2, <3>3, <3>4, <3>5 DEF s, l, w, n
    <3> QED BY <3>6 DEF s, w
  <2> QED BY <2>1, <2>2
<1>7. pruning' # Nil => pruning'.now <= clock'
  BY <1>2, RateLimitAssumption DEF ForgottenExpired
<1> QED BY <1>2, <1>4, <1>5, <1>6, <1>7 DEF ForgottenExpired

(***************************************************************************)
(* Every step of the limiter keeps the counters in memory equal to the     *)
(* ones never forgotten, or out of every window.                           *)
(***************************************************************************)
LEMMA LimitPreserved ==
  ForgottenExpired /\ [LimitNext]_limitVars => ForgottenExpired'
<1> SUFFICES ASSUME ForgottenExpired, [LimitNext]_limitVars
             PROVE  ForgottenExpired'
  OBVIOUS
<1>1. LimitTypeOK
  BY DEF ForgottenExpired
<1>2. CASE Tick
  <2>1. /\ clock' = clock + 1 /\ clock' \in 0..MaxClock /\ clock \in 0..MaxClock
        /\ UNCHANGED <<entries, calls, pruning, passed, made, kept>>
    BY <1>1, <1>2, BudgetAssumption DEF Tick, LimitTypeOK, budgetVars
  <2>2. LimitTypeOK'
    BY <1>1, <2>1 DEF LimitTypeOK
  <2>3. \A k \in Keys : kept'[k] # Nil =>
            /\ kept'[k].start <= clock'
            /\ kept'[k].last <= clock'
            /\ kept'[k].start - MaxDelay <= kept'[k].last
    <3> SUFFICES ASSUME NEW k \in Keys, kept[k] # Nil
                 PROVE  /\ kept[k].start <= clock + 1
                        /\ kept[k].last <= clock + 1
                        /\ kept[k].start - MaxDelay <= kept[k].last
      BY <2>1
    <3>1. kept[k] \in Counter
      BY <1>1 DEF LimitTypeOK
    <3>2. kept[k].start \in Nat /\ kept[k].last \in Nat /\ clock \in Nat
      BY <2>1, <3>1, BudgetAssumption DEF Counter
    <3> QED BY <3>2 DEF ForgottenExpired
  <2>4. \A k \in Keys, limit \in Limits : entries'[k] = Nil /\ kept'[k] # Nil =>
            kept'[k].start + limit.window + MaxDelay <= clock'
    <3> SUFFICES ASSUME NEW k \in Keys, NEW limit \in Limits, entries[k] = Nil, kept[k] # Nil
                 PROVE  kept[k].start + limit.window + MaxDelay <= clock + 1
      BY <2>1
    <3>1. kept[k].start + limit.window + MaxDelay <= clock
      BY DEF ForgottenExpired
    <3>2. kept[k] \in Counter
      BY <1>1 DEF LimitTypeOK
    <3>3. kept[k].start \in Nat /\ limit.window \in Nat /\ clock \in Nat /\ MaxDelay \in Nat
      BY <2>1, <3>2, BudgetAssumption, RateLimitAssumption DEF Counter
    <3> QED BY <3>1, <3>3
  <2>5. \A r \in Requests : calls'[r] # Nil =>
            calls'[r].now <= clock' /\ clock' - MaxDelay <= calls'[r].now
    <3> SUFFICES ASSUME NEW r \in Requests, calls'[r] # Nil
                 PROVE  calls'[r].now <= clock' /\ clock' - MaxDelay <= calls'[r].now
      OBVIOUS
    <3>0. calls' = calls /\ clock' = clock + 1
      BY <2>1
    <3>1. calls[r].now \in Nat /\ clock \in Nat /\ MaxDelay \in Nat
      BY <3>0, <1>1, <2>1, BudgetAssumption, RateLimitAssumption DEF LimitTypeOK, Call
    <3>2. clock - calls[r].now < MaxDelay
      BY <3>0, <1>2 DEF Tick
    <3>3. calls[r].now <= clock
      BY <3>0 DEF ForgottenExpired
    <3> QED BY <3>0, <3>1, <3>2, <3>3
  <2>6. pruning' # Nil => pruning'.now <= clock'
    <3>1. pruning # Nil => pruning.now \in Nat /\ pruning.now <= clock
      BY <1>1, BudgetAssumption DEF ForgottenExpired, LimitTypeOK, Walk
    <3> QED BY <2>1, <3>1, BudgetAssumption
  <2>7. \A k \in Keys : entries'[k] # Nil => entries'[k] = kept'[k]
    BY <2>1 DEF ForgottenExpired
  <2> QED BY <2>2, <2>3, <2>4, <2>5, <2>6, <2>7 DEF ForgottenExpired
<1>3. CASE PruneStart
  <2>1. /\ pruning' = [now |-> clock, todo |-> Keys]
        /\ UNCHANGED <<clock, entries, calls, passed, made, kept>>
    BY <1>3 DEF PruneStart, budgetVars
  <2>2. pruning' \in Walk /\ pruning'.now = clock /\ clock \in Nat
    BY <1>1, <2>1, BudgetAssumption DEF LimitTypeOK, Walk
  <2>3. LimitTypeOK'
    BY <1>1, <2>1, <2>2 DEF LimitTypeOK
  <2> QED BY <2>1, <2>2, <2>3 DEF ForgottenExpired
<1>4. ASSUME NEW k \in Keys, PruneKey(k) PROVE ForgottenExpired'
  BY <1>4, PrunePreserves
<1>5. ASSUME NEW r \in Requests, ReadClock(r) PROVE ForgottenExpired'
  <2>1. PICK k \in Keys, limit \in Limits :
            calls' = [calls EXCEPT ![r] = [key |-> k, now |-> clock, limit |-> limit]]
    BY <1>5 DEF ReadClock
  <2>2. /\ made' \in 0..MaxHits
        /\ UNCHANGED <<clock, entries, pruning, passed, kept>>
    BY <1>1, <1>5, RateLimitAssumption DEF ReadClock, LimitTypeOK, budgetVars
  <2>3. [key |-> k, now |-> clock, limit |-> limit] \in Call
    BY <1>1 DEF LimitTypeOK, Call
  <2>4. LimitTypeOK'
    BY <1>1, <2>1, <2>2, <2>3 DEF LimitTypeOK
  <2>5. \A q \in Requests : calls'[q] # Nil =>
            calls'[q].now <= clock' /\ clock' - MaxDelay <= calls'[q].now
    <3>1. clock \in Nat /\ MaxDelay \in Nat
      BY <1>1, BudgetAssumption, RateLimitAssumption DEF LimitTypeOK
    <3>2. \A q \in Requests : calls'[q] = calls[q] \/ calls'[q].now = clock
      BY <1>1, <2>1 DEF LimitTypeOK
    <3>3. clock <= clock /\ clock - MaxDelay <= clock
      BY <3>1
    <3> QED BY <2>2, <3>2, <3>3 DEF ForgottenExpired
  <2> QED BY <2>2, <2>4, <2>5 DEF ForgottenExpired
<1>6. ASSUME NEW r \in Requests, Check(r) PROVE ForgottenExpired'
  BY <1>6, CheckPreserves
<1>7. CASE UNCHANGED limitVars
  BY <1>7 DEF limitVars, ForgottenExpired, LimitTypeOK
<1> QED BY <1>2, <1>3, <1>4, <1>5, <1>6, <1>7 DEF LimitNext

(***************************************************************************)
(* A counter in memory is the one never forgotten, and a forgotten one is  *)
(* out of every window that a request under way, or one to come, can count *)
(* in: for any keys, requests, limits and clock.  (Prune against Check)    *)
(***************************************************************************)
THEOREM ForgottenIsExpired == LimitSpec => []ForgottenExpired
BY LimitInitially, LimitPreserved, PTL DEF LimitSpec

(***************************************************************************)
(* Pruning never changes a verdict: each locked Check is a hit on counters *)
(* that are never forgotten, and nothing else answers.                     *)
(***************************************************************************)
THEOREM PruningIsInvisible == LimitSpec => ImplementsBudget
<1>1. LimitInit => BudgetInit
  BY DEF LimitInit
<1>2. ForgottenExpired /\ [LimitNext]_limitVars => [BudgetNext]_budgetVars
  <2> SUFFICES ASSUME ForgottenExpired, [LimitNext]_limitVars
               PROVE  [BudgetNext]_budgetVars
    OBVIOUS
  <2>1. ASSUME NEW r \in Requests, Check(r) PROVE BudgetNext
    <3> DEFINE c == calls[r]
    <3>1. c \in Call
      BY <2>1, CheckAgrees
    <3>2. c.key \in Keys /\ c.now \in 0..MaxClock /\ c.limit \in Limits
      BY <3>1 DEF Call
    <3>3. kept' = [kept EXCEPT ![c.key] = Counted(kept[c.key], c.now, c.limit)]
      BY <2>1 DEF Check
    <3>4. Answer(c.key, kept'[c.key], c.limit)
      BY <2>1, CheckAgrees
    <3>5. Hit(c.key, c.now, c.limit)
      BY <3>3, <3>4 DEF Hit
    <3> QED BY <3>2, <3>5 DEF BudgetNext
  <2>2. CASE UNCHANGED budgetVars
    BY <2>2
  <2> QED BY <2>1, <2>2 DEF LimitNext, Tick, PruneStart, PruneKey, ReadClock, limitVars, budgetVars
<1> QED BY <1>1, <1>2, ForgottenIsExpired, PTL DEF LimitSpec, ImplementsBudget

(***************************************************************************)
(* The budget over real time.  A window lets at most the threshold through *)
(* because its hits are numbered, and a span that is shorter than a window *)
(* by the wait for the lock meets at most two windows of a key, because    *)
(* windows are disjoint and a hit is at most that wait older than its own. *)
(***************************************************************************)

\* No client makes 2^32 - 1 hits in one window: the number never wraps.
NoCounterFills == \A k \in Keys : kept[k] # Nil => kept[k].hits < Wrap - 1

HitsFit(k) ==
    \A i \in DOMAIN passed[k] :
        /\ passed[k][i].hits \in 1..Threshold
        /\ passed[k][i].start - MaxDelay <= passed[k][i].at
        /\ passed[k][i].at < passed[k][i].start + Window
        /\ kept[k] # Nil
        /\ \/ passed[k][i].start = kept[k].start /\ passed[k][i].hits <= kept[k].hits
           \/ passed[k][i].start + Window <= kept[k].start

HitsApart(k) ==
    \A i, j \in DOMAIN passed[k] : i # j =>
        \/ passed[k][i].start = passed[k][j].start /\ passed[k][i].hits # passed[k][j].hits
        \/ passed[k][i].start + Window <= passed[k][j].start
        \/ passed[k][j].start + Window <= passed[k][i].start

SpanInv == \A k \in Keys : HitsFit(k) /\ HitsApart(k)

\* A hit is the next of its window, or the first of one that begins after it.
LEMMA CountedIsNext ==
  ASSUME NEW c \in Counter \cup {Nil}, NEW now \in 0..MaxClock, NEW limit \in Limits,
         limit.window > 0, Wrap > 1, c # Nil => c.hits < Wrap - 1
  PROVE  LET d == Counted(c, now, limit)
         IN  \/ /\ c # Nil /\ d.start = c.start /\ d.hits = c.hits + 1
                /\ now < d.start + limit.window
             \/ /\ d.start = now /\ d.hits = 1
                /\ c # Nil => c.start + limit.window <= now
<1>1. limit.window \in Nat /\ now \in Nat /\ Wrap \in Nat
  BY BudgetAssumption
<1>2. \A n \in Nat : n + 1 < Wrap => (n + 1) % Wrap = n + 1
  BY <1>1
<1>3. CASE c = Nil
  <2>1. now - Fresh(now).start < limit.window
    BY <1>1 DEF Fresh
  <2>2. Counted(c, now, limit) = [start |-> now, hits |-> (0 + 1) % Wrap, last |-> now]
    BY <1>1, <1>3, <2>1 DEF Counted, Fresh
  <2>3. (0 + 1) % Wrap = 1
    BY <1>1, <1>2
  <2> QED BY <1>3, <2>2, <2>3
<1>4. CASE c # Nil /\ now - c.start >= limit.window
  <2>1. Counted(c, now, limit) = [start |-> now, hits |-> (0 + 1) % Wrap, last |-> now]
    BY <1>4 DEF Counted, Fresh
  <2>2. (0 + 1) % Wrap = 1
    BY <1>1, <1>2
  <2>3. c.start \in Nat
    BY <1>4, BudgetAssumption DEF Counter
  <2>4. c.start + limit.window <= now
    BY <1>1, <1>4, <2>3
  <2> QED BY <2>1, <2>2, <2>4
<1>5. CASE c # Nil /\ ~(now - c.start >= limit.window)
  <2>1. Counted(c, now, limit) = [start |-> c.start, hits |-> (c.hits + 1) % Wrap, last |-> now]
    BY <1>5 DEF Counted
  <2>2. c.start \in Nat /\ c.hits \in Nat
    BY <1>5, BudgetAssumption DEF Counter
  <2>3. (c.hits + 1) % Wrap = c.hits + 1
    BY <1>1, <1>2, <1>5, <2>2
  <2>4. now < c.start + limit.window
    BY <1>1, <1>5, <2>2
  <2> QED BY <1>5, <2>1, <2>3, <2>4
<1> QED BY <1>3, <1>4, <1>5

\* The hits let through under an older or the same counter stay apart from a new one.
LEMMA CheckKeepsSpans ==
  ASSUME Limits = OneLimit, Window \in Nat \ {0}, ForgottenExpired, ForgottenExpired',
         NoCounterFills, NoCounterFills', SpanInv, NEW r \in Requests, Check(r)
  PROVE  SpanInv'
<1> DEFINE c == calls[r]
           old == kept[c.key]
           d == Counted(old, c.now, c.limit)
           pass == [at |-> c.now, start |-> d.start, hits |-> d.hits]
<1>1. c \in Call /\ entries'[c.key] = d /\ kept'[c.key] = d
  BY CheckAgrees
<1>2. c.key \in Keys /\ c.now \in 0..MaxClock /\ c.limit \in Limits
  BY <1>1 DEF Call
<1>3. /\ c.limit.threshold = Threshold /\ c.limit.window = Window
      /\ Threshold \in Nat /\ Window \in Nat /\ Window > 0
  <2>1. c.limit = [threshold |-> Threshold, window |-> Window]
    BY <1>2 DEF OneLimit
  <2>2. c.limit \in [threshold: Nat, window: Nat]
    BY <1>2, BudgetAssumption
  <2>3. c.limit.threshold \in Nat
    BY <2>2
  <2> HIDE DEF c
  <2> QED BY <2>1, <2>3
<1>4. LimitTypeOK
  BY DEF ForgottenExpired
<1>5. old \in Counter \cup {Nil} /\ d \in Counter
  <2>1. old \in Counter \cup {Nil}
    BY <1>2, <1>4 DEF LimitTypeOK
  <2> QED BY <2>1, <1>2, CountedIsCounter
<1>6. d.start \in Nat /\ d.hits \in Nat /\ c.now \in Nat /\ MaxDelay \in Nat
  BY <1>2, <1>5, BudgetAssumption, RateLimitAssumption DEF Counter
<1>7. \/ /\ old # Nil /\ d.start = old.start /\ d.hits = old.hits + 1
         /\ c.now < d.start + Window
      \/ /\ d.start = c.now /\ d.hits = 1
         /\ old # Nil => old.start + Window <= c.now
  <2>1. old # Nil => old.hits < Wrap - 1
    BY <1>2 DEF NoCounterFills
  <2>2. d # Nil
    BY <1>5, BudgetAssumption
  <2>3. d.hits < Wrap - 1
    BY <1>1, <1>2, <2>2 DEF NoCounterFills
  <2>4. Wrap \in Nat /\ Wrap > 1
    <3> HIDE DEF d
    <3> QED BY <1>6, <2>3, BudgetAssumption
  <2> HIDE DEF c, old
  <2>5. c.limit.window > 0
    BY <1>3
  <2>6. \/ /\ old # Nil /\ d.start = old.start /\ d.hits = old.hits + 1
           /\ c.now < d.start + c.limit.window
        \/ /\ d.start = c.now /\ d.hits = 1
           /\ old # Nil => old.start + c.limit.window <= c.now
    BY <1>2, <1>5, <2>1, <2>4, <2>5, CountedIsNext DEF d
  <2> HIDE DEF d
  <2> QED BY <1>3, <2>6
<1>8. d.start - MaxDelay <= c.now
  <2>1. d # Nil
    BY <1>5, BudgetAssumption
  <2>2. d.start - MaxDelay <= d.last
    BY <1>1, <1>2, <2>1 DEF ForgottenExpired
  <2>3. d.last = c.now
    BY <1>2, <1>5, CountedIsCounter
  <2> QED BY <2>2, <2>3
<1>9. old # Nil => old.start \in Nat /\ old.hits \in Nat
  BY <1>5, BudgetAssumption DEF Counter
<1>10. \A k \in Keys : k # c.key => kept'[k] = kept[k] /\ passed'[k] = passed[k]
  <2>1. kept' = [kept EXCEPT ![c.key] = Counted(kept[c.key], c.now, c.limit)]
    BY DEF Check
  <2> DEFINE e == Counted(entries[c.key], c.now, c.limit)
             new == [at |-> c.now, start |-> e.start, hits |-> e.hits]
  <2>2. passed' = passed \/ passed' = [passed EXCEPT ![c.key] = Append(@, new)]
    BY DEF Check
  <2> HIDE DEF c, new
  <2> QED BY <1>4, <2>1, <2>2 DEF LimitTypeOK
<1>11. \A k \in Keys : k # c.key => HitsFit(k)' /\ HitsApart(k)'
  BY <1>10 DEF SpanInv, HitsFit, HitsApart
<1>12. passed[c.key] \in Seq(Pass)
  BY <1>2, <1>4 DEF LimitTypeOK
<1>13. \/ passed'[c.key] = passed[c.key]
       \/ passed'[c.key] = Append(passed[c.key], pass) /\ d.hits <= Threshold
  <2>1. Counted(entries[c.key], c.now, c.limit) = d
    BY <1>1, <1>2, <1>4 DEF Check, LimitTypeOK
  <2>2. passed' = IF Over(d, c.limit) THEN passed
                  ELSE [passed EXCEPT ![c.key] = Append(@, pass)]
    BY <2>1 DEF Check
  <2> HIDE DEF pass, c, d
  <2>3. CASE Over(d, c.limit)
    BY <2>2, <2>3
  <2>4. CASE ~Over(d, c.limit)
    <3>1. d.hits <= Threshold
      BY <2>4, <1>3, <1>6 DEF Over
    <3> QED BY <2>2, <2>4, <3>1, <1>2, <1>4 DEF LimitTypeOK
  <2> QED BY <2>3, <2>4
<1> DEFINE was == passed[c.key]
           is == passed'[c.key]
\* What is known of every hit of this key that was let through before.
<1>14. \A i \in DOMAIN was :
           /\ was[i].start \in Nat /\ was[i].at \in Nat /\ was[i].hits \in Nat
           /\ was[i].hits \in 1..Threshold
           /\ was[i].start - MaxDelay <= was[i].at
           /\ was[i].at < was[i].start + Window
           /\ \/ was[i].start = d.start /\ was[i].hits < d.hits
              \/ was[i].start + Window <= d.start
  <2> SUFFICES ASSUME NEW i \in DOMAIN was
               PROVE  /\ was[i].start \in Nat /\ was[i].at \in Nat /\ was[i].hits \in Nat
                      /\ was[i].hits \in 1..Threshold
                      /\ was[i].start - MaxDelay <= was[i].at
                      /\ was[i].at < was[i].start + Window
                      /\ \/ was[i].start = d.start /\ was[i].hits < d.hits
                         \/ was[i].start + Window <= d.start
    OBVIOUS
  <2>1. was[i] \in Pass
    BY <1>12
  <2>2. was[i].start \in Nat /\ was[i].at \in Nat /\ was[i].hits \in Nat
    BY <2>1, BudgetAssumption DEF Pass
  <2>3. /\ was[i].hits \in 1..Threshold
        /\ was[i].start - MaxDelay <= was[i].at
        /\ was[i].at < was[i].start + Window
        /\ old # Nil
        /\ \/ was[i].start = old.start /\ was[i].hits <= old.hits
           \/ was[i].start + Window <= old.start
    BY <1>2 DEF SpanInv, HitsFit
  <2> DEFINE p == was[i]
  <2> HIDE DEF p, d, old, c
  <2>4. \/ p.start = d.start /\ p.hits < d.hits
        \/ p.start + Window <= d.start
    BY <1>3, <1>6, <1>7, <1>9, <2>2, <2>3 DEF p
  <2> QED BY <2>2, <2>3, <2>4 DEF p
<1>15. \A i, j \in DOMAIN was : i # j =>
           \/ was[i].start = was[j].start /\ was[i].hits # was[j].hits
           \/ was[i].start + Window <= was[j].start
           \/ was[j].start + Window <= was[i].start
  BY <1>2 DEF SpanInv, HitsApart
<1>16. \A k \in Keys : k = c.key => HitsFit(k)' /\ HitsApart(k)'
  <2>1. \A k \in Keys : k = c.key => kept'[k] = d /\ passed'[k] = is
    BY <1>1
  <2>2. /\ \A i \in DOMAIN is :
             /\ is[i].hits \in 1..Threshold
             /\ is[i].start - MaxDelay <= is[i].at
             /\ is[i].at < is[i].start + Window
             /\ \/ is[i].start = d.start /\ is[i].hits <= d.hits
                \/ is[i].start + Window <= d.start
        /\ \A i, j \in DOMAIN is : i # j =>
             \/ is[i].start = is[j].start /\ is[i].hits # is[j].hits
             \/ is[i].start + Window <= is[j].start
             \/ is[j].start + Window <= is[i].start
    <3> HIDE DEF d, c
    <3>1. CASE is = was
      <4>1. d.start \in Nat /\ d.hits \in Nat
        BY <1>6
      <4> HIDE DEF is, was
      <4>2. \A i \in DOMAIN is :
             /\ is[i].hits \in 1..Threshold
             /\ is[i].start - MaxDelay <= is[i].at
             /\ is[i].at < is[i].start + Window
             /\ \/ is[i].start = d.start /\ is[i].hits <= d.hits
                \/ is[i].start + Window <= d.start
        <5> SUFFICES ASSUME NEW i \in DOMAIN was
                     PROVE  /\ was[i].hits \in 1..Threshold
                            /\ was[i].start - MaxDelay <= was[i].at
                            /\ was[i].at < was[i].start + Window
                            /\ \/ was[i].start = d.start /\ was[i].hits <= d.hits
                               \/ was[i].start + Window <= d.start
          BY <3>1
        <5>1. was[i].hits \in Nat /\ (was[i].hits < d.hits => was[i].hits <= d.hits)
          BY <1>14, <4>1
        <5> QED BY <1>14, <5>1
      <4> QED BY <3>1, <1>15, <4>2
    <3>2. CASE is = Append(was, pass) /\ d.hits <= Threshold
      <4>1. /\ DOMAIN is = DOMAIN was \cup {Len(was) + 1}
            /\ Len(was) + 1 \notin DOMAIN was
            /\ \A i \in DOMAIN was : is[i] = was[i]
            /\ is[Len(was) + 1] = pass
        <5> HIDE DEF is, was, pass
        <5>1. was \in Seq(Pass)
          BY <1>12 DEF was
        <5> QED BY <3>2, <5>1
      <4>2. /\ pass.at = c.now /\ pass.start = d.start /\ pass.hits = d.hits
        OBVIOUS
      <4>3. /\ pass.hits \in 1..Threshold
            /\ pass.start - MaxDelay <= pass.at
            /\ pass.at < pass.start + Window
        <5> HIDE DEF is, was, pass, old
        <5>1. d.hits \in 1..Threshold
          BY <1>6, <1>7, <1>9, <3>2
        <5>2. d.start - MaxDelay <= c.now /\ c.now < d.start + Window
          BY <1>3, <1>6, <1>7, <1>8
        <5> QED BY <4>2, <5>1, <5>2
      <4> HIDE DEF is, was, pass
      <4>4. \A i \in DOMAIN is :
             /\ is[i].hits \in 1..Threshold
             /\ is[i].start - MaxDelay <= is[i].at
             /\ is[i].at < is[i].start + Window
             /\ \/ is[i].start = d.start /\ is[i].hits <= d.hits
                \/ is[i].start + Window <= d.start
        BY <4>1, <4>2, <4>3, <1>6, <1>14
      <4>5. \A i, j \in DOMAIN is : i # j =>
             \/ is[i].start = is[j].start /\ is[i].hits # is[j].hits
             \/ is[i].start + Window <= is[j].start
             \/ is[j].start + Window <= is[i].start
        <5> SUFFICES ASSUME NEW i \in DOMAIN is, NEW j \in DOMAIN is, i # j
                     PROVE  \/ is[i].start = is[j].start /\ is[i].hits # is[j].hits
                            \/ is[i].start + Window <= is[j].start
                            \/ is[j].start + Window <= is[i].start
          OBVIOUS
        <5>1. CASE i \in DOMAIN was /\ j \in DOMAIN was
          BY <5>1, <4>1, <1>15
        <5>2. CASE i \in DOMAIN was /\ j = Len(was) + 1
          BY <5>2, <4>1, <4>2, <1>6, <1>14
        <5>3. CASE j \in DOMAIN was /\ i = Len(was) + 1
          BY <5>3, <4>1, <4>2, <1>6, <1>14
        <5> QED BY <5>1, <5>2, <5>3, <4>1
      <4> QED BY <4>4, <4>5
    <3> QED BY <3>1, <3>2, <1>13
  <2> HIDE DEF d, is, c
  <2> QED BY <2>1, <2>2, <1>5, BudgetAssumption DEF HitsFit, HitsApart
<1> HIDE DEF c
<1> QED BY <1>11, <1>16 DEF SpanInv

\* Only Check touches a counter that is never forgotten, or lets a hit through.
LEMMA SpansPreserved ==
  ASSUME Limits = OneLimit, Window \in Nat \ {0}, ForgottenExpired, ForgottenExpired',
         NoCounterFills, NoCounterFills', SpanInv, [LimitNext]_limitVars
  PROVE  SpanInv'
<1>1. ASSUME NEW r \in Requests, Check(r) PROVE SpanInv'
  BY <1>1, CheckKeepsSpans
<1>2. CASE UNCHANGED <<kept, passed>>
  BY <1>2 DEF SpanInv, HitsFit, HitsApart
<1> QED BY <1>1, <1>2
        DEF LimitNext, Tick, PruneStart, PruneKey, ReadClock, limitVars, budgetVars

\* Of three windows, all met by one such span, two are the same.
LEMMA TwoWindowsAtMost ==
  ASSUME NEW D \in Nat, NEW W \in Nat, NEW t \in Int,
         NEW a \in Nat, NEW x \in t..(t + W - D - 1), a - D <= x, x < a + W,
         NEW b \in Nat, NEW y \in t..(t + W - D - 1), b - D <= y, y < b + W,
         NEW c \in Nat, NEW z \in t..(t + W - D - 1), c - D <= z, z < c + W,
         a = b \/ a + W <= b \/ b + W <= a,
         a = c \/ a + W <= c \/ c + W <= a,
         b = c \/ b + W <= c \/ c + W <= b
  PROVE  a = b \/ a = c \/ b = c
OBVIOUS

\* The hits of a span are as many as numbers of two windows, at most.
LEMMA SpansAreBounded ==
  ASSUME Limits = OneLimit, Window \in Nat \ {0}, LimitTypeOK, SpanInv,
         NEW k \in Keys, NEW t \in 0..MaxClock
  PROVE  Cardinality(PassedIn(k, t, t + Window - MaxDelay - 1)) <= 2 * Threshold
<1> DEFINE span == PassedIn(k, t, t + Window - MaxDelay - 1)
           hits == passed[k]
<1>1. Threshold \in Nat /\ Window \in Nat /\ MaxDelay \in Nat /\ t \in Int
  <2>1. [threshold |-> Threshold, window |-> Window] \in [threshold: Nat, window: Nat]
    BY BudgetAssumption DEF OneLimit
  <2>2. Threshold \in Nat
    BY <2>1
  <2> QED BY <2>2, BudgetAssumption, RateLimitAssumption
<1>2. \A i \in span :
          /\ i \in DOMAIN hits
          /\ hits[i].start \in Nat /\ hits[i].hits \in 1..Threshold
          /\ hits[i].at \in t..(t + Window - MaxDelay - 1)
          /\ hits[i].start - MaxDelay <= hits[i].at
          /\ hits[i].at < hits[i].start + Window
  <2> SUFFICES ASSUME NEW i \in span
               PROVE  /\ i \in DOMAIN hits
                      /\ hits[i].start \in Nat /\ hits[i].hits \in 1..Threshold
                      /\ hits[i].at \in t..(t + Window - MaxDelay - 1)
                      /\ hits[i].start - MaxDelay <= hits[i].at
                      /\ hits[i].at < hits[i].start + Window
    OBVIOUS
  <2>1. i \in DOMAIN hits /\ hits[i].at \in t..(t + Window - MaxDelay - 1)
    BY DEF PassedIn
  <2>2. hits \in Seq(Pass)
    BY DEF LimitTypeOK
  <2>3. hits[i] \in Pass
    BY <2>1, <2>2
  <2>4. hits[i].start \in Nat
    BY <2>3, BudgetAssumption DEF Pass
  <2> QED BY <2>1, <2>4 DEF SpanInv, HitsFit
<1>3. \A i, j \in span : i # j =>
          \/ hits[i].start = hits[j].start /\ hits[i].hits # hits[j].hits
          \/ hits[i].start + Window <= hits[j].start
          \/ hits[j].start + Window <= hits[i].start
  BY <1>2 DEF SpanInv, HitsApart
<1>4. \A i, j, l \in span :
          \/ hits[i].start = hits[j].start
          \/ hits[i].start = hits[l].start
          \/ hits[j].start = hits[l].start
  <2> SUFFICES ASSUME NEW i \in span, NEW j \in span, NEW l \in span
               PROVE  \/ hits[i].start = hits[j].start
                      \/ hits[i].start = hits[l].start
                      \/ hits[j].start = hits[l].start
    OBVIOUS
  <2> HIDE DEF span, hits
  <2> QED BY <1>1, <1>2, <1>3, TwoWindowsAtMost
<1> HIDE DEF span, hits
<1>5. CASE span = {}
  <2>1. Cardinality(span) = 0
    BY <1>5, FS_EmptySet
  <2> QED BY <2>1, <1>1 DEF span
<1>6. CASE span # {}
  <2>1. PICK i \in span : TRUE
    BY <1>6
  <2> DEFINE place(j) == IF hits[j].start = hits[i].start THEN hits[j].hits
                         ELSE Threshold + hits[j].hits
             f == [j \in span |-> place(j)]
  <2>2. \A j \in span : place(j) \in 1..(2 * Threshold)
    BY <1>1, <1>2
  <2>3. \A j, l \in span : j # l => place(j) # place(l)
    <3> SUFFICES ASSUME NEW j \in span, NEW l \in span, j # l
                 PROVE  place(j) # place(l)
      OBVIOUS
    <3>1. /\ hits[j].hits \in 1..Threshold /\ hits[l].hits \in 1..Threshold
          /\ hits[j].start \in Nat /\ hits[l].start \in Nat
      BY <1>2
    <3>2. hits[j].start = hits[l].start => hits[j].hits # hits[l].hits
      BY <1>1, <1>3, <3>1
    <3>3. hits[j].start # hits[l].start =>
              hits[j].start = hits[i].start \/ hits[l].start = hits[i].start
      BY <1>4, <2>1
    <3> QED BY <1>1, <3>1, <3>2, <3>3
  <2> HIDE DEF place
  <2>4. f \in Injection(span, 1..(2 * Threshold))
    BY <2>2, <2>3 DEF Injection, IsInjective
  <2>5. /\ IsFiniteSet(1..(2 * Threshold))
        /\ Cardinality(1..(2 * Threshold)) = 2 * Threshold
    <3>1. 2 * Threshold \in Nat
      BY <1>1
    <3> QED BY <3>1, FS_Interval
  <2>6. Cardinality(span) <= Cardinality(1..(2 * Threshold))
    BY <2>4, <2>5, FS_Injection
  <2> QED BY <2>5, <2>6 DEF span
<1> QED BY <1>5, <1>6

(***************************************************************************)
(* As long as no client makes 2^32 hits in one window, a span of a window  *)
(* less the wait for the lock lets at most twice the threshold of a key's  *)
(* hits through, for any clients, concurrent requests, threshold, window   *)
(* and pruning.  (RateLimiter.Check, package comment)                      *)
(***************************************************************************)
THEOREM TwiceTheBudget ==
    ASSUME Limits = OneLimit, Window \in Nat \ {0}
    PROVE  LimitSpec /\ []NoCounterFills => []TwiceAtMost
<1>1. LimitInit => SpanInv
  <2> SUFFICES ASSUME LimitInit PROVE SpanInv
    OBVIOUS
  <2>1. \A k \in Keys : passed[k] = <<>>
    BY DEF LimitInit
  <2>2. ASSUME NEW k \in Keys, NEW i \in DOMAIN passed[k] PROVE FALSE
    <3>1. DOMAIN passed[k] = 1..0
      BY <2>1
    <3> QED BY <3>1
  <2> QED BY <2>2 DEF SpanInv, HitsFit, HitsApart
<1>2. /\ ForgottenExpired /\ ForgottenExpired'
      /\ NoCounterFills /\ NoCounterFills'
      /\ SpanInv /\ [LimitNext]_limitVars
      => SpanInv'
  BY SpansPreserved
<1>3. ForgottenExpired /\ SpanInv => TwiceAtMost
  BY SpansAreBounded DEF ForgottenExpired, TwiceAtMost
<1> QED BY <1>1, <1>2, <1>3, ForgottenIsExpired, PTL DEF LimitSpec
=============================================================================
