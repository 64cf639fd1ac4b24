------------------------------ MODULE RateLimit ------------------------------
(***************************************************************************)
(* The edge node's rate limiter (edge-plane/go/ratelimit) under concurrent *)
(* requests and its pruning timer.  Check reads the clock before it takes  *)
(* the shard's lock, so a hit may be counted with a time older than the    *)
(* counter's; Prune reads the clock once and then walks the shards.        *)
(***************************************************************************)
EXTENDS Budget, Sequences

CONSTANTS
    Requests,     \* goroutines calling Check
    Idle,         \* idleEviction
    MaxDelay,     \* how long a request may wait between its clock and the lock
    MaxHits       \* bound on the number of calls of Check

VARIABLES
    clock,        \* the node's monotonic clock
    entries,      \* [Keys -> Counter or Nil], all shards
    calls,        \* [Requests -> the Check under way, or Nil]
    pruning,      \* the Prune under way, or Nil
    passed,       \* [Keys -> Seq(Pass)], history: the hits let through
    made          \* number of calls so far (bounded by MaxHits)

limitVars == <<clock, entries, calls, pruning, passed, made, kept, verdict>>

Call == [key: Keys, now: 0..MaxClock, limit: Limits]

\* A hit let through: when it was read, and the counter it was counted in.
Pass == [at: 0..MaxClock, start: 0..MaxClock, hits: 0..Wrap-1]

Walk == [now: 0..MaxClock, todo: SUBSET Keys]

\* No counter is evicted while its window may still be open for some request:
\* the code's 300 seconds against the windows operators configure.
ASSUME RateLimitAssumption ==
    /\ Idle \in Nat
    /\ MaxDelay \in Nat
    /\ MaxHits \in Nat
    /\ \A limit \in Limits : limit.window + 2 * MaxDelay <= Idle
    /\ Nil \notin Call \cup Walk

LimitTypeOK ==
    /\ clock \in 0..MaxClock
    /\ entries \in [Keys -> Counter \cup {Nil}]
    /\ kept \in [Keys -> Counter \cup {Nil}]
    /\ calls \in [Requests -> Call \cup {Nil}]
    /\ pruning \in Walk \cup {Nil}
    /\ passed \in [Keys -> Seq(Pass)]
    /\ made \in 0..MaxHits

LimitInit ==
    /\ BudgetInit
    /\ clock = 0
    /\ entries = [k \in Keys |-> Nil]
    /\ calls = [r \in Requests |-> Nil]
    /\ pruning = Nil
    /\ passed = [k \in Keys |-> <<>>]
    /\ made = 0

ReadClock(r) ==
    /\ calls[r] = Nil
    /\ made < MaxHits
    /\ made' = made + 1
    /\ \E k \in Keys, limit \in Limits :
           calls' = [calls EXCEPT ![r] = [key |-> k, now |-> clock, limit |-> limit]]
    /\ UNCHANGED <<clock, entries, pruning, passed, budgetVars>>

\* The locked part of Check.  kept is what an unpruned counter would hold.
Check(r) ==
    LET c == calls[r]
        counter == Counted(entries[c.key], c.now, c.limit)
    IN  /\ c # Nil
        /\ entries' = [entries EXCEPT ![c.key] = counter]
        /\ kept' = [kept EXCEPT ![c.key] = Counted(@, c.now, c.limit)]
        /\ Answer(c.key, counter, c.limit)
        /\ passed' = IF Over(counter, c.limit) THEN passed
                     ELSE [passed EXCEPT ![c.key] = Append(@,
                              [at |-> c.now, start |-> counter.start, hits |-> counter.hits])]
        /\ calls' = [calls EXCEPT ![r] = Nil]
        /\ UNCHANGED <<clock, pruning, made>>

PruneStart ==
    /\ pruning = Nil
    /\ pruning' = [now |-> clock, todo |-> Keys]
    /\ UNCHANGED <<clock, entries, calls, passed, made, budgetVars>>

\* Mutant: the comparison is the wrong way round.
IsIdleInverted(c, now) == now - c.last < Idle

IsIdle(c, now) == now - c.last >= Idle

\* Mutant: whatever is in the shard goes.
PruneKeyAlways(k) ==
    /\ pruning # Nil
    /\ k \in pruning.todo
    /\ pruning' = IF pruning.todo = {k} THEN Nil ELSE [pruning EXCEPT !.todo = @ \ {k}]
    /\ entries' = [entries EXCEPT ![k] = Nil]
    /\ UNCHANGED <<clock, calls, passed, made, budgetVars>>

PruneKey(k) ==
    /\ pruning # Nil
    /\ k \in pruning.todo
    /\ pruning' = IF pruning.todo = {k} THEN Nil ELSE [pruning EXCEPT !.todo = @ \ {k}]
    /\ entries' = IF entries[k] # Nil /\ IsIdle(entries[k], pruning.now)
                  THEN [entries EXCEPT ![k] = Nil]
                  ELSE entries
    /\ UNCHANGED <<clock, calls, passed, made, budgetVars>>

\* A request is not left waiting for its lock for longer than MaxDelay.
Tick ==
    /\ clock < MaxClock
    /\ \A r \in Requests : calls[r] # Nil => clock - calls[r].now < MaxDelay
    /\ clock' = clock + 1
    /\ UNCHANGED <<entries, calls, pruning, passed, made, budgetVars>>

LimitNext ==
    \/ Tick
    \/ PruneStart
    \/ \E k \in Keys : PruneKey(k)
    \/ \E r \in Requests : ReadClock(r) \/ Check(r)

LimitSpec == LimitInit /\ [][LimitNext]_limitVars

(***************************************************************************)
(* The inductive invariant: a counter still in memory is the one that was  *)
(* never forgotten, and a forgotten one is out of every window a request   *)
(* under way or to come can count in.  (idleEviction)                      *)
(***************************************************************************)
ForgottenExpired ==
    /\ LimitTypeOK
    /\ \A k \in Keys : entries[k] # Nil => entries[k] = kept[k]
    /\ \A k \in Keys : kept[k] # Nil =>
           /\ kept[k].start <= clock
           /\ kept[k].last <= clock
           /\ kept[k].start - MaxDelay <= kept[k].last
    /\ \A k \in Keys, limit \in Limits : entries[k] = Nil /\ kept[k] # Nil =>
           kept[k].start + limit.window + MaxDelay <= clock
    /\ \A r \in Requests : calls[r] # Nil =>
           calls[r].now <= clock /\ clock - MaxDelay <= calls[r].now
    /\ pruning # Nil => pruning.now <= clock

(***************************************************************************)
(* Pruning is invisible: every verdict is the one a limiter that forgets   *)
(* nothing would have given.  (ratelimit.go: "an active client's counter   *)
(* is never pruned mid-window")                                            *)
(***************************************************************************)
ImplementsBudget == BudgetInit /\ [][BudgetNext]_budgetVars
=============================================================================
