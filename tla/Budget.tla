------------------------------- MODULE Budget -------------------------------
(***************************************************************************)
(* What the edge's request budgets promise (edge-plane/go/ratelimit): one  *)
(* fixed-window counter per key that is never forgotten, and a verdict per *)
(* hit.  RateLimit, which evicts counters, is shown to implement it.       *)
(***************************************************************************)
EXTENDS Integers

CONSTANTS
    Keys,         \* budgets: one per (zone, rule or policy, client)
    Limits,       \* [threshold, window] of the rules a hit may come from
    MaxClock,     \* bound: time, in seconds, runs from 0 to MaxClock
    Wrap,         \* 2^32 in the code: hits is a uint32
    Nil

VARIABLES
    kept,         \* [Keys -> Counter or Nil], the counters never forgotten
    verdict       \* the last answer given: [key, over], or Nil

budgetVars == <<kept, verdict>>

Counter == [start: 0..MaxClock, hits: 0..Wrap-1, last: 0..MaxClock]

ASSUME BudgetAssumption ==
    /\ MaxClock \in Nat
    /\ Wrap \in Nat \ {0}
    /\ Limits \subseteq [threshold: Nat, window: Nat]
    /\ Nil \notin Counter

Fresh(now) == [start |-> now, hits |-> 0, last |-> now]

\* One hit, read at time now, on counter c (which may be older or newer).
Counted(c, now, limit) ==
    LET old == IF c = Nil THEN Fresh(now) ELSE c
        cur == IF now - old.start >= limit.window THEN Fresh(now) ELSE old
    IN  [start |-> cur.start, hits |-> (cur.hits + 1) % Wrap, last |-> now]

\* Mutant: the crossing request is still let through.
OverAfterCrossing(c, limit) == c.hits > limit.threshold + 1

Over(c, limit) == c.hits > limit.threshold

Answer(k, c, limit) == verdict' = [key |-> k, over |-> Over(c, limit)]

BudgetInit ==
    /\ kept = [k \in Keys |-> Nil]
    /\ verdict = Nil

Hit(k, now, limit) ==
    /\ kept' = [kept EXCEPT ![k] = Counted(kept[k], now, limit)]
    /\ Answer(k, kept'[k], limit)

BudgetNext == \E k \in Keys, now \in 0..MaxClock, limit \in Limits : Hit(k, now, limit)

BudgetSpec == BudgetInit /\ [][BudgetNext]_budgetVars
=============================================================================
