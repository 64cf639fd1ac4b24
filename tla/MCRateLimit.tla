----------------------------- MODULE MCRateLimit -----------------------------
(***************************************************************************)
(* An instance of RateLimit in which every rule has the same limit, and    *)
(* the budget it then grants over real time.                               *)
(***************************************************************************)
EXTENDS RateLimit, FiniteSets

CONSTANTS Threshold, Window

OneLimit == {[threshold |-> Threshold, window |-> Window]}

\* The hits of key k let through with a clock reading in first..last.
PassedIn(k, first, last) == {i \in DOMAIN passed[k] : passed[k][i].at \in first..last}

(***************************************************************************)
(* The budget over real time: in a span of one window, less the time a     *)
(* request may wait for the lock, a client gets at most twice the          *)
(* threshold through, wherever the window's boundary falls and whatever    *)
(* was pruned.  (ratelimit package comment: "up to 2x the budget across a  *)
(* boundary")                                                              *)
(***************************************************************************)
TwiceAtMost ==
    \A k \in Keys, t \in 0..MaxClock :
        Cardinality(PassedIn(k, t, t + Window - MaxDelay - 1)) <= 2 * Threshold
=============================================================================
