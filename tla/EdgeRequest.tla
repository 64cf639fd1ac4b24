---------------------------- MODULE EdgeRequest ----------------------------
(***************************************************************************)
(* One edge node answering requests (edge-plane/go/cmd/waf-edge handle,    *)
(* evaluate.Evaluate, clearance): the rule-sets it serves, the budgets it  *)
(* counts, the clearance cookies it hands out, a clock in seconds, edits   *)
(* that reach the node between requests, and restarts.                     *)
(*                                                                         *)
(* A request is one step: what it shares with concurrent requests is the   *)
(* limiter, whose interleavings module RateLimit covers, and an immutable  *)
(* snapshot.  Compilation and matching are parameters, so that what is     *)
(* proved about the node holds for every rule language.                    *)
(***************************************************************************)
EXTENDS Integers, Sequences, FiniteSets

CONSTANTS
    Hosts, Clients,
    Requests(_),     \* what clients send to a configuration: [host, ip, ...]
    Configs,         \* the initial authored zones: a set of functions on Hosts
    Edits,           \* <<from, to>>: the edits of that configuration
    CompiledFor(_),  \* authored zone -> the rule-set served for it, or Nil
    Applies(_, _),   \* does this compiled rule or policy match this request?
    Keys,            \* <<zone id, record id, client>>, one budget each
    TTL,             \* CLEARANCE_TTL_SECONDS
    Wrap,            \* 2^32: the hit counters are uint32
    MaxClock,        \* bound on the clock
    MaxRequests(_),  \* bound on the requests to a configuration
    MaxRestarts,     \* bound on the restarts of a behaviour
    Nil

VARIABLES
    authored,        \* the zones as the authors last saved them
    served,          \* the node's snapshot of rule-sets
    now,
    kept,            \* the limiter's counters, Nil for a key never seen
    secret,          \* the clearance secret of this run of the node
    log              \* ghost: every request and what became of it

edgeRequestVars == <<authored, served, now, kept, secret, log>>

ASSUME ClearanceAssumption ==
    TTL \in Nat /\ MaxClock \in Nat /\ MaxRestarts \in Nat

Limiter == INSTANCE Budget WITH Limits <- {}, verdict <- Nil

NoCookie == [expires |-> 0, signature |-> Nil]

-----------------------------------------------------------------------------
(* clearance.go: a signature is the tuple it is computed from.             *)

\* Mutant: the client is left out of what is signed.
SignZoneOnly(key, zoneId, ip, expires) == <<key, zoneId, Nil, expires>>

Sign(key, zoneId, ip, expires) == <<key, zoneId, ip, expires>>

\* Mutant: the expiry that is signed is not the one handed out.
IssueOtherExpiry(zoneId, ip) ==
    [expires |-> now + TTL, signature |-> Sign(secret, zoneId, ip, now)]

Issue(zoneId, ip) ==
    [expires |-> now + TTL, signature |-> Sign(secret, zoneId, ip, now + TTL)]

Verify(cookie, zoneId, ip) ==
    /\ cookie.expires > now
    /\ cookie.signature = Sign(secret, zoneId, ip, cookie.expires)

\* The cookies clients hold: all that were ever issued, on any address.
Cookies == {NoCookie} \cup {log[i].issued : i \in DOMAIN log}

-----------------------------------------------------------------------------
(* evaluate.go                                                             *)

Enforcing(zone) == zone.mode = "enforce" /\ zone.status = "active"

\* Mutant: policies first.
PoliciesFirst(zone) == zone.ddos \o zone.rules

\* The order in which Evaluate walks a rule-set: rules, then DDoS policies.
Walk(zone) == zone.rules \o zone.ddos

Key(zone, rule, ip) == <<zone.id, rule.id, ip>>

\* All the zones authors ever save.
Authored == Configs \cup {edit[2] : edit \in Edits}

\* Requests go to the hosts there are, a served rule-set is a sequence of rules,
\* and there is a counter for each of its budgets and clients.
ASSUME NodeAssumption ==
    /\ Wrap \in Nat \ {0}
    /\ Nil \notin Limiter!Counter
    /\ \A config \in Authored : \A req \in Requests(config) :
        LET zone == CompiledFor(config[req.host])
        IN  /\ req.host \in Hosts
            /\ zone # Nil => DOMAIN Walk(zone) \subseteq Nat \ {0}
            /\ zone # Nil => \A i \in DOMAIN Walk(zone) : Walk(zone)[i] # Nil
            /\ zone # Nil => \A i \in DOMAIN Walk(zone) : Walk(zone)[i].limit # Nil =>
                   /\ Walk(zone)[i].limit \in [threshold: Nat, window: Nat]
                   /\ Key(zone, Walk(zone)[i], req.ip) \in Keys

\* The counter of a rule after this request has been counted on it.
Hit(zone, rule, ip) == Limiter!Counted(kept[Key(zone, rule, ip)], now, rule.limit)

\* A rule fires if it matches and, when it has a budget, the client is over it.
Fires(zone, rule, req) ==
    /\ Applies(rule, req)
    /\ rule.limit = Nil \/ Limiter!Over(Hit(zone, rule, req.ip), rule.limit)

\* The first rule of the walk that fires, 0 if none does.
Trigger(zone, req) ==
    LET firing == {i \in DOMAIN Walk(zone) : Fires(zone, Walk(zone)[i], req)}
    IN  IF firing = {} THEN 0 ELSE CHOOSE i \in firing : \A j \in firing : i <= j

\* Mutant: a rule with a budget is charged whether or not it matches.
IsChargedUnmatched(rule, req) == rule.limit # Nil

IsCharged(rule, req) == rule.limit # Nil /\ Applies(rule, req)

\* Mutant: the map of counters is rebuilt from the ones just touched.
CountAfresh(zone, req) ==
    kept' = [key \in {Key(zone, r, req.ip) : r \in {r \in {Walk(zone)[i] : i \in DOMAIN Walk(zone)} : IsCharged(r, req)}}
                |-> Limiter!Fresh(now)]

\* The request is counted on every matching budget the walk came to.
Count(zone, req) ==
    LET t == Trigger(zone, req)
        charged == {i \in DOMAIN Walk(zone) : (t = 0 \/ i <= t) /\ IsCharged(Walk(zone)[i], req)}
        RuleOf(key) == {Walk(zone)[i] : i \in {i \in charged : Key(zone, Walk(zone)[i], req.ip) = key}}
    IN  kept' = [key \in Keys |-> IF RuleOf(key) = {} THEN kept[key]
                                  ELSE Hit(zone, CHOOSE r \in RuleOf(key) : TRUE, req.ip)]

-----------------------------------------------------------------------------
(* main.go: handle.                                                        *)

Record(req, cookie, rule, outcome, issued) ==
    log' = Append(log, [at |-> now, req |-> req, cookie |-> cookie, zone |-> authored[req.host],
                        zoneId |-> IF served[req.host] = Nil THEN Nil ELSE served[req.host].id,
                        by |-> IF rule = Nil THEN Nil ELSE rule.id, outcome |-> outcome,
                        issued |-> issued, run |-> secret])

UnknownHost(req, cookie) ==
    /\ served[req.host] = Nil
    /\ Record(req, cookie, Nil, "unknownHost", NoCookie)
    /\ UNCHANGED kept

PassThrough(req, cookie) ==
    /\ served[req.host] # Nil
    /\ Trigger(served[req.host], req) = 0
    /\ Record(req, cookie, Nil, "passed", NoCookie)
    /\ Count(served[req.host], req)

EffectiveAction(zone, rule) == IF Enforcing(zone) THEN rule.action ELSE "log"

Decide(req, cookie) ==
    LET zone == served[req.host]
        rule == Walk(zone)[Trigger(zone, req)]
        action == EffectiveAction(zone, rule)
        cleared == Verify(cookie, zone.id, req.ip)
    IN  /\ served[req.host] # Nil
        /\ Trigger(zone, req) # 0
        /\ CASE action = "block" -> Record(req, cookie, rule, "blocked", NoCookie)
             [] action = "challenge" /\ cleared -> Record(req, cookie, rule, "cleared", NoCookie)
             [] action = "challenge" /\ ~ cleared ->
                    Record(req, cookie, rule, "challenged", Issue(zone.id, req.ip))
             [] OTHER -> Record(req, cookie, rule, "passed", NoCookie)
        /\ Count(zone, req)

Handle(req, cookie) ==
    /\ Len(log) < MaxRequests(authored)
    /\ UnknownHost(req, cookie) \/ PassThrough(req, cookie) \/ Decide(req, cookie)
    /\ UNCHANGED <<authored, served, now, secret>>

-----------------------------------------------------------------------------
Tick == now < MaxClock /\ now' = now + 1 /\ UNCHANGED <<authored, served, kept, secret, log>>

\* An edit reaches the node: the snapshot is swapped, the counters stay.
Republish ==
    /\ \E e \in Edits : e[1] = authored /\ authored' = e[2]
    /\ served' = [h \in Hosts |-> CompiledFor(authored'[h])]
    /\ UNCHANGED <<now, kept, secret, log>>

\* A restart forgets the counters and, with no secret configured, draws one.
Restart ==
    /\ secret < MaxRestarts
    /\ secret' = secret + 1
    /\ kept' = [key \in Keys |-> Nil]
    /\ UNCHANGED <<authored, served, now, log>>

EdgeRequestInit ==
    /\ authored \in Configs
    /\ served = [h \in Hosts |-> CompiledFor(authored[h])]
    /\ now = 0
    /\ kept = [key \in Keys |-> Nil]
    /\ secret = 0
    /\ log = <<>>

EdgeRequestNext ==
    \/ \E req \in Requests(authored), cookie \in Cookies : Handle(req, cookie)
    \/ Tick
    \/ Republish
    \/ Restart

EdgeRequestSpec == EdgeRequestInit /\ [][EdgeRequestNext]_edgeRequestVars

-----------------------------------------------------------------------------
\* The node serves what the authors' zones compile to, has a counter or none
\* for each budget, and every request came to one of the ends of handle.
EdgeRequestTypeOK ==
    /\ authored \in Authored
    /\ served = [h \in Hosts |-> CompiledFor(authored[h])]
    /\ now \in 0..MaxClock /\ secret \in 0..MaxRestarts
    /\ kept \in [Keys -> Limiter!Counter \cup {Nil}]
    /\ \A i \in DOMAIN log : log[i].outcome \in {"unknownHost", "passed", "blocked", "cleared", "challenged"}

\* Did entry j of the log hand this client a clearance for this zone?
Challenged(j, zoneId, ip) ==
    log[j].outcome = "challenged" /\ log[j].zoneId = zoneId /\ log[j].req.ip = ip

\* Whoever passes a challenge was challenged for that zone, on that address,
\* by this run of the node, less than the lifetime of a clearance ago
\* (clearance.Verify: the zone, the address and the expiry are signed).
ClearedWasChallenged ==
    \A i \in DOMAIN log : log[i].outcome = "cleared" =>
        \E j \in 1..(i - 1) :
            /\ Challenged(j, log[i].zoneId, log[i].req.ip)
            /\ log[j].run = log[i].run
            /\ log[i].at - log[j].at < TTL

\* A client that comes back with the cookie of a challenge, on the same
\* address and within its lifetime, is not challenged again ("let through
\* rather than looped forever on the interstitial", waf-edge/main.go).
NoChallengeLoop ==
    \A i \in DOMAIN log : log[i].outcome = "challenged" =>
        ~ \E j \in 1..(i - 1) :
            /\ Challenged(j, log[i].zoneId, log[i].req.ip)
            /\ log[i].cookie = log[j].issued
            /\ log[j].run = log[i].run
            /\ log[i].at - log[j].at < TTL
=============================================================================
