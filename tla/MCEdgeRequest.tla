--------------------------- MODULE MCEdgeRequest ---------------------------
(***************************************************************************)
(* EdgeRequest with the rule language of ZoneCompiler and MatchCondition,  *)
(* on four families of configurations: one rule with every kind of         *)
(* condition, precedence between records, budgets with an edit, and        *)
(* challenges on two zones.  The properties compare what the node did with *)
(* the zones as they were authored.                                        *)
(***************************************************************************)
EXTENDS EdgeRequest, TLC

MCClients == {"c1", "c2"}
MCHosts == {"h1", "h2"}

MCNetworks == (<<"c1">> :> {"c1"}) @@ (<<"net">> :> {"c1", "c2"})

INSTANCE ZoneCompiler WITH Networks <- MCNetworks

A == <<"a">>
Leaf(field, op, v) ==
    Object([field |-> Text(field), op |-> Text(op), value |-> v])
ListLeaf(field, op, vs) ==
    Object([field |-> Text(field), op |-> Text(op), values |-> Items(vs)])
Header(name) ==
    Object([field |-> Text("http.header"), op |-> Text("contains"), value |-> Text(A), header |-> Text(name)])

Leaves ==
    {Leaf("uri.path", op, Text(A)) : op \in {"eq", "ne", "contains", "notContains", "icontains",
                                             "startsWith", "endsWith", "regex"}}
    \cup {Leaf("ip.cidr", op, Text(t)) : op \in {"equals", "ne"}, t \in {<<"c1">>, <<"net">>}}
    \cup {ListLeaf("uriPath", op, <<Text(A), Text(<<"b">>)>>) : op \in {"in", "notIn"}}
    \cup {ListLeaf("sourceIpCidr", op, <<Text(<<"c1">>), Text(<<"bad">>)>>) : op \in {"in", "notIn"}}
    \cup {Header(<<"A">>), Leaf("uriPath", "eq", Number(A))}
Pairs == {<<Leaf("uri.path", "contains", Text(A)), Leaf("ip", "eq", Text(<<"c1">>))>>,
          <<Leaf("uri.path", "eq", Text(A)), Object([not |-> Header(<<"a">>)])>>}
\* A number in a list of texts: the validator takes it, the compiler leaves the
\* entry out and keeps the rest.
Odd == {ListLeaf("uriPath", op, <<Text(<<"b">>), Number(A)>>) : op \in {"in", "notIn"}}
Conditions ==
    Leaves \cup {Null} \cup {Object([not |-> c]) : c \in Leaves} \cup {Object([all |-> Items(p)]) : p \in Pairs}
    \cup {Object([any |-> Items(p)]) : p \in Pairs} \cup {Object([any |-> Items(<< >>)])}
    \cup Odd

-----------------------------------------------------------------------------
Zone(id, mode, rules, lists, ddos) ==
    [id |-> id, status |-> "active", mode |-> mode, rules |-> rules, lists |-> lists, ddos |-> ddos]
Rule(id, action, priority, condition) ==
    [id |-> id, enabled |-> Nil, ruleType |-> "waf", action |-> action, priority |-> priority,
     matchCondition |-> condition, threshold |-> Nil, window |-> Nil]
Limited(rule, threshold, window) ==
    [rule EXCEPT !.ruleType = "rateLimit", !.threshold = threshold, !.window = window]
Entry(id, type, value) == [id |-> id, enabled |-> TRUE, type |-> type, value |-> value]
Policy(id, action, priority, threshold, path) ==
    [id |-> id, enabled |-> TRUE, action |-> action, priority |-> priority, threshold |-> threshold,
     window |-> 2, pathPrefix |-> path, httpMethod |-> <<"any">>]

Only(zone) == [h \in Hosts |-> IF h = "h1" THEN zone ELSE Nil]

\* Only what the save-time validator of zones-service accepts is ever stored.
ConditionConfigs ==
    {Only(Zone("z1", "enforce", <<Rule("r1", "block", 1, c)>>, <<>>, <<>>)) :
        c \in {c \in Conditions : IsValidMatchCondition(c)}}

OnA == Leaf("uriPath", "startsWith", Text(A))
PrecedenceConfigs ==
    {Only(Zone("z1", mode,
               <<Rule("r1", "challenge", p, Null), [Rule("r2", "block", 2, OnA) EXCEPT !.enabled = on],
                 Rule("r3", "allow", q, OnA)>>,
               lists, <<>>)) :
        mode \in {"enforce", "monitor"}, p \in {Nil, 2}, q \in {1, 2}, on \in {Nil, FALSE},
        lists \in {<<>>, <<Entry("l1", "blacklist", <<"net">>), Entry("l2", "whitelist", <<"c1">>)>>}}

Budgeted(threshold, window, condition) ==
    Only(Zone("z1", "enforce", <<Limited(Rule("r1", "block", 1, condition), threshold, window)>>, <<>>,
              <<Policy("d1", "challenge", 2, 2, <<>>), Policy("d2", "block", 1, 1, A)>>))
BudgetConfigs == {Budgeted(1, 1, Null), Budgeted(1, 2, OnA), Budgeted(0, 2, OnA)}
MCEdits == {<<Budgeted(1, 1, Null), Budgeted(1, 2, OnA)>>}

ChallengeConfigs ==
    {[h \in Hosts |-> Zone(IF h = "h1" THEN "z1" ELSE "z2", "enforce",
                           <<Rule("r0", "challenge", 1, Null)>>, <<>>, <<>>)],
     Only(Zone("z1", "enforce", <<Rule("r0", "newer", 1, Null)>>, <<>>, <<>>)),
     Only([Zone("z1", "enforce", <<Rule("r0", "challenge", 1, Null)>>, <<>>, <<>>) EXCEPT !.status = "paused"])}

MCConfigs == ConditionConfigs \cup PrecedenceConfigs \cup BudgetConfigs \cup ChallengeConfigs

Request(host, ip, path, header) ==
    [host |-> host, ip |-> ip, uriPath |-> path, method |-> <<"GET">>, headers |-> header]
Paths == {<<>>, A, <<"A">>, <<"a", "b">>, <<"b", "a">>}
NoHeader == [n \in {} |-> <<>>]
MCRequests(config) ==
    IF config \in ConditionConfigs
    THEN {Request("h1", ip, path, h) : ip \in Clients, path \in Paths, h \in {NoHeader, A :> <<"b", "a">>}}
    ELSE IF config \in ChallengeConfigs
    THEN {Request(host, ip, A, NoHeader) : host \in Hosts, ip \in Clients}
    ELSE {Request("h1", ip, path, NoHeader) : ip \in Clients, path \in {A, <<"b">>}}
MCMaxRequests(config) ==
    IF config \in ConditionConfigs \cup PrecedenceConfigs THEN 1 ELSE 3

MCKeys == {"z1", "z2"} \X {"r1", "d1", "d2"} \X Clients

-----------------------------------------------------------------------------
(* The reference: the authored records, in the order the product promises  *)
(* (access lists, allow before block; rules; policies; by priority).       *)

Records(zone) == Range(zone.lists) \cup Range(zone.rules) \cup Range(zone.ddos)
IsEntry(r) == "type" \in DOMAIN r
IsPolicy(r) == "pathPrefix" \in DOMAIN r
Rank(r) == CASE IsEntry(r) -> IF r.type = "whitelist" THEN 1 ELSE 2 [] IsPolicy(r) -> 4 [] OTHER -> 3

\* Does r come strictly before s, whatever the order of their rows?
Precedes(r, s) ==
    \/ Rank(r) < Rank(s)
    \/ /\ Rank(r) = Rank(s) /\ Rank(r) > 2
       /\ (IF r.priority = Nil THEN 1000 ELSE r.priority) < (IF s.priority = Nil THEN 1000 ELSE s.priority)

HasBudget(r) == IsPolicy(r) \/ (~ IsEntry(r) /\ r.ruleType = "rateLimit")

\* Is this a rule of which the compiler keeps only a part?
DropsAnEntry(r) == ~ IsEntry(r) /\ ~ IsPolicy(r) /\ r.matchCondition \in Odd

\* Did the author mean this record for this request?
Meant(r, req) ==
    /\ r.enabled # FALSE
    /\ IF IsEntry(r) THEN r.value \in DOMAIN MCNetworks /\ req.ip \in MCNetworks[r.value]
       ELSE IF IsPolicy(r) THEN \E rest \in {<<>>, A, <<"b">>} : req.uriPath = r.pathPrefix \o rest
       ELSE Describes(r.matchCondition, req)

ActionOf(r) == IF IsEntry(r) THEN IF r.type = "whitelist" THEN "allow" ELSE "block" ELSE r.action

ById(zone, id) == CHOOSE r \in Records(zone) : r.id = id

\* Whatever the control plane publishes an edge node can read: an action,
\* field or operator the node does not know would freeze the zone on its
\* last good rule-set (compile.go against edge ruleset.UnmarshalJSON).
PublishedIsReadable ==
    \A h \in Hosts : authored[h] # Nil => served[h] # Nil

\* A request is acted on only by a record its author enabled and meant for
\* it, unless the compiler left an entry of the record's list out (see
\* NeverBroader), with the author's action, in an enforcing zone; and a record
\* with a budget only once the client sent more such requests than the budget
\* within its window (compile.CompileZone, evaluate.Evaluate, waf-edge handle).
ActedOnAsMeant ==
    \A i \in DOMAIN log : log[i].by # Nil =>
        LET r == ById(log[i].zone, log[i].by)
            counted == {j \in 1..i : /\ log[j].req.ip = log[i].req.ip /\ log[j].run = log[i].run
                                     /\ log[i].at - log[j].at < r.window
                                     /\ \E s \in Records(log[j].zone) : s.id = r.id /\ Meant(s, log[j].req)}
        IN  /\ ~ DropsAnEntry(r) => Meant(r, log[i].req)
            /\ (HasBudget(r) /\ r.threshold > 0 => Cardinality(counted) > r.threshold)
            /\ (log[i].outcome = "blocked" => ActionOf(r) = "block" /\ log[i].zone.mode = "enforce")
            /\ (log[i].outcome \in {"challenged", "cleared"} =>
                    ActionOf(r) = "challenge" /\ log[i].zone.status = "active")

\* "A firewall rule that matches more than its author wrote is worse than a
\* firewall rule that is missing": no record whatever acts on a request it was
\* not meant for (the comment of compile.ParseMatch).
NeverBroader ==
    \A i \in DOMAIN log : log[i].by # Nil => Meant(ById(log[i].zone, log[i].by), log[i].req)

\* No record that comes before the one that acted (any record, when none
\* did) and has no budget was meant for the request, unless the compiler left an
\* entry of its list out; and a budget record that acted goes on acting for the
\* rest of the same second, unless one before it takes over (evaluate.Evaluate
\* and the order its package comment gives: access lists, rules, DDoS policies;
\* the README's order is DdosBudgetFirst).
NothingEarlierMeant ==
    \A i \in DOMAIN log : log[i].zone # Nil =>
        LET zone == log[i].zone
            Skipped(r) == log[i].by = Nil \/ Precedes(r, ById(zone, log[i].by))
            WasOver(r) == \E j \in 1..(i - 1) :
                /\ log[j].by = r.id /\ log[j].at = log[i].at /\ log[j].run = log[i].run
                /\ log[j].req.ip = log[i].req.ip /\ log[j].zone = zone
        IN  \A r \in Records(zone) :
                Skipped(r) /\ ~ DropsAnEntry(r) /\ (~ HasBudget(r) \/ WasOver(r)) => ~ Meant(r, log[i].req)

\* "evaluate: DDoS budget first, then rules by priority": once a client has sent
\* more requests within one second than a policy of the zone allows, a policy
\* acts on its request, and no rule (edge-plane/README.md, waf-edge/main.go).
DdosBudgetFirst ==
    \A i \in DOMAIN log : log[i].zone # Nil =>
        LET policies == {r \in Range(log[i].zone.ddos) : Meant(r, log[i].req)}
            sent(r) == {j \in 1..i : /\ log[j].req.ip = log[i].req.ip /\ log[j].run = log[i].run
                                     /\ log[j].zone = log[i].zone /\ log[j].at = log[i].at
                                     /\ Meant(r, log[j].req)}
        IN  (\E r \in policies : Cardinality(sent(r)) > r.threshold)
                => log[i].by \in {r.id : r \in policies}
=============================================================================
