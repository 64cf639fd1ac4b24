---------------------------- MODULE ZoneCompiler ----------------------------
(***************************************************************************)
(* What the control plane makes of a zone's records (compile.go), and what *)
(* an edge node reads back from the published text (edge ruleset.go).      *)
(*                                                                         *)
(* An authored zone is [id, status, mode, rules, lists, ddos], the last    *)
(* three being sequences of records in the order data-plane lists them; an *)
(* optional field that was not given is Nil.                               *)
(***************************************************************************)
EXTENDS MatchCondition

CONSTANTS
    Wrap,    \* 2^32 in the code: thresholds and windows become uint32
    Nil

Publishable(zone) == zone.status \in {"active", "paused"}

\* Mutant: the action travels as it was written.
ActionVerbatim(raw) == IF raw = Nil THEN "" ELSE raw

\* Anything unrecognised is only logged.
ActionFrom(raw) == IF raw \in {"block", "challenge", "allow"} THEN raw ELSE "log"

\* An absent or useless number is replaced; any other is cut to 32 bits.
Uint32(v, default) == (IF v = Nil \/ v < 1 THEN default ELSE v) % Wrap

\* Mutant: a disabled record is compiled too.
EnabledOrNot(record) == TRUE

Enabled(record) == record.enabled # FALSE

PriorityOf(record) == IF record.priority = Nil THEN 1000 ELSE record.priority

\* Mutant: the records stay in the order they were listed in.
AsListed(records) == records

\* The records of a sequence in ascending priority, ties in their old order.
ByPriority(records) ==
    LET Earlier(i, j) == \/ PriorityOf(records[i]) < PriorityOf(records[j])
                         \/ PriorityOf(records[i]) = PriorityOf(records[j]) /\ i < j
        order == SetToSortSeq(DOMAIN records, Earlier)
    IN  [k \in DOMAIN records |-> records[order[k]]]

Each(Op(_), records) == [i \in DOMAIN records |-> Op(records[i])]

CompileRule(rule) ==
    [id |-> rule.id, action |-> ActionFrom(rule.action),
     expr |-> ParseMatch(rule.matchCondition),
     limit |-> IF rule.ruleType # "rateLimit" THEN Nil
               ELSE [threshold |-> Uint32(rule.threshold, 100), window |-> Uint32(rule.window, 60)]]

CompileRules(rules) ==
    LET Compiles(rule) == Enabled(rule) /\ ParseMatch(rule.matchCondition) # Dropped
    IN  Each(CompileRule, ByPriority(SelectSeq(rules, Compiles)))

CompileIPAccessList(entry) ==
    [id |-> entry.id, action |-> IF entry.type = "whitelist" THEN "allow" ELSE "block",
     expr |-> [kind |-> "predicate",
               p |-> [field |-> "sourceIpCidr", op |-> "eq", value |-> entry.value,
                      values |-> <<>>, param |-> NoText]],
     limit |-> Nil]

\* Entries that allow before entries that block, whatever order they came in.
CompileAccessLists(entries) ==
    LET compiled == Each(CompileIPAccessList, SelectSeq(entries, Enabled))
        Allows(rule) == rule.action = "allow"
        Blocks(rule) == ~ Allows(rule)
    IN  SelectSeq(compiled, Allows) \o SelectSeq(compiled, Blocks)

CompileDdos(policy) ==
    [id |-> policy.id, action |-> ActionFrom(policy.action),
     limit |-> [threshold |-> Uint32(policy.threshold, 500), window |-> Uint32(policy.window, 60)],
     pathPrefix |-> IF policy.pathPrefix = <<>> THEN Nil ELSE policy.pathPrefix,
     httpMethod |-> IF policy.httpMethod = <<>> THEN Nil ELSE policy.httpMethod]

CompileDdosPolicies(policies) == Each(CompileDdos, ByPriority(SelectSeq(policies, Enabled)))

CompileZone(zone) ==
    [id |-> zone.id, status |-> zone.status, mode |-> zone.mode,
     rules |-> CompileAccessLists(zone.lists) \o CompileRules(zone.rules),
     ddos |-> CompileDdosPolicies(zone.ddos)]

-----------------------------------------------------------------------------
(* The edge's side.                                                        *)

EdgeActions == {"allow", "log", "challenge", "block"}

\* One unknown action, field, operator or variant makes the whole zone
\* unreadable.
ReadRule(rule) == [rule EXCEPT !.expr = UnmarshalMatch(MarshalMatch(rule.expr))]

ReadZone(compiled) ==
    LET read == Each(ReadRule, compiled.rules)
    IN  IF /\ \A i \in DOMAIN read : read[i].expr # Unreadable
           /\ \A rule \in Range(read) \cup Range(compiled.ddos) : rule.action \in EdgeActions
        THEN [compiled EXCEPT !.rules = read] ELSE Nil

\* From data-plane to a node's snapshot, Nil if the node does not serve it.
Published(zone) ==
    IF zone = Nil \/ ~ Publishable(zone) THEN Nil ELSE ReadZone(CompileZone(zone))

-----------------------------------------------------------------------------
\* Does a compiled rule's condition, or a policy's scope, match the request?
DdosScopeMatches(policy, req) ==
    /\ policy.pathPrefix = Nil \/ IsPrefix(policy.pathPrefix, req.uriPath)
    /\ policy.httpMethod \in {Nil, <<"any">>, req.method}

Matches(rule, req) ==
    IF "expr" \in DOMAIN rule THEN EvalMatch(req, rule.expr) ELSE DdosScopeMatches(rule, req)
=============================================================================
