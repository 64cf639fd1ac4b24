--------------------------- MODULE MatchCondition ---------------------------
(***************************************************************************)
(* A firewall rule's matchCondition on its whole way: the JSON the author  *)
(* saved (accepted by zones-service/matchcondition.go), the expression the *)
(* control plane compiles it to (compile.ParseMatch), the same expression  *)
(* read back by an edge node (ruleset.MatchExpr.UnmarshalJSON) and what    *)
(* that node answers for a request (evaluate.evalMatch).  Describes is the *)
(* reference: what the author's JSON says, without any of these steps.     *)
(*                                                                         *)
(* A JSON value is a pair <<kind, content>>.  A text is a sequence of      *)
(* segments; "A" is the upper case of "a", "*" a syntax error in a         *)
(* pattern.  Recursion follows the authored tree, so this module is for    *)
(* TLC's runs only.                                                        *)
(***************************************************************************)
EXTENDS Integers, SequencesExt

CONSTANT Networks   \* [Text -> set of clients]: the texts that are IPs or CIDRs

Text(s)   == <<"text", s>>
Number(s) == <<"number", s>>      \* a number or a boolean, s is its text
Items(s)  == <<"list", s>>
Object(r) == <<"object", r>>
Null      == <<"null", <<>> >>
Absent    == <<"absent", <<>> >>

\* json.Unmarshal into a string: null is no error and leaves the empty text.
IsText(v) == v[1] \in {"text", "null"}
IsItems(v) == v[1] \in {"list", "null"}
Get(c, key) == IF key \in DOMAIN c THEN c[key] ELSE Absent

Lower(t) == [i \in DOMAIN t |-> IF t[i] = "A" THEN "a" ELSE t[i]]
Has(t, s) == \E i \in 0..(Len(t) - Len(s)) : SubSeq(t, i + 1, i + Len(s)) = s
PatternCompiles(t) == ~ Has(t, <<"*">>)

-----------------------------------------------------------------------------
(* The vocabulary: canonical name and the spellings the compiler takes.    *)

FieldFrom == [
    uriPath |-> {"uri.path", "uriPath"},       uriQuery |-> {"uri.query", "uriQuery"},
    method |-> {"method", "http.method"},      header |-> {"header", "http.header"},
    sourceIp |-> {"ip", "source.ip", "sourceIp"},
    sourceIpCidr |-> {"ip.cidr", "sourceIpCidr"},
    country |-> {"country", "geo.country"},    userAgent |-> {"userAgent", "http.userAgent"}]

OpFrom == [
    eq |-> {"eq", "equals"},         notEq |-> {"ne", "neq", "notEquals"},
    contains |-> {"contains"},       notContains |-> {"notContains"},
    containsCi |-> {"containsCi", "icontains"},
    startsWith |-> {"startsWith"},   endsWith |-> {"endsWith"},
    in |-> {"in"},                   notIn |-> {"notIn"},           regex |-> {"regex"}]

Spellings(table) == UNION {table[k] : k \in DOMAIN table}
Known(table, v) == v[1] = "text" /\ v[2] \in Spellings(table)
Canonical(table, v) == CHOOSE k \in DOMAIN table : v[2] \in table[k]

-----------------------------------------------------------------------------
(* zones-service: what may be saved.                                       *)

RECURSIVE IsValidMatchCondition(_)
IsValidMatchCondition(v) ==
    LET c == v[2]
        list == {k \in {"all", "any"} \cap DOMAIN c : c[k][1] = "list"}
        op == Get(c, "op")
        IsListOp == op[2] \in {"in", "notIn"}
        value == Get(c, "value")
    IN  \/ v \in {Absent, Null}
        \/ /\ v[1] = "object"
           /\ IF list # {}
              THEN LET items == c[IF "all" \in list THEN "all" ELSE "any"][2]
                   IN  \A i \in DOMAIN items : IsValidMatchCondition(items[i])
              ELSE IF "not" \in DOMAIN c THEN IsValidMatchCondition(c["not"])
              ELSE /\ Known(FieldFrom, Get(c, "field")) /\ Known(OpFrom, op)
                   /\ IF IsListOp
                      THEN Get(c, "values")[1] = "list" /\ Get(c, "values")[2] # <<>>
                      ELSE value \notin {Absent, Null}
                   /\ (c.field[2] \in FieldFrom.header =>
                          \E k \in {"param", "header"} : Get(c, k)[1] = "text")
                   /\ (op[2] = "regex" => value[1] = "text" /\ PatternCompiles(value[2]))

-----------------------------------------------------------------------------
(* control plane: ParseMatch.  Dropped stands for its (_, false).          *)

Always == [kind |-> "always"]
Dropped == [kind |-> "dropped"]
NoText == <<"none">>          \* a nil *string

\* The strings of "values": entries of any other type are left out.
TextsOf(v) ==
    IF v[1] # "list" THEN <<>>
    ELSE LET texts == SelectSeq(v[2], IsText) IN [i \in DOMAIN texts |-> texts[i][2]]

\* "value", with numbers and booleans turned into text.
ValueOf(v) == IF v[1] \in {"text", "null", "number"} THEN v[2] ELSE NoText

ParamOf(c) ==
    LET raw == IF "param" \in DOMAIN c THEN c.param ELSE Get(c, "header")
    IN  IF IsText(raw) THEN Lower(raw[2]) ELSE NoText

ParsePredicate(c) ==
    LET field  == Canonical(FieldFrom, c.field)
        op     == Canonical(OpFrom, c.op)
        values == TextsOf(Get(c, "values"))
        value  == ValueOf(Get(c, "value"))
        param  == ParamOf(c)
    IN  IF /\ Known(FieldFrom, Get(c, "field"))
           /\ Known(OpFrom, Get(c, "op"))
           /\ IF op \in {"in", "notIn"} THEN values # <<>> ELSE value # NoText
           /\ (field = "header" => param # NoText)
           /\ (op = "regex" => PatternCompiles(value))
        THEN [kind |-> "predicate",
              p |-> [field |-> field, op |-> op, value |-> value, values |-> values, param |-> param]]
        ELSE Dropped

RECURSIVE ParseMatch(_)
ParseMatch(raw) ==
    LET c == raw[2]
        Children(key) ==
            LET parsed == [i \in DOMAIN c[key][2] |-> ParseMatch(c[key][2][i])]
            IN  IF IsItems(c[key]) /\ Dropped \notin Range(parsed)
                THEN [kind |-> key, of |-> parsed] ELSE Dropped
    IN  IF raw \in {Absent, Null} THEN Always
        ELSE IF raw[1] # "object" THEN Dropped
        ELSE IF "all" \in DOMAIN c THEN Children("all")
        ELSE IF "any" \in DOMAIN c THEN Children("any")
        ELSE IF "not" \in DOMAIN c
             THEN LET inner == ParseMatch(c["not"])
                  IN  IF inner = Dropped THEN Dropped ELSE [kind |-> "not", inner |-> inner]
        ELSE ParsePredicate(c)

-----------------------------------------------------------------------------
(* The wire: one key per variant, "always" a bare string.                  *)

RECURSIVE MarshalMatch(_)
MarshalMatch(e) ==
    CASE e.kind = "always"        -> Text("always")
      [] e.kind = "predicate"     -> Object([predicate |-> e.p])
      [] e.kind = "not"           -> Object([not |-> MarshalMatch(e.inner)])
      [] e.kind \in {"all", "any"} ->
             Object([k \in {e.kind} |-> Items([i \in DOMAIN e.of |-> MarshalMatch(e.of[i])])])

Unreadable == [kind |-> "unreadable"]
EdgeFields == {"uriPath", "uriQuery", "method", "header", "sourceIp", "sourceIpCidr",
               "country", "userAgent"}
EdgeOps == {"eq", "notEq", "contains", "notContains", "startsWith", "endsWith", "in", "notIn",
            "containsCi", "regex"}

RECURSIVE UnmarshalMatch(_)
UnmarshalMatch(w) ==
    LET key == CHOOSE k \in DOMAIN w[2] : TRUE
        raw == w[2][key]
    IN  IF w = Text("always") THEN Always
        ELSE IF w[1] # "object" \/ Cardinality(DOMAIN w[2]) # 1 THEN Unreadable
        ELSE CASE key = "predicate" ->
                    IF raw.field \in EdgeFields /\ raw.op \in EdgeOps
                    THEN [kind |-> "predicate", p |-> raw] ELSE Unreadable
               [] key = "not" ->
                    LET inner == UnmarshalMatch(raw)
                    IN  IF inner = Unreadable THEN Unreadable ELSE [kind |-> "not", inner |-> inner]
               [] key \in {"all", "any"} ->
                    LET of == [i \in DOMAIN raw[2] |-> UnmarshalMatch(raw[2][i])]
                    IN  IF Unreadable \in Range(of) THEN Unreadable ELSE [kind |-> key, of |-> of]
               [] OTHER -> Unreadable

-----------------------------------------------------------------------------
(* edge: the predicates, on a request [ip, headers, and a text per field]. *)

FieldValue(req, p) ==
    CASE p.field = "header" -> IF p.param \in DOMAIN req.headers THEN req.headers[p.param] ELSE <<>>
      [] p.field \in {"sourceIp", "sourceIpCidr"} -> <<req.ip>>
      [] OTHER -> req[p.field]

\* A malformed address or CIDR contains no one.
IpInCIDR(ip, t) == t \in DOMAIN Networks /\ ip \in Networks[t]

EvalAddress(req, p) ==
    LET inside == IF p.op \in {"in", "notIn"}
                  THEN \E i \in DOMAIN p.values : IpInCIDR(req.ip, p.values[i])
                  ELSE p.value # NoText /\ IpInCIDR(req.ip, p.value)
    IN  (p.op \in {"notEq", "notIn", "notContains"}) # inside

EvalText(actual, p) ==
    LET v == p.value
        set == v # NoText
    IN  CASE p.op = "eq"          -> set /\ v = actual
          [] p.op = "notEq"       -> ~ set \/ v # actual
          [] p.op = "contains"    -> set /\ Has(actual, v)
          [] p.op = "notContains" -> ~ set \/ ~ Has(actual, v)
          [] p.op = "startsWith"  -> set /\ IsPrefix(v, actual)
          [] p.op = "endsWith"    -> set /\ IsSuffix(v, actual)
          [] p.op = "in"          -> actual \in Range(p.values)
          [] p.op = "notIn"       -> actual \notin Range(p.values)
          [] p.op = "containsCi"  -> set /\ Has(Lower(actual), Lower(v))
          [] p.op = "regex"       -> set /\ PatternCompiles(v) /\ Has(actual, v)

EvalPredicate(req, p) ==
    IF p.field = "sourceIpCidr" THEN EvalAddress(req, p) ELSE EvalText(FieldValue(req, p), p)

RECURSIVE EvalMatch(_, _)
EvalMatch(req, e) ==
    CASE e.kind = "always"    -> TRUE
      [] e.kind = "predicate" -> EvalPredicate(req, e.p)
      [] e.kind = "all"       -> \A i \in DOMAIN e.of : EvalMatch(req, e.of[i])
      [] e.kind = "any"       -> \E i \in DOMAIN e.of : EvalMatch(req, e.of[i])
      [] e.kind = "not"       -> ~ EvalMatch(req, e.inner)

-----------------------------------------------------------------------------
(* The reference: the author's JSON read as a statement about a request.   *)

TestedText(req, c) ==
    LET f == Canonical(FieldFrom, c.field)
        names == {Lower(c[k][2]) : k \in {"param", "header"} \cap DOMAIN c}
    IN  IF f = "header"
        THEN LET n == CHOOSE n \in names : TRUE
             IN  IF n \in DOMAIN req.headers THEN req.headers[n] ELSE <<>>
        ELSE IF f \in {"sourceIp", "sourceIpCidr"} THEN <<req.ip>> ELSE req[f]

\* Does the tested text stand in the (positive) relation op to the operand t?
Related(req, c, op, t) ==
    LET actual == TestedText(req, c)
    IN  IF c.field[2] \in FieldFrom.sourceIpCidr THEN IpInCIDR(req.ip, t)
        ELSE CASE op = "eq" -> t = actual
               [] op = "startsWith" -> IsPrefix(t, actual)
               [] op = "endsWith" -> IsSuffix(t, actual)
               [] op = "containsCi" -> Has(Lower(actual), Lower(t))
               [] OTHER -> Has(actual, t)

Positive(op) == CASE op \in {"notEq", "in", "notIn"} -> "eq" [] op = "notContains" -> "contains" [] OTHER -> op

RECURSIVE Describes(_, _)
Describes(raw, req) ==
    LET c == raw[2]
        op == Canonical(OpFrom, c.op)
        operands == IF op \in {"in", "notIn"} THEN {v[2] : v \in Range(c.values[2])} ELSE {c.value[2]}
    IN  IF raw \in {Absent, Null} THEN TRUE
        ELSE IF "all" \in DOMAIN c THEN \A v \in Range(c.all[2]) : Describes(v, req)
        ELSE IF "any" \in DOMAIN c THEN \E v \in Range(c.any[2]) : Describes(v, req)
        ELSE IF "not" \in DOMAIN c THEN ~ Describes(c["not"], req)
        ELSE (\E t \in operands : Related(req, c, Positive(op), t))
                # (op \in {"notEq", "notContains", "notIn"})
=============================================================================
