---------------------------- MODULE MCDistributor ----------------------------
(***************************************************************************)
(* Instances of the configuration path: which records exist and whose they *)
(* are, which lists are queried, which schema each replica writes.         *)
(***************************************************************************)
EXTENDS Distributor

CONSTANTS z1, z2, r1, g1, w1, w2

AllRules == [r \in Records |-> "rule"]
RuleAndList == [r \in Records |-> IF r = r1 THEN "rule" ELSE "list"]
OwnedByZ1 == [r \in Records |-> IF r = g1 THEN Global ELSE z1]

RulesOnly == <<"rule">>
ListsOnly == <<"list">>
RulesThenLists == <<"rule", "list">>

SameBuild == [w \in Workers |-> 3]

AnyOrder == [z \in Zones |-> 0]
=============================================================================
