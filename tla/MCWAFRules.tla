------------------------------ MODULE MCWAFRules ------------------------------
(* Small instances of WAFRules for TLC. *)
EXTENDS WAFRules, TLC

Symmetry == Permutations(Handlers)

CONSTANTS s1, s2, admin, owner
OwnerOf == s1 :> owner @@ s2 :> admin

Ids(n)    == [ids |-> {n}, ok |-> TRUE]
Nothing   == [form |-> "none", keys |-> {}, ruleText |-> NoText, ok |-> TRUE]
Address   == [form |-> "string", keys |-> {"ipAddress"}, ruleText |-> NoText, ok |-> TRUE]
TextInMap == [form |-> "map", keys |-> {"ruleText"}, ruleText |-> Ids(2), ok |-> TRUE]

\* A text of its own, a text among the parameters, a template, and a custom rule
\* without a text; between them both sites, loaded and unloaded.
SomeBodies == {
    [siteId |-> s1, type |-> "CUSTOM", ruleText |-> Ids(1), parameters |-> Nothing, status |-> "1"],
    [siteId |-> s2, type |-> "CUSTOM", ruleText |-> NoText, parameters |-> TextInMap,
     status |-> "enabled"],
    [siteId |-> s1, type |-> "IP_BLOCK", ruleText |-> NoText, parameters |-> Address, status |-> "1"],
    [siteId |-> s1, type |-> "CUSTOM", ruleText |-> NoText, parameters |-> Nothing, status |-> "1"]}
=============================================================================
