------------------------------ MODULE WAFRules ------------------------------
(***************************************************************************)
(* The rule API: the handlers of controllers/wafrule.go that change the    *)
(* table waf_rules, the statements of models/wafrule.go they run, and the  *)
(* texts services/rule_generator.go makes for them.                        *)
(*                                                                         *)
(* A handler is a sequence of database statements, and each statement is a *)
(* step of its own: another handler may run between any two of them.  The  *)
(* change made, the handler calls ReloadWAF of the controller's manager,   *)
(* here in two steps under wm.mutex (WAFManager has all of them).          *)
(*                                                                         *)
(* Abstractions.  A rule text is the set of SecRule ids in it and whether  *)
(* Coraza accepts it by itself.  A request is the record its JSON body     *)
(* parses to, without an id: the pages send none when they create a rule,  *)
(* and an update takes the id of the URL.  A request refused before it     *)
(* changes anything is a step back to "idle", whatever it answers.  Names, *)
(* priorities and times are left out: no guard reads them.                 *)
(***************************************************************************)
EXTENDS Integers, FiniteSets

CONSTANTS
    Sites,        \* the site rows there are at first
    Users,        \* who is signed in
    Admins,       \* those with the role admin
    Owner,        \* UserID of each site
    Handlers,     \* goroutines of the API's HTTP server
    Bodies,       \* the request bodies
    Faults,       \* the operations that may fail
    MaxRule,      \* bound on the ids of rules
    MaxRequests,  \* bound on the requests
    NoThread      \* "unlocked"

RuleIds == 1..MaxRule
Ops     == {"create", "update", "delete", "toggle"}

\* What ValidateRuleParameters asks of the parameters of each template.
Required == [IP_BLOCK       |-> {"ipAddress"},
             RATE_LIMIT     |-> {"requestLimit", "timeWindow"},
             SQLI           |-> {"target", "pattern"},
             XSS            |-> {"target", "pattern"},
             PATH_TRAVERSAL |-> {"target", "pattern"}]

Texts  == [ids : SUBSET Nat, ok : BOOLEAN]
NoText == [ids |-> {}, ok |-> TRUE]

\* How "parameters" parses: absent, an object, an object quoted in a string, or
\* anything else; "ok" says that the values make a SecRule Coraza accepts.
Parameters == [form : {"none", "map", "string", "other"}, keys : SUBSET STRING,
               ruleText : Texts, ok : BOOLEAN]
Body == [siteId : Sites \cup {0}, type : STRING, ruleText : Texts,
         parameters : Parameters, status : STRING]

ASSUME DataAssumption ==
    /\ 0 \notin Sites
    /\ Users # {}
    /\ Owner \in [Sites -> Users]
    /\ Bodies \subseteq Body
    /\ Faults \subseteq {"query", "write", "build"}
ASSUME BoundsAssumption ==
    /\ MaxRule \in Nat /\ MaxRequests \in Nat
    /\ NoThread \notin Handlers

VARIABLES
    sites,         \* the ids with a row in table sites
    waf_rules,     \* the row of each id
    nextId,        \* AUTO_INCREMENT of waf_rules
    wafInstances,  \* of the controller's manager: the rules in each site's instance
    lastLoad,      \* history: how the last reload of each site ended ...
    leftOut,       \* ... and the sites with a change no reload has followed yet
    wmMutex,       \* WAFManager.mutex: its writer
    pc,            \* per handler: its next statement
    user, id,      \* per handler: userID, ruleID
    op, rule,      \* per handler: which handler it runs, the rule it holds
    got,           \* per handler: the rules its ReloadWAF selected
    requests       \* how many requests came

table  == <<sites, waf_rules, nextId>>
loaded == <<wafInstances, lastLoad, leftOut, wmMutex>>
caller == <<user, id, op>>
vars   == <<table, loaded, pc, caller, rule, got, requests>>

NoRule == [site |-> 0, type |-> "none", text |-> NoText, status |-> "none", createdBy |-> NoThread]

Present(i) == waf_rules[i] # NoRule
Goto(h, step) == pc' = [pc EXCEPT ![h] = step]
Hold(h, r) == rule' = [rule EXCEPT ![h] = r]

\* status = 1 and site_id in (0, s): the rows GenerateCustomRulesFile selects.
RuleStatusActive == "1"
Selected(s) ==
    {[id |-> i, text |-> waf_rules[i].text] :
        i \in {j \in RuleIds : /\ waf_rules[j].status = RuleStatusActive
                               /\ waf_rules[j].site \in {0, s}}}

\* Coraza refuses a directive it cannot parse, and a SecRule id used twice.
Builds(rules) ==
    /\ \A r \in rules : r.text.ok
    /\ \A r, q \in rules : r # q => r.text.ids \cap q.text.ids = {}

Init ==
    /\ sites = Sites
    /\ waf_rules = [i \in RuleIds |-> NoRule]
    /\ nextId = 1
    /\ wafInstances = [s \in Sites |-> {}]
    /\ lastLoad = [s \in Sites |-> "never"]
    /\ leftOut = {}
    /\ wmMutex = NoThread
    /\ pc = [h \in Handlers |-> "idle"]
    /\ user = [h \in Handlers |-> CHOOSE u \in Users : TRUE]
    /\ id = [h \in Handlers |-> 0]
    /\ op = [h \in Handlers |-> "create"]
    /\ rule = [h \in Handlers |-> NoRule]
    /\ got = [h \in Handlers |-> {}]
    /\ requests = 0

-----------------------------------------------------------------------------
(* Checks and texts.                                                       *)

CanUserManageSite(u, s) == u \in Admins \/ Owner[s] = u

\* ValidateRuleParameters: does it accept the body?
ValidateRuleParameters(b) ==
    IF b.type = "CUSTOM"
    THEN b.ruleText # NoText \/ (b.parameters.form = "map" /\ b.parameters.ruleText # NoText)
    ELSE /\ b.parameters.form \in {"map", "string"}
         /\ b.type \in DOMAIN Required
         /\ Required[b.type] \subseteq b.parameters.keys

\* Mutation: the text found in the parameters is not copied.
ValidatedTextNotCopied(b) == b.ruleText

\* ... and what it leaves in RuleText: a custom text found in the parameters.
ValidatedText(b) ==
    IF b.type = "CUSTOM" /\ b.ruleText = NoText THEN b.parameters.ruleText ELSE b.ruleText

\* GenerateRule: the template of the type, filled with rule.ID + 100000 (two SecRules,
\* numbered by another digit, for a rate limit).  CreateRule calls it before the
\* insert, when rule.ID is still 0.
GenerateRule(b) == LET ruleId == 0 + 100000 IN
    [ids |-> IF b.type = "RATE_LIMIT" THEN {ruleId * 10 + 1, ruleId * 10 + 2} ELSE {ruleId},
     ok  |-> b.parameters.ok]

-----------------------------------------------------------------------------
(* The beginning of the handlers: which row, which site, whose.            *)

Arrives(h) ==
    /\ pc[h] = "idle"
    /\ requests < MaxRequests
    /\ requests' = requests + 1

\* CreateRule as far as the insert: the site of the body, validation, the text.
CreateRule(h, u, b) ==
    /\ Arrives(h)
    /\ b.siteId \in sites
    /\ CanUserManageSite(u, b.siteId)
    /\ ValidateRuleParameters(b)
    /\ user' = [user EXCEPT ![h] = u]
    /\ id' = [id EXCEPT ![h] = 0]
    /\ op' = [op EXCEPT ![h] = "create"]
    /\ Hold(h, [site |-> b.siteId, type |-> b.type, status |-> b.status, createdBy |-> u,
                text |-> IF b.type = "CUSTOM" THEN ValidatedText(b) ELSE GenerateRule(b)])
    /\ Goto(h, "insert")
    /\ UNCHANGED <<table, loaded, got>>

\* UpdateRule, DeleteRule, ToggleRuleStatus: GetWAFRuleByID.
FindRule(h, u, i, o) ==
    /\ Arrives(h)
    /\ o \in Ops \ {"create"}
    /\ Present(i)
    /\ user' = [user EXCEPT ![h] = u]
    /\ id' = [id EXCEPT ![h] = i]
    /\ op' = [op EXCEPT ![h] = o]
    /\ Hold(h, waf_rules[i])
    /\ Goto(h, "site")
    /\ UNCHANGED <<table, loaded, got>>

\* GetSiteByID of the rule's site, CanUserManageSite.
SiteAllows(h) == rule[h].site \in sites /\ CanUserManageSite(user[h], rule[h].site)

\* Mutation: the site and the creator come from the body, too.
MergedAsSent(h, b) ==
    [site |-> b.siteId, type |-> b.type, status |-> b.status, createdBy |-> user[h],
     text |-> ValidatedText(b)]

\* UpdateRule keeps id, site and creator; text and status are the body's.
Merged(h, b) ==
    [site |-> rule[h].site, type |-> b.type, status |-> b.status,
     createdBy |-> rule[h].createdBy, text |-> ValidatedText(b)]

CheckSiteThenChange(h) ==
    /\ pc[h] = "site" /\ SiteAllows(h)
    /\ op[h] \in {"delete", "toggle"}
    /\ Goto(h, IF op[h] = "delete" THEN "delete" ELSE "status")
    /\ UNCHANGED <<table, loaded, caller, rule, got, requests>>

CheckSiteThenUpdate(h, b) ==
    /\ pc[h] = "site" /\ SiteAllows(h)
    /\ op[h] = "update"
    /\ ValidateRuleParameters(b)
    /\ Hold(h, Merged(h, b))
    /\ Goto(h, "save")
    /\ UNCHANGED <<table, loaded, caller, got, requests>>

\* The handler answers an error: the site's row is gone, the user may not, the body
\* is refused, a query failed.
Refuse(h) ==
    /\ pc[h] = "site"
    /\ \/ ~SiteAllows(h)
       \/ op[h] = "update" /\ \E b \in Bodies : ~ValidateRuleParameters(b)
       \/ "query" \in Faults
    /\ Goto(h, "idle")
    /\ UNCHANGED <<table, loaded, caller, rule, got, requests>>

-----------------------------------------------------------------------------
(* The statements that change the table.                                   *)

\* InsertWAFRule: the row gets the next id.
InsertWAFRule(h) ==
    /\ pc[h] = "insert"
    /\ nextId \in RuleIds
    /\ waf_rules' = [waf_rules EXCEPT ![nextId] = rule[h]]
    /\ nextId' = nextId + 1
    /\ id' = [id EXCEPT ![h] = nextId]
    /\ Goto(h, "reload")
    /\ UNCHANGED <<sites, loaded, user, op, rule, got, requests>>

\* Mutation: an update that finds no row inserts it.
UpdateWAFRuleInserts(h) ==
    /\ pc[h] = "save"
    /\ waf_rules' = [waf_rules EXCEPT ![id[h]] = rule[h]]
    /\ Goto(h, "reload")
    /\ UNCHANGED <<sites, nextId, loaded, caller, rule, got, requests>>

\* UpdateWAFRule: every column; no row is no error.
UpdateWAFRule(h) ==
    /\ pc[h] = "save"
    /\ waf_rules' = IF Present(id[h]) THEN [waf_rules EXCEPT ![id[h]] = rule[h]] ELSE waf_rules
    /\ Goto(h, "reload")
    /\ UNCHANGED <<sites, nextId, loaded, caller, rule, got, requests>>

\* DeleteWAFRule: no row is no error.
DeleteWAFRule(h) ==
    /\ pc[h] = "delete"
    /\ waf_rules' = [waf_rules EXCEPT ![id[h]] = NoRule]
    /\ Goto(h, "reload")
    /\ UNCHANGED <<sites, nextId, loaded, caller, rule, got, requests>>

\* ToggleWAFRuleStatus reads the row again ...
ReadStatus(h) ==
    /\ pc[h] = "status"
    /\ IF Present(id[h]) THEN Hold(h, waf_rules[id[h]]) /\ Goto(h, "toggle")
       ELSE Goto(h, "idle") /\ UNCHANGED rule
    /\ UNCHANGED <<table, loaded, caller, got, requests>>

\* Mutation: the integer constants of the model instead of the status names.
ToggledByConstants(status) == IF status = "1" THEN "0" ELSE "1"

Toggled(status) == IF status = "enabled" THEN "disabled" ELSE "enabled"

\* Mutation: o.Update without its column list.
SetStatusAllColumns(h) ==
    /\ pc[h] = "toggle"
    /\ waf_rules' = IF Present(id[h])
                    THEN [waf_rules EXCEPT ![id[h]] =
                            [rule[h] EXCEPT !.status = Toggled(rule[h].status)]]
                    ELSE waf_rules
    /\ Goto(h, "reread")
    /\ UNCHANGED <<sites, nextId, loaded, caller, rule, got, requests>>

\* ... and updates the column Status, from what it read.
SetStatus(h) ==
    /\ pc[h] = "toggle"
    /\ waf_rules' = IF Present(id[h])
                    THEN [waf_rules EXCEPT ![id[h]].status = Toggled(rule[h].status)]
                    ELSE waf_rules
    /\ Goto(h, "reread")
    /\ UNCHANGED <<sites, nextId, loaded, caller, rule, got, requests>>

\* "Get updated rule": an error answers 500 without a reload.
GetUpdatedRule(h) ==
    /\ pc[h] = "reread"
    /\ IF Present(id[h]) THEN Hold(h, waf_rules[id[h]]) /\ Goto(h, "reload")
       ELSE Goto(h, "idle") /\ UNCHANGED rule
    /\ UNCHANGED <<table, loaded, caller, got, requests>>

GetUpdatedRuleFails(h) ==
    /\ pc[h] = "reread"
    /\ "query" \in Faults
    /\ leftOut' = leftOut \cup {rule[h].site}
    /\ Goto(h, "idle")
    /\ UNCHANGED <<table, wafInstances, lastLoad, wmMutex, caller, rule, got, requests>>

\* A statement fails: 500, nothing changed.
StatementFails(h) ==
    /\ \/ pc[h] \in {"insert", "save", "delete", "toggle"} /\ "write" \in Faults
       \/ pc[h] = "status" /\ "query" \in Faults
    /\ Goto(h, "idle")
    /\ UNCHANGED <<table, loaded, caller, rule, got, requests>>

-----------------------------------------------------------------------------
(* ReloadWAF of the rule's site, on the controller's manager.              *)

\* Mutation: the reload does not wait for another one.
QueryRulesUnlocked(h) ==
    /\ pc[h] = "reload"
    /\ wmMutex' = h
    /\ got' = [got EXCEPT ![h] = Selected(rule[h].site)]
    /\ leftOut' = leftOut \ {rule[h].site}
    /\ Goto(h, "build")
    /\ UNCHANGED <<table, wafInstances, lastLoad, caller, rule, requests>>

\* ReloadWAF locks wm.mutex; GenerateCustomRulesFile selects the rules.
QueryRules(h) ==
    /\ pc[h] = "reload"
    /\ wmMutex = NoThread
    /\ wmMutex' = h
    /\ got' = [got EXCEPT ![h] = Selected(rule[h].site)]
    /\ leftOut' = leftOut \ {rule[h].site}
    /\ Goto(h, "build")
    /\ UNCHANGED <<table, wafInstances, lastLoad, caller, rule, requests>>

\* The query or the write of the file fails: "Continue without custom rules".
QueryRulesFails(h) ==
    /\ pc[h] = "reload"
    /\ wmMutex = NoThread
    /\ "query" \in Faults
    /\ wmMutex' = h
    /\ Goto(h, "bare")
    /\ UNCHANGED <<table, wafInstances, lastLoad, leftOut, caller, rule, got, requests>>

ReloadEnds(h, instance, outcome) ==
    /\ wafInstances' = [wafInstances EXCEPT ![rule[h].site] = instance]
    /\ lastLoad' = [lastLoad EXCEPT ![rule[h].site] = outcome]
    /\ wmMutex' = NoThread
    /\ got' = [got EXCEPT ![h] = {}]
    /\ Goto(h, "idle")
    /\ UNCHANGED <<table, leftOut, caller, rule, requests>>

\* NewWAF builds the instance, ReloadWAF stores it.
StoreReloaded(h) ==
    \/ pc[h] = "build" /\ Builds(got[h]) /\ ReloadEnds(h, got[h], "loaded")
    \/ pc[h] = "bare" /\ ReloadEnds(h, {}, "bare")

\* NewWAF fails and the instance stays.  Create, update and delete log the error and
\* answer success, toggle answers 500.
BuildFails(h) ==
    /\ pc[h] \in {"build", "bare"}
    /\ ~Builds(got[h]) \/ "build" \in Faults
    /\ ReloadEnds(h, wafInstances[rule[h].site], "failed")

-----------------------------------------------------------------------------
(* SiteController.DeleteSite deletes a site's row and leaves its rules.    *)

DeleteSite(s) ==
    /\ s \in sites
    /\ sites' = sites \ {s}
    /\ UNCHANGED <<waf_rules, nextId, loaded, pc, caller, rule, got, requests>>

ReloadWAF(h) ==
    QueryRules(h) \/ QueryRulesFails(h) \/ StoreReloaded(h) \/ BuildFails(h)

Change(h) ==
    \/ InsertWAFRule(h) \/ UpdateWAFRule(h) \/ DeleteWAFRule(h)
    \/ ReadStatus(h) \/ SetStatus(h)
    \/ GetUpdatedRule(h) \/ GetUpdatedRuleFails(h) \/ StatementFails(h)

Next ==
    \/ \E h \in Handlers :
          \/ \E u \in Users : \/ \E b \in Bodies : CreateRule(h, u, b)
                              \/ \E i \in RuleIds, o \in Ops : FindRule(h, u, i, o)
          \/ CheckSiteThenChange(h) \/ Refuse(h)
          \/ \E b \in Bodies : CheckSiteThenUpdate(h, b)
          \/ Change(h)
          \/ ReloadWAF(h)
    \/ \E s \in Sites : DeleteSite(s)

Spec == Init /\ [][Next]_vars

-----------------------------------------------------------------------------
(* Properties                                                              *)

\* A status is one that a body had, or a toggled one.
Statuses == {b.status : b \in Bodies} \cup {"enabled", "disabled"}
Row == [site : Sites, type : STRING, text : Texts, status : Statuses, createdBy : Users]
Stored == Row \cup {NoRule}
Steps == {"idle", "insert", "site", "save", "delete", "status", "toggle", "reread",
          "reload", "build", "bare"}
Writing == {"insert", "save", "delete", "toggle"}

\* Every variable has its type.
TypeOK ==
    /\ sites \subseteq Sites
    /\ waf_rules \in [RuleIds -> Stored]
    /\ nextId \in 1..MaxRule + 1
    /\ wafInstances \in [Sites -> SUBSET [id : RuleIds, text : Texts]]
    /\ lastLoad \in [Sites -> {"never", "loaded", "bare", "failed"}]
    /\ leftOut \subseteq Sites
    /\ wmMutex \in Handlers \cup {NoThread}
    /\ pc \in [Handlers -> Steps]
    /\ user \in [Handlers -> Users]
    /\ id \in [Handlers -> RuleIds \cup {0}]
    /\ op \in [Handlers -> Ops]
    /\ rule \in [Handlers -> Stored]
    /\ got \in [Handlers -> SUBSET [id : RuleIds, text : Texts]]
    /\ requests \in 0..MaxRequests

\* A row of type CUSTOM has a text, by whichever handlers it came to be what it is.
CustomRulesHaveText ==
    \A i \in RuleIds : Present(i) /\ waf_rules[i].type = "CUSTOM" => waf_rules[i].text # NoText

\* The reload of each change sees the change: once every handler that changed a rule
\* of a site is done, and the last reload succeeded, the instance of the controller's
\* manager has the rules the table selects.  (Only a toggle that cannot read the rule
\* back leaves its change out.)
Unloaded(h, s) == pc[h] \in {"reread", "reload", "build", "bare"} /\ rule[h].site = s
InstanceFollowsTable ==
    \A s \in Sites :
        lastLoad[s] = "loaded" /\ s \notin leftOut /\ (\A h \in Handlers : ~Unloaded(h, s))
            => wafInstances[s] = Selected(s)

\* A deleted rule is not brought back by an update or a toggle that found it before:
\* only a CreateRule makes a row.
DeletedStayDeleted ==
    [][\A i \in RuleIds : ~Present(i) /\ Present(i)' =>
        \E h \in Handlers : pc[h] = "insert" /\ pc'[h] = "reload" /\ waf_rules'[i] = rule[h]]_vars

\* A row is made, changed or deleted only by a request whose user manages the site it
\* is of, before the change and after it: an update does not move a rule to a site of
\* somebody else.
ChangesPermitted ==
    [][\A i \in RuleIds : waf_rules'[i] # waf_rules[i] =>
        \E h \in Handlers :
            /\ pc[h] \in Writing /\ pc'[h] # pc[h]
            /\ \A r \in {waf_rules[i], waf_rules'[i]} \ {NoRule} :
                   CanUserManageSite(user[h], r.site)]_vars

\* A toggle takes back nothing of an update it raced with: a row's text changes only
\* as an update saves it or as the row comes or goes.
TogglesKeepTexts ==
    [][\A i \in RuleIds : Present(i) /\ Present(i)' /\ waf_rules'[i].text # waf_rules[i].text =>
        \E h \in Handlers : pc[h] = "save" /\ pc'[h] = "reload" /\ id[h] = i]_vars
=============================================================================
