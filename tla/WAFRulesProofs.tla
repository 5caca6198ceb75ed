--------------------------- MODULE WAFRulesProofs ---------------------------
(***************************************************************************)
(* Proofs about WAFRules, for every set of handlers, sites, users, bodies  *)
(* and faults.                                                             *)
(*                                                                         *)
(* The argument.  What a handler holds between two of its statements stays *)
(* true of the row it works on: ids are not used twice, so the row of that *)
(* id is the one it found (or gone), and nobody moves a row to another     *)
(* site or creator (Held).  A change of the table leaves its handler with  *)
(* a reload ahead of it, and what a reload selected is what the table      *)
(* selects unless another such handler is behind it (Reloads).             *)
(***************************************************************************)
EXTENDS WAFRules, TLAPS

Updating == Writing \cup {"status"}

\* What a handler at work holds, against the table.
HeldBy(h) ==
    /\ rule[h] \in Row
    /\ pc[h] # "insert" =>
        /\ id[h] \in RuleIds /\ id[h] < nextId
        /\ Present(id[h]) => /\ waf_rules[id[h]].site = rule[h].site
                             /\ waf_rules[id[h]].createdBy = rule[h].createdBy
    /\ pc[h] \in Updating => CanUserManageSite(user[h], rule[h].site)
    /\ pc[h] \in {"insert", "save"} /\ rule[h].type = "CUSTOM" => rule[h].text # NoText
Held ==
    /\ \A h \in Handlers : pc[h] # "idle" => HeldBy(h)
    /\ \A i \in RuleIds : Present(i) => i < nextId

\* A reload of site s is ahead of h.
Pending(h, s) ==
    /\ rule[h].site = s
    /\ pc[h] = "reload" \/ (pc[h] = "reread" /\ Present(id[h]))
PendingReload(s) == \E h \in Handlers : Pending(h, s)
Reloading(h) == pc[h] \in {"build", "bare"}

Reloads ==
    /\ \A h \in Handlers : Reloading(h) => wmMutex = h
    /\ \A h \in Handlers : pc[h] = "build" =>
        \/ got[h] = Selected(rule[h].site)
        \/ rule[h].site \in leftOut
        \/ PendingReload(rule[h].site)
    /\ \A s \in Sites : lastLoad[s] = "loaded" =>
        \/ wafInstances[s] = Selected(s)
        \/ s \in leftOut
        \/ PendingReload(s)
        \/ \E h \in Handlers : Reloading(h) /\ rule[h].site = s

IInv == TypeOK /\ Held /\ CustomRulesHaveText /\ Reloads

-----------------------------------------------------------------------------
(* Facts about the data.                                                   *)

LEMMA NoRuleIsNoRow == NoRule \notin Row /\ NoRule.status = "none" /\ NoRule.site = 0
  BY DataAssumption DEF NoRule, Row

LEMMA BodyFacts ==
  ASSUME NEW b \in Bodies
  PROVE  /\ b.siteId \in Sites \cup {0} /\ b.type \in STRING /\ b.ruleText \in Texts
         /\ b.status \in Statuses
         /\ GenerateRule(b) \in Texts
         /\ ValidatedText(b) \in Texts
         /\ ValidateRuleParameters(b) /\ b.type = "CUSTOM" => ValidatedText(b) # NoText
<1>1. b \in Body
  BY DataAssumption
<1>2. b.siteId \in Sites \cup {0} /\ b.type \in STRING /\ b.ruleText \in Texts
  BY <1>1 DEF Body
<1>3. b.parameters \in Parameters
  BY <1>1 DEF Body
<1>4. b.parameters.ruleText \in Texts /\ b.parameters.ok \in BOOLEAN
  BY <1>3 DEF Parameters
<1>5. GenerateRule(b) \in Texts
  BY <1>4 DEF GenerateRule, Texts
<1>6. b.status \in Statuses
  BY DEF Statuses
<1>7. ValidatedText(b) \in Texts
  BY <1>2, <1>4 DEF ValidatedText
<1>8. ValidateRuleParameters(b) /\ b.type = "CUSTOM" => ValidatedText(b) # NoText
  BY DEF ValidateRuleParameters, ValidatedText
<1> QED
  BY <1>2, <1>5, <1>6, <1>7, <1>8

\* A change of rows of one site changes what is selected for no other.
LEMMA SelectedElsewhere ==
  ASSUME TypeOK, NEW i \in RuleIds, NEW r \in Stored, NEW s \in Sites, NEW t \in Sites, s # t,
         waf_rules' = [waf_rules EXCEPT ![i] = r],
         Present(i) => waf_rules[i].site = t,
         r # NoRule => r.site = t
  PROVE  Selected(s)' = Selected(s)
<1> DEFINE On(j) == waf_rules[j].status = RuleStatusActive /\ waf_rules[j].site \in {0, s}
<1>1. 0 \notin Sites /\ s # 0 /\ t # 0
  BY DataAssumption
<1>2. ~On(i)
  BY <1>1, NoRuleIsNoRow DEF Present, RuleStatusActive
<1>3. ~On(i)'
  BY <1>1, NoRuleIsNoRow DEF TypeOK, RuleStatusActive
<1>4. \A j \in RuleIds : j # i => waf_rules'[j] = waf_rules[j]
  BY DEF TypeOK
<1>5. {j \in RuleIds : On(j)'} = {j \in RuleIds : On(j)}
  BY <1>2, <1>3, <1>4
<1>6. \A j \in RuleIds : On(j) => waf_rules'[j].text = waf_rules[j].text
  BY <1>2, <1>4
<1> QED
  BY <1>5, <1>6 DEF Selected

-----------------------------------------------------------------------------
(* TypeOK, for any step.                                                   *)

LEMMA InitIInv == Init => IInv
<1> SUFFICES ASSUME Init PROVE IInv
  OBVIOUS
<1> USE DataAssumption, BoundsAssumption
<1>1. TypeOK
  <2>1. \A i \in RuleIds : ~Present(i)
    BY DEF Init, Present
  <2>2. (CHOOSE u \in Users : TRUE) \in Users
    OBVIOUS
  <2>3. user \in [Handlers -> Users]
    BY <2>2 DEF Init
  <2> QED
    BY <2>1, <2>3 DEF Init, TypeOK, Stored, Steps, Ops
<1>2. Held
  BY DEF Init, Held, Present
<1>3. CustomRulesHaveText
  BY DEF Init, CustomRulesHaveText, Present
<1>4. Reloads
  BY DEF Init, Reloads, Reloading
<1> QED
  BY <1>1, <1>2, <1>3, <1>4 DEF IInv

\* Every action of a handler h leaves the locals of the others alone.
Same(g) == pc'[g] = pc[g] /\ rule'[g] = rule[g] /\ id'[g] = id[g] /\ user'[g] = user[g]

\* What the steps of h do not do to the table.
OriginKept ==
    /\ nextId' >= nextId
    /\ \A i \in RuleIds : Present(i)' =>
        IF Present(i)
        THEN /\ waf_rules'[i].site = waf_rules[i].site
             /\ waf_rules'[i].createdBy = waf_rules[i].createdBy
        ELSE i = nextId /\ nextId' > nextId

LEMMA CreateRuleStep ==
  ASSUME TypeOK, Held, NEW h \in Handlers, NEW u \in Users, NEW b \in Bodies, CreateRule(h, u, b)
  PROVE  /\ TypeOK'
         /\ \A g \in Handlers \ {h} : Same(g)
         /\ HeldBy(h)'
         /\ UNCHANGED <<table, loaded, got>>
         /\ pc[h] = "idle" /\ pc'[h] = "insert"
<1> DEFINE r == rule'[h]
<1>1. r = [site |-> b.siteId, type |-> b.type, status |-> b.status, createdBy |-> u,
           text |-> IF b.type = "CUSTOM" THEN ValidatedText(b) ELSE GenerateRule(b)]
  BY DEF CreateRule, Hold, TypeOK
<1>2. b.siteId \in Sites
  BY DEF CreateRule, TypeOK
<1>3. r \in Row
  BY <1>1, <1>2, BodyFacts DEF Row
<1>4. /\ pc' = [pc EXCEPT ![h] = "insert"] /\ user' = [user EXCEPT ![h] = u]
      /\ id' = [id EXCEPT ![h] = 0] /\ op' = [op EXCEPT ![h] = "create"]
      /\ rule' = [rule EXCEPT ![h] = r] /\ requests' = requests + 1 /\ requests < MaxRequests
      /\ pc[h] = "idle" /\ UNCHANGED <<table, loaded, got>>
  BY DEF CreateRule, Arrives, Goto, Hold, TypeOK
<1>5. TypeOK'
  BY <1>3, <1>4, BoundsAssumption DEF TypeOK, table, loaded, Present, Stored, Steps, Ops
<1>6. \A g \in Handlers \ {h} : Same(g)
  BY <1>4 DEF Same, TypeOK
<1>7. HeldBy(h)'
  <2>1. pc'[h] = "insert" /\ user'[h] = u
    BY <1>4 DEF TypeOK
  <2>2. CanUserManageSite(u, b.siteId)
    BY DEF CreateRule
  <2>3. r.site = b.siteId
    BY <1>1, BodyFacts
  <2>4. r.type = "CUSTOM" => r.text # NoText
    BY <1>1, BodyFacts DEF CreateRule
  <2> QED
    BY <1>3, <2>1, <2>2, <2>3, <2>4 DEF HeldBy, CanUserManageSite, Updating, Writing
<1> QED
  BY <1>4, <1>5, <1>6, <1>7 DEF TypeOK

LEMMA FindRuleStep ==
  ASSUME TypeOK, Held, NEW h \in Handlers, NEW u \in Users, NEW i \in RuleIds, NEW o \in Ops,
         FindRule(h, u, i, o)
  PROVE  /\ TypeOK'
         /\ \A g \in Handlers \ {h} : Same(g)
         /\ HeldBy(h)'
         /\ UNCHANGED <<table, loaded, got>>
         /\ pc[h] = "idle" /\ pc'[h] = "site"
<1>1. /\ pc' = [pc EXCEPT ![h] = "site"] /\ user' = [user EXCEPT ![h] = u]
      /\ id' = [id EXCEPT ![h] = i] /\ op' = [op EXCEPT ![h] = o]
      /\ rule' = [rule EXCEPT ![h] = waf_rules[i]] /\ requests' = requests + 1 /\ requests < MaxRequests
      /\ pc[h] = "idle" /\ UNCHANGED <<table, loaded, got>> /\ Present(i)
  BY DEF FindRule, Arrives, Goto, Hold
<1>2. waf_rules[i] \in Row /\ i < nextId
  BY <1>1 DEF TypeOK, Stored, Present, Held
<1>3. TypeOK'
  BY <1>1, <1>2, BoundsAssumption DEF TypeOK, table, loaded, Present, Stored, Steps
<1>4. \A g \in Handlers \ {h} : Same(g)
  BY <1>1 DEF Same, TypeOK
<1>5. HeldBy(h)'
  BY <1>1, <1>2 DEF HeldBy, TypeOK, table, Present, Updating, Writing
<1> QED
  BY <1>1, <1>3, <1>4, <1>5 DEF TypeOK

-----------------------------------------------------------------------------
(* The steps after that.                                                   *)

\* A step of h that changes its pc and the rule it holds, and nothing else it holds.
LEMMA CheckSiteStep ==
  ASSUME TypeOK, Held, NEW h \in Handlers,
         \/ CheckSiteThenChange(h)
         \/ Refuse(h)
         \/ \E b \in Bodies : CheckSiteThenUpdate(h, b)
  PROVE  /\ TypeOK'
         /\ \A g \in Handlers \ {h} : Same(g)
         /\ pc'[h] = "idle" \/ HeldBy(h)'
         /\ UNCHANGED <<table, loaded, got>>
         /\ pc[h] = "site" /\ pc'[h] \in {"idle", "delete", "status", "save"}
<1>1. pc[h] = "site" /\ HeldBy(h)
  BY DEF CheckSiteThenChange, Refuse, CheckSiteThenUpdate, Held
<1>2. CASE CheckSiteThenChange(h) \/ Refuse(h)
  <2>1. PICK step \in {"idle", "delete", "status"} :
          /\ pc' = [pc EXCEPT ![h] = step]
          /\ step # "idle" => SiteAllows(h)
          /\ UNCHANGED <<table, loaded, caller, rule, got, requests>>
    BY <1>2 DEF CheckSiteThenChange, Refuse, Goto
  <2>2. TypeOK'
    BY <2>1 DEF TypeOK, table, loaded, caller, Present, Steps
  <2>3. pc'[h] = step /\ \A g \in Handlers \ {h} : Same(g)
    BY <2>1 DEF Same, TypeOK, caller
  <2>4. step # "idle" => HeldBy(h)'
    BY <1>1, <2>1, <2>3 DEF HeldBy, SiteAllows, CanUserManageSite, table, caller, Present, Updating
  <2> QED
    BY <1>1, <2>1, <2>2, <2>3, <2>4
<1>3. ASSUME NEW b \in Bodies, CheckSiteThenUpdate(h, b)
      PROVE  /\ TypeOK'
             /\ \A g \in Handlers \ {h} : Same(g)
             /\ HeldBy(h)'
             /\ UNCHANGED <<table, loaded, got>>
             /\ pc'[h] = "save"
  <2>1. /\ pc' = [pc EXCEPT ![h] = "save"] /\ rule' = [rule EXCEPT ![h] = Merged(h, b)]
        /\ SiteAllows(h) /\ ValidateRuleParameters(b)
        /\ UNCHANGED <<table, loaded, caller, got, requests>>
    BY <1>3 DEF CheckSiteThenUpdate, Goto, Hold
  <2>2. /\ Merged(h, b) \in Row
        /\ Merged(h, b).site = rule[h].site /\ Merged(h, b).createdBy = rule[h].createdBy
        /\ Merged(h, b).type = "CUSTOM" => Merged(h, b).text # NoText
    BY <1>1, <2>1, BodyFacts DEF Merged, HeldBy, Row
  <2>3. TypeOK'
    BY <2>1, <2>2 DEF TypeOK, table, loaded, caller, Present, Stored, Steps
  <2>4. /\ pc'[h] = "save" /\ rule'[h] = Merged(h, b)
        /\ \A g \in Handlers \ {h} : Same(g)
    BY <2>1 DEF Same, TypeOK, caller
  <2>5. HeldBy(h)'
    BY <1>1, <2>1, <2>2, <2>4 DEF HeldBy, SiteAllows, CanUserManageSite, table, caller, Present,
                                  Updating
  <2> QED
    BY <2>1, <2>3, <2>4, <2>5
<1> QED
  BY <1>1, <1>2, <1>3

\* What a statement may do to the table: one row of the site of h, ids in order.
RowChanges(h, i, r) ==
    /\ r \in Stored
    /\ r # NoRule => /\ r.site = rule[h].site
                     /\ r.type = "CUSTOM" => r.text # NoText
    /\ Present(i) => /\ waf_rules[i].site = rule[h].site
                     /\ r # NoRule => r.createdBy = waf_rules[i].createdBy
    /\ waf_rules' = [waf_rules EXCEPT ![i] = r]

LEMMA InsertStep ==
  ASSUME TypeOK, Held, NEW h \in Handlers, InsertWAFRule(h)
  PROVE  /\ TypeOK' /\ OriginKept
         /\ \A g \in Handlers \ {h} : Same(g)
         /\ HeldBy(h)' /\ rule' = rule
         /\ pc[h] = "insert" /\ pc'[h] = "reload"
         /\ UNCHANGED <<sites, loaded, got>>
         /\ nextId \in RuleIds /\ RowChanges(h, nextId, rule[h]) /\ nextId' = nextId + 1
         /\ waf_rules'[nextId] = rule[h]
<1>1. /\ pc[h] = "insert" /\ nextId \in RuleIds
      /\ waf_rules' = [waf_rules EXCEPT ![nextId] = rule[h]] /\ nextId' = nextId + 1
      /\ id' = [id EXCEPT ![h] = nextId] /\ pc' = [pc EXCEPT ![h] = "reload"]
      /\ UNCHANGED <<sites, loaded, user, op, rule, got, requests>>
  BY DEF InsertWAFRule, Goto
<1>2. HeldBy(h)
  BY <1>1 DEF Held
<1>3. rule[h] \in Row /\ rule[h] # NoRule
  BY <1>2, NoRuleIsNoRow DEF HeldBy
<1>4. ~Present(nextId)
  BY <1>1, BoundsAssumption DEF Held, RuleIds
<1>5. nextId + 1 \in 1..MaxRule + 1
  BY <1>1, BoundsAssumption DEF RuleIds
<1>6. TypeOK'
  BY <1>1, <1>3, <1>5 DEF TypeOK, loaded, Present, Stored, Steps
<1>7. \A g \in Handlers \ {h} : Same(g)
  BY <1>1 DEF Same, TypeOK
<1>8. RowChanges(h, nextId, rule[h])
  BY <1>1, <1>2, <1>3, <1>4 DEF RowChanges, HeldBy, Stored
<1>9. OriginKept
  BY <1>1, <1>4, BoundsAssumption DEF OriginKept, TypeOK, Present, RuleIds
<1>10. HeldBy(h)'
  <2>1. pc'[h] = "reload" /\ id'[h] = nextId /\ rule'[h] = rule[h] /\ user'[h] = user[h]
    BY <1>1 DEF TypeOK
  <2>2. waf_rules'[nextId] = rule[h]
    BY <1>1 DEF TypeOK
  <2>3. id'[h] < nextId'
    BY <1>1, <2>1, BoundsAssumption DEF RuleIds
  <2> QED
    BY <1>1, <1>3, <2>1, <2>2, <2>3 DEF HeldBy, Updating, Writing
<1> QED
  BY <1>1, <1>6, <1>7, <1>8, <1>9, <1>10 DEF TypeOK

LEMMA UpdateStep ==
  ASSUME TypeOK, Held, CustomRulesHaveText, NEW h \in Handlers, UpdateWAFRule(h)
  PROVE  /\ TypeOK' /\ OriginKept
         /\ \A g \in Handlers \ {h} : Same(g)
         /\ HeldBy(h)' /\ rule' = rule
         /\ pc[h] = "save" /\ pc'[h] = "reload" /\ id[h] \in RuleIds
         /\ UNCHANGED <<sites, nextId, loaded, id, got>>
         /\ IF Present(id[h]) THEN RowChanges(h, id[h], rule[h]) ELSE waf_rules' = waf_rules
<1>1. /\ pc[h] = "save" /\ pc' = [pc EXCEPT ![h] = "reload"]
      /\ waf_rules' = IF Present(id[h]) THEN [waf_rules EXCEPT ![id[h]] = rule[h]] ELSE waf_rules
      /\ UNCHANGED <<sites, nextId, loaded, caller, rule, got, requests>>
  BY DEF UpdateWAFRule, Goto
<1>2. HeldBy(h)
  BY <1>1 DEF Held
<1>3. rule[h] \in Row /\ rule[h] # NoRule /\ id[h] \in RuleIds
  BY <1>1, <1>2, NoRuleIsNoRow DEF HeldBy
<1>4. Present(id[h]) => RowChanges(h, id[h], rule[h])
  BY <1>1, <1>2, <1>3 DEF RowChanges, HeldBy, Stored
<1>5. TypeOK'
  BY <1>1, <1>3 DEF TypeOK, loaded, caller, Present, Stored, Steps
<1>6. \A g \in Handlers \ {h} : Same(g)
  BY <1>1 DEF Same, TypeOK, caller
<1>7. OriginKept
  BY <1>1, <1>2, <1>3 DEF OriginKept, TypeOK, Present, HeldBy
<1>8. HeldBy(h)'
  <2>1. pc'[h] = "reload" /\ id' = id /\ rule' = rule /\ user' = user /\ nextId' = nextId
    BY <1>1 DEF TypeOK, caller
  <2>2. Present(id[h])' => waf_rules'[id[h]] = rule[h]
    BY <1>1, <1>3, <2>1 DEF TypeOK, Present
  <2> QED
    BY <1>1, <1>2, <1>3, <2>1, <2>2 DEF HeldBy, Updating, Writing
<1> QED
  BY <1>1, <1>3, <1>4, <1>5, <1>6, <1>7, <1>8 DEF TypeOK, caller

LEMMA DeleteStep ==
  ASSUME TypeOK, Held, NEW h \in Handlers, DeleteWAFRule(h)
  PROVE  /\ TypeOK' /\ OriginKept
         /\ \A g \in Handlers \ {h} : Same(g)
         /\ HeldBy(h)' /\ rule' = rule
         /\ pc[h] = "delete" /\ pc'[h] = "reload"
         /\ UNCHANGED <<sites, nextId, loaded, id, got>>
         /\ id[h] \in RuleIds /\ RowChanges(h, id[h], NoRule)
<1>1. /\ pc[h] = "delete" /\ pc' = [pc EXCEPT ![h] = "reload"]
      /\ waf_rules' = [waf_rules EXCEPT ![id[h]] = NoRule]
      /\ UNCHANGED <<sites, nextId, loaded, caller, rule, got, requests>>
  BY DEF DeleteWAFRule, Goto
<1>2. HeldBy(h)
  BY <1>1 DEF Held
<1>3. rule[h] \in Row /\ id[h] \in RuleIds
  BY <1>1, <1>2 DEF HeldBy
<1>4. RowChanges(h, id[h], NoRule)
  BY <1>1, <1>2, <1>3 DEF RowChanges, HeldBy, Stored
<1>5. TypeOK'
  BY <1>1, <1>3 DEF TypeOK, loaded, caller, Present, Stored, Steps
<1>6. \A g \in Handlers \ {h} : Same(g)
  BY <1>1 DEF Same, TypeOK, caller
<1>7. OriginKept
  BY <1>1, <1>3 DEF OriginKept, TypeOK, Present
<1>8. HeldBy(h)'
  <2>1. pc'[h] = "reload" /\ id' = id /\ rule' = rule /\ user' = user /\ nextId' = nextId
    BY <1>1 DEF TypeOK, caller
  <2>2. ~Present(id[h])'
    BY <1>1, <1>3, <2>1 DEF TypeOK, Present
  <2> QED
    BY <1>1, <1>2, <1>3, <2>1, <2>2 DEF HeldBy, Updating, Writing
<1> QED
  BY <1>1, <1>3, <1>4, <1>5, <1>6, <1>7, <1>8 DEF TypeOK, caller

LEMMA SetStatusStep ==
  ASSUME TypeOK, Held, CustomRulesHaveText, NEW h \in Handlers, SetStatus(h)
  PROVE  /\ TypeOK' /\ OriginKept
         /\ \A g \in Handlers \ {h} : Same(g)
         /\ HeldBy(h)' /\ rule' = rule
         /\ pc[h] = "toggle" /\ pc'[h] = "reread" /\ id[h] \in RuleIds
         /\ UNCHANGED <<sites, nextId, loaded, id, got>>
         /\ IF Present(id[h])
            THEN \E r : RowChanges(h, id[h], r) /\ r.text = waf_rules[id[h]].text /\ r # NoRule
            ELSE waf_rules' = waf_rules
<1> DEFINE i == id[h]
           r == [waf_rules[i] EXCEPT !.status = Toggled(rule[h].status)]
<1>1. /\ pc[h] = "toggle" /\ pc' = [pc EXCEPT ![h] = "reread"]
      /\ waf_rules' = IF Present(i) THEN [waf_rules EXCEPT ![i] = r] ELSE waf_rules
      /\ UNCHANGED <<sites, nextId, loaded, caller, rule, got, requests>>
  BY DEF SetStatus, Goto
<1>2. HeldBy(h)
  BY <1>1 DEF Held
<1>3. rule[h] \in Row /\ i \in RuleIds
  BY <1>1, <1>2 DEF HeldBy
<1>4. Toggled(rule[h].status) \in {"enabled", "disabled"}
  BY DEF Toggled
<1>5. ASSUME Present(i)
      PROVE  /\ r \in Row /\ r # NoRule /\ r.site = waf_rules[i].site
             /\ r.createdBy = waf_rules[i].createdBy /\ r.type = waf_rules[i].type
             /\ r.text = waf_rules[i].text
  <2>1. waf_rules[i] \in Row
    BY <1>3, <1>5 DEF TypeOK, Present, Stored
  <2>3. r \in Row /\ r.status = Toggled(rule[h].status) /\ r.site = waf_rules[i].site
        /\ r.createdBy = waf_rules[i].createdBy /\ r.type = waf_rules[i].type
        /\ r.text = waf_rules[i].text
    BY <1>4, <2>1 DEF Row, Statuses
  <2> QED
    BY <2>3, NoRuleIsNoRow
<1>6. Present(i) => RowChanges(h, i, r)
  <2> SUFFICES ASSUME Present(i) PROVE RowChanges(h, i, r)
    OBVIOUS
  <2>1. waf_rules[i].site = rule[h].site
    BY <1>1, <1>2 DEF HeldBy
  <2>2. waf_rules[i].type = "CUSTOM" => waf_rules[i].text # NoText
    BY <1>3 DEF CustomRulesHaveText
  <2>3. waf_rules' = [waf_rules EXCEPT ![i] = r]
    BY <1>1
  <2> HIDE DEF r
  <2> QED
    BY <1>5, <2>1, <2>2, <2>3 DEF RowChanges, Stored
<1>7. TypeOK'
  <2> HIDE DEF r
  <2> QED
    BY <1>1, <1>3, <1>5 DEF TypeOK, loaded, caller, Present, Stored, Steps
<1>8. \A g \in Handlers \ {h} : Same(g)
  BY <1>1 DEF Same, TypeOK, caller
<1>9. OriginKept
  <2> HIDE DEF r
  <2> QED
    BY <1>1, <1>3, <1>5 DEF OriginKept, TypeOK, Present
<1>10. HeldBy(h)'
  <2>1. pc'[h] = "reread" /\ id' = id /\ rule' = rule /\ user' = user /\ nextId' = nextId
    BY <1>1 DEF TypeOK, caller
  <2>2. Present(i)' => Present(i) /\ waf_rules'[i].site = waf_rules[i].site
                       /\ waf_rules'[i].createdBy = waf_rules[i].createdBy
    BY <1>9, <1>1, <1>2, <1>3, <2>1 DEF OriginKept, HeldBy, TypeOK, caller
  <2> QED
    BY <1>1, <1>2, <1>3, <2>1, <2>2 DEF HeldBy, Updating, Writing
<1> QED
  <2> HIDE DEF r
  <2> QED
    BY <1>1, <1>3, <1>5, <1>6, <1>7, <1>8, <1>9, <1>10 DEF TypeOK, caller

\* A handler that reads its row again holds it as the table has it, or gives up.
LEMMA ReadAgainStep ==
  ASSUME TypeOK, Held, NEW h \in Handlers, NEW step \in {"toggle", "reload"},
         pc[h] = IF step = "toggle" THEN "status" ELSE "reread",
         IF Present(id[h]) THEN Hold(h, waf_rules[id[h]]) /\ Goto(h, step)
         ELSE Goto(h, "idle") /\ UNCHANGED rule,
         UNCHANGED <<table, loaded, caller, got, requests>>
  PROVE  /\ TypeOK'
         /\ \A g \in Handlers \ {h} : Same(g)
         /\ rule'[h].site = rule[h].site
         /\ IF Present(id[h]) THEN HeldBy(h)' /\ pc'[h] = step ELSE pc'[h] = "idle"
<1>1. HeldBy(h) /\ id[h] \in RuleIds
  BY DEF Held, HeldBy
<1>2. CASE Present(id[h])
  <2>1. rule' = [rule EXCEPT ![h] = waf_rules[id[h]]] /\ pc' = [pc EXCEPT ![h] = step]
    BY <1>2 DEF Hold, Goto
  <2>2. waf_rules[id[h]] \in Row /\ waf_rules[id[h]].site = rule[h].site
    BY <1>1, <1>2 DEF TypeOK, Stored, Present, HeldBy
  <2>3. TypeOK'
    BY <1>1, <2>1, <2>2 DEF TypeOK, table, loaded, caller, Stored, Steps
  <2>4. \A g \in Handlers \ {h} : Same(g)
    BY <2>1 DEF Same, TypeOK, caller
  <2>5. rule'[h] = waf_rules[id[h]] /\ pc'[h] = step /\ UNCHANGED <<waf_rules, nextId, id, user>>
    BY <2>1 DEF TypeOK, table, caller
  <2>6. CanUserManageSite(user[h], rule[h].site) \/ step = "reload"
    BY <1>1 DEF HeldBy, Updating
  <2>7. HeldBy(h)'
    BY <1>1, <2>2, <2>5, <2>6 DEF HeldBy, CanUserManageSite, Present, Updating, Writing
  <2> QED
    BY <1>2, <2>2, <2>3, <2>4, <2>5, <2>7
<1>3. CASE ~Present(id[h])
  <2>1. pc' = [pc EXCEPT ![h] = "idle"] /\ rule' = rule
    BY <1>3 DEF Goto
  <2>2. TypeOK'
    BY <2>1 DEF TypeOK, table, loaded, caller, Steps
  <2> QED
    BY <1>3, <2>1, <2>2 DEF Same, TypeOK, caller
<1> QED
  BY <1>2, <1>3

\* The steps that leave the table and what the handlers hold alone.
LoadStep(h) ==
    \/ GetUpdatedRuleFails(h) \/ StatementFails(h)
    \/ QueryRules(h) \/ QueryRulesFails(h) \/ StoreReloaded(h) \/ BuildFails(h)

LEMMA SelectedType ==
  ASSUME TypeOK, NEW s \in Sites
  PROVE  Selected(s) \in SUBSET [id : RuleIds, text : Texts]
<1>1. NoRule.text \in Texts
  BY DEF NoRule, NoText, Texts
<1>2. \A r \in Row : r.text \in Texts
  BY DEF Row
<1>3. \A i \in RuleIds : waf_rules[i].text \in Texts
  BY <1>1, <1>2 DEF TypeOK, Stored
<1> QED
  BY <1>3 DEF Selected

LEMMA LoadSteps ==
  ASSUME TypeOK, Held, NEW h \in Handlers, LoadStep(h)
  PROVE  /\ TypeOK'
         /\ \A g \in Handlers \ {h} : Same(g)
         /\ rule' = rule /\ id' = id
         /\ pc'[h] \in {"idle", "build", "bare"}
         /\ pc'[h] = "idle" \/ HeldBy(h)'
         /\ UNCHANGED table
<1>1. /\ UNCHANGED <<table, caller, rule, requests>> /\ pc[h] # "idle"
      /\ \E step \in {"idle", "build", "bare"} :
            /\ pc' = [pc EXCEPT ![h] = step]
            /\ step # "idle" => pc[h] = "reload"
  BY DEF LoadStep, GetUpdatedRuleFails, StatementFails, QueryRules, QueryRulesFails, StoreReloaded,
         BuildFails, ReloadEnds, Goto
<1>2. HeldBy(h) /\ rule[h].site \in Sites
  BY <1>1 DEF Held, HeldBy, Row
<1>3. /\ wafInstances' \in [Sites -> SUBSET [id : RuleIds, text : Texts]]
      /\ lastLoad' \in [Sites -> {"never", "loaded", "bare", "failed"}]
      /\ leftOut' \subseteq Sites
      /\ wmMutex' \in Handlers \cup {NoThread}
      /\ got' \in [Handlers -> SUBSET [id : RuleIds, text : Texts]]
  <2>1. CASE GetUpdatedRuleFails(h) \/ StatementFails(h) \/ QueryRulesFails(h)
    BY <1>2, <2>1 DEF GetUpdatedRuleFails, StatementFails, QueryRulesFails, loaded, TypeOK
  <2>2. CASE QueryRules(h)
    BY <1>2, <2>2, SelectedType DEF QueryRules, TypeOK
  <2>3. ASSUME NEW instance \in SUBSET [id : RuleIds, text : Texts],
               NEW outcome \in {"loaded", "bare", "failed"},
               ReloadEnds(h, instance, outcome)
        PROVE  <1>3
    BY <1>2, <2>3 DEF ReloadEnds, TypeOK
  <2>4. CASE StoreReloaded(h) \/ BuildFails(h)
    BY <1>2, <2>3, <2>4 DEF StoreReloaded, BuildFails, TypeOK
  <2> QED
    BY <2>1, <2>2, <2>4 DEF LoadStep
<1>4. TypeOK'
  BY <1>1, <1>3 DEF TypeOK, table, caller, Present, Steps
<1>5. \A g \in Handlers \ {h} : Same(g)
  BY <1>1 DEF Same, TypeOK, caller
<1>6. pc'[h] = "idle" \/ HeldBy(h)'
  BY <1>1, <1>2 DEF HeldBy, TypeOK, table, caller, Present, Updating, Writing
<1> QED
  BY <1>1, <1>4, <1>5, <1>6 DEF TypeOK, caller

-----------------------------------------------------------------------------
(* What the handlers hold stays true.                                      *)

LEMMA HeldCarries ==
  ASSUME TypeOK, TypeOK', Held, NEW h \in Handlers, OriginKept,
         \A g \in Handlers \ {h} : Same(g),
         pc'[h] = "idle" \/ HeldBy(h)'
  PROVE  Held'
<1>1. \A i \in RuleIds : Present(i)' => i < nextId'
  BY BoundsAssumption DEF OriginKept, Held, TypeOK, RuleIds
<1>2. ASSUME NEW g \in Handlers, pc'[g] # "idle"
      PROVE  HeldBy(g)'
  <2>1. CASE g = h
    BY <1>2, <2>1
  <2>2. CASE g # h
    <3>1. Same(g) /\ HeldBy(g)
      BY <1>2, <2>2 DEF Same, Held
    <3>2. pc[g] # "insert" => id[g] \in RuleIds /\ id[g] < nextId' /\ id[g] # nextId
      BY <3>1, BoundsAssumption DEF HeldBy, OriginKept, TypeOK, RuleIds
    <3>3. pc[g] # "insert" /\ waf_rules'[id[g]] # NoRule =>
            /\ waf_rules'[id[g]].site = rule[g].site
            /\ waf_rules'[id[g]].createdBy = rule[g].createdBy
      BY <3>1, <3>2 DEF HeldBy, OriginKept, Present
    <3> QED
      BY <3>1, <3>2, <3>3 DEF HeldBy, Same, CanUserManageSite, Present
  <2> QED
    BY <2>1, <2>2
<1> QED
  BY <1>1, <1>2 DEF Held

\* The actions by what they do to the table.
ReadsOnly(h) ==
    \/ \E u \in Users : \/ \E b \in Bodies : CreateRule(h, u, b)
                        \/ \E i \in RuleIds, o \in Ops : FindRule(h, u, i, o)
    \/ CheckSiteThenChange(h) \/ Refuse(h)
    \/ \E b \in Bodies : CheckSiteThenUpdate(h, b)
    \/ ReadStatus(h) \/ GetUpdatedRule(h) \/ LoadStep(h)
Writes(h) == InsertWAFRule(h) \/ UpdateWAFRule(h) \/ DeleteWAFRule(h) \/ SetStatus(h)

LEMMA NextCases ==
  Next => \/ \E h \in Handlers : ReadsOnly(h) \/ Writes(h)
          \/ \E s \in Sites : DeleteSite(s)
  BY DEF Next, ReadsOnly, Writes, Change, ReloadWAF, LoadStep

LEMMA ReadsOnlyStep ==
  ASSUME TypeOK, Held, NEW h \in Handlers, ReadsOnly(h)
  PROVE  /\ TypeOK'
         /\ \A g \in Handlers \ {h} : Same(g)
         /\ pc'[h] = "idle" \/ HeldBy(h)'
         /\ UNCHANGED table
<1>1. CASE ReadStatus(h)
  BY <1>1, ReadAgainStep DEF ReadStatus, table
<1>2. CASE GetUpdatedRule(h)
  BY <1>2, ReadAgainStep DEF GetUpdatedRule, table
<1>3. CASE LoadStep(h)
  BY <1>3, LoadSteps
<1>4. CASE CheckSiteThenChange(h) \/ Refuse(h) \/ \E b \in Bodies : CheckSiteThenUpdate(h, b)
  BY <1>4, CheckSiteStep DEF table
<1>5. ASSUME NEW u \in Users, NEW b \in Bodies, CreateRule(h, u, b)
      PROVE  /\ TypeOK'
             /\ \A g \in Handlers \ {h} : Same(g)
             /\ pc'[h] = "idle" \/ HeldBy(h)'
             /\ UNCHANGED table
  BY <1>5, CreateRuleStep DEF table
<1>6. ASSUME NEW u \in Users, NEW i \in RuleIds, NEW o \in Ops, FindRule(h, u, i, o)
      PROVE  /\ TypeOK'
             /\ \A g \in Handlers \ {h} : Same(g)
             /\ pc'[h] = "idle" \/ HeldBy(h)'
             /\ UNCHANGED table
  BY <1>6, FindRuleStep DEF table
<1> QED
  BY <1>1, <1>2, <1>3, <1>4, <1>5, <1>6 DEF ReadsOnly

LEMMA WritesStep ==
  ASSUME TypeOK, Held, CustomRulesHaveText, NEW h \in Handlers, Writes(h)
  PROVE  /\ TypeOK' /\ OriginKept
         /\ \A g \in Handlers \ {h} : Same(g)
         /\ HeldBy(h)' /\ rule' = rule
         /\ pc[h] \in Writing /\ pc'[h] \in {"reload", "reread"}
         /\ UNCHANGED <<sites, loaded, got>>
         /\ \/ waf_rules' = waf_rules
            \/ \E i \in RuleIds, r \in Stored :
                  /\ RowChanges(h, i, r)
                  /\ pc'[h] = "reread" => i = id'[h] /\ r # NoRule
<1>1. CASE InsertWAFRule(h)
  <2>1. RowChanges(h, nextId, rule[h]) /\ nextId \in RuleIds /\ pc'[h] = "reload"
    BY <1>1, InsertStep
  <2>2. \E i \in RuleIds, r \in Stored :
           RowChanges(h, i, r) /\ (pc'[h] = "reread" => i = id'[h] /\ r # NoRule)
    BY <2>1 DEF RowChanges
  <2> QED
    BY <1>1, <2>2, InsertStep DEF Writing
<1>2. CASE UpdateWAFRule(h)
  <2>1. \/ waf_rules' = waf_rules
        \/ RowChanges(h, id[h], rule[h]) /\ id[h] \in RuleIds /\ pc'[h] = "reload"
    BY <1>2, UpdateStep
  <2>2. \/ waf_rules' = waf_rules
        \/ \E i \in RuleIds, r \in Stored :
             RowChanges(h, i, r) /\ (pc'[h] = "reread" => i = id'[h] /\ r # NoRule)
    BY <2>1 DEF RowChanges
  <2> QED
    BY <1>2, <2>2, UpdateStep DEF Writing
<1>3. CASE DeleteWAFRule(h)
  <2>1. RowChanges(h, id[h], NoRule) /\ id[h] \in RuleIds /\ pc'[h] = "reload"
    BY <1>3, DeleteStep
  <2>2. \E i \in RuleIds, r \in Stored :
           RowChanges(h, i, r) /\ (pc'[h] = "reread" => i = id'[h] /\ r # NoRule)
    BY <2>1 DEF RowChanges
  <2> QED
    BY <1>3, <2>2, DeleteStep DEF Writing
<1>4. CASE SetStatus(h)
  <2>1. \/ waf_rules' = waf_rules
        \/ \E r : RowChanges(h, id[h], r) /\ r # NoRule /\ id[h] \in RuleIds /\ id' = id
    BY <1>4, SetStatusStep
  <2>2. \/ waf_rules' = waf_rules
        \/ \E i \in RuleIds, r \in Stored :
             RowChanges(h, i, r) /\ (pc'[h] = "reread" => i = id'[h] /\ r # NoRule)
    BY <2>1 DEF RowChanges
  <2> QED
    BY <1>4, <2>2, SetStatusStep DEF Writing
<1> QED
  BY <1>1, <1>2, <1>3, <1>4 DEF Writes

LEMMA TypeHeldStep ==
  ASSUME TypeOK, Held, CustomRulesHaveText, [Next]_vars
  PROVE  TypeOK' /\ Held' /\ CustomRulesHaveText' /\ OriginKept
<1>1. ASSUME NEW h \in Handlers, ReadsOnly(h)
      PROVE  TypeOK' /\ Held' /\ CustomRulesHaveText' /\ OriginKept
  <2>1. OriginKept /\ CustomRulesHaveText'
    BY <1>1, ReadsOnlyStep DEF OriginKept, CustomRulesHaveText, table, Present, TypeOK
  <2> QED
    BY <1>1, <2>1, ReadsOnlyStep, HeldCarries
<1>2. ASSUME NEW h \in Handlers, Writes(h)
      PROVE  TypeOK' /\ Held' /\ CustomRulesHaveText' /\ OriginKept
  <2>1. TypeOK' /\ Held' /\ OriginKept
    BY <1>2, WritesStep, HeldCarries
  <2>2. CASE waf_rules' = waf_rules
    BY <2>1, <2>2 DEF CustomRulesHaveText, Present
  <2>3. ASSUME NEW i \in RuleIds, NEW r \in Stored, RowChanges(h, i, r)
        PROVE  CustomRulesHaveText'
    BY <2>3 DEF RowChanges, CustomRulesHaveText, Present, TypeOK
  <2> QED
    BY <1>2, <2>1, <2>2, <2>3, WritesStep
<1>3. ASSUME NEW s \in Sites, DeleteSite(s)
      PROVE  TypeOK' /\ Held' /\ CustomRulesHaveText' /\ OriginKept
  BY <1>3 DEF DeleteSite, TypeOK, loaded, caller, Held, HeldBy, CanUserManageSite,
              CustomRulesHaveText, OriginKept, Present
<1>4. CASE UNCHANGED vars
  BY <1>4 DEF vars, table, TypeOK, loaded, caller, Held, HeldBy, CanUserManageSite,
              CustomRulesHaveText, OriginKept, Present
<1> QED
  BY <1>1, <1>2, <1>3, <1>4, NextCases

-----------------------------------------------------------------------------
(* Each change is followed by a reload that sees it.                       *)

\* Nothing a reload depends on changes, and h has no reload ahead, before or after.
LEMMA ReloadsCarry ==
  ASSUME Reloads, NEW h \in Handlers,
         UNCHANGED <<waf_rules, loaded, got>>,
         \A g \in Handlers \ {h} : Same(g),
         ~Reloading(h), ~Reloading(h)',
         \A s \in Sites \cup {0} : Pending(h, s) => Pending(h, s)',
         \A g \in Handlers : pc[g] # "idle" => rule[g].site \in Sites
  PROVE  Reloads'
<1>1. \A s : Selected(s)' = Selected(s)
  BY DEF Selected
<1>2. \A g \in Handlers : Reloading(g) <=> Reloading(g)'
  BY DEF Reloading, Same
<1>3. \A g \in Handlers, s \in Sites : Pending(g, s) => Pending(g, s)'
  BY DEF Pending, Same, Present
<1>4. \A s \in Sites : PendingReload(s) => PendingReload(s)'
  BY <1>3 DEF PendingReload
<1>5. \A g \in Handlers : Reloading(g) => rule'[g] = rule[g] /\ pc'[g] = pc[g] /\ rule[g].site \in Sites
  BY DEF Same, Reloading
<1> QED
  BY <1>1, <1>2, <1>4, <1>5 DEF Reloads, loaded, Reloading

LEMMA ReadsReloads ==
  ASSUME IInv, NEW h \in Handlers, ReadsOnly(h), ~LoadStep(h)
  PROVE  Reloads'
<1> USE DEF IInv
<1>0. \A g \in Handlers : pc[g] # "idle" => rule[g].site \in Sites
  BY DEF Held, HeldBy, Row
<1>1. \A g \in Handlers \ {h} : Same(g)
  BY ReadsOnlyStep
<1>2. CASE GetUpdatedRule(h)
  <2>1. /\ pc[h] = "reread" /\ UNCHANGED <<table, loaded, caller, got>>
        /\ rule'[h].site = rule[h].site
        /\ pc'[h] = IF Present(id[h]) THEN "reload" ELSE "idle"
    BY <1>2, ReadAgainStep DEF GetUpdatedRule
  <2>2. \A s : Pending(h, s) => Pending(h, s)'
    BY <2>1 DEF Pending
  <2> QED
    BY <1>0, <1>1, <2>1, <2>2, ReloadsCarry DEF Reloading, table
<1>3. CASE ~GetUpdatedRule(h)
  <2>1. /\ UNCHANGED <<table, loaded, got>>
        /\ pc[h] \in {"idle", "site", "status"}
        /\ pc'[h] \in {"idle", "insert", "site", "delete", "status", "save", "toggle"}
    <3>1. CASE ReadStatus(h)
      BY <3>1, ReadAgainStep DEF ReadStatus
    <3>2. CASE CheckSiteThenChange(h) \/ Refuse(h) \/ \E b \in Bodies : CheckSiteThenUpdate(h, b)
      BY <3>2, CheckSiteStep
    <3>3. ASSUME NEW u \in Users, NEW b \in Bodies, CreateRule(h, u, b)
          PROVE  <2>1
      BY <3>3, CreateRuleStep
    <3>4. ASSUME NEW u \in Users, NEW i \in RuleIds, NEW o \in Ops, FindRule(h, u, i, o)
          PROVE  <2>1
      BY <3>4, FindRuleStep
    <3> QED
      BY <1>3, <3>1, <3>2, <3>3, <3>4 DEF ReadsOnly
  <2>2. \A s : ~Pending(h, s)
    BY <2>1 DEF Pending
  <2> QED
    BY <1>0, <1>1, <2>1, <2>2, ReloadsCarry DEF Reloading, table
<1> QED
  BY <1>2, <1>3

LEMMA WritesReloads ==
  ASSUME IInv, NEW h \in Handlers, Writes(h)
  PROVE  Reloads'
<1> USE DEF IInv
<1> DEFINE t == rule[h].site
<1>1. /\ TypeOK' /\ UNCHANGED <<sites, loaded, got>> /\ rule' = rule
      /\ \A g \in Handlers \ {h} : Same(g)
      /\ pc[h] \in Writing /\ pc'[h] \in {"reload", "reread"}
  BY WritesStep
<1>2. \A g \in Handlers : pc[g] # "idle" => rule[g].site \in Sites
  BY DEF Held, HeldBy, Row
<1>3. t \in Sites
  BY <1>1, <1>2 DEF Writing
<1>4. \A g \in Handlers : Reloading(g) <=> Reloading(g)'
  BY <1>1 DEF Reloading, Same, Writing
<1>5. CASE waf_rules' = waf_rules
  <2>1. \A s : Selected(s)' = Selected(s)
    BY <1>5 DEF Selected
  <2>2. \A g \in Handlers, s \in Sites : Pending(g, s) => Pending(g, s)'
    BY <1>1, <1>5 DEF Pending, Same, Present, Writing
  <2>3. \A s \in Sites : PendingReload(s) => PendingReload(s)'
    BY <2>2 DEF PendingReload
  <2> QED
    BY <1>1, <1>2, <1>4, <2>1, <2>3 DEF Reloads, loaded, Reloading, Same, Writing
<1>6. ASSUME NEW i \in RuleIds, NEW r \in Stored, RowChanges(h, i, r),
             pc'[h] = "reread" => i = id'[h] /\ r # NoRule
      PROVE  Reloads'
  <2>1. /\ waf_rules' = [waf_rules EXCEPT ![i] = r]
        /\ Present(i) => waf_rules[i].site = t
        /\ r # NoRule => r.site = t
    BY <1>6 DEF RowChanges
  <2>2. Pending(h, t)'
    BY <1>1, <1>6, <2>1 DEF Pending, Present, TypeOK
  <2>3. PendingReload(t)'
    BY <2>2 DEF PendingReload
  <2>4. \A s \in Sites : s # t => Selected(s)' = Selected(s)
    BY <1>3, <2>1, SelectedElsewhere
  <2>5. ASSUME NEW s \in Sites, s # t, NEW g \in Handlers, Pending(g, s)
        PROVE  Pending(g, s)'
    <3>1. g # h /\ Same(g) /\ rule'[g].site = s
      BY <1>1, <2>5 DEF Pending
    <3>2. CASE pc[g] = "reload"
      BY <3>1, <3>2 DEF Pending, Same
    <3>3. CASE pc[g] = "reread" /\ Present(id[g])
      <4>1. waf_rules[id[g]].site = s /\ id[g] \in RuleIds
        BY <2>5, <3>3 DEF Held, HeldBy, Pending
      <4>2. id[g] # i
        BY <2>1, <2>5, <3>3, <4>1
      <4>3. waf_rules'[id[g]] = waf_rules[id[g]]
        BY <2>1, <4>1, <4>2 DEF TypeOK
      <4> QED
        BY <3>1, <3>3, <4>3 DEF Pending, Same, Present
    <3> QED
      BY <2>5, <3>2, <3>3 DEF Pending
  <2>6. \A s \in Sites : s # t /\ PendingReload(s) => PendingReload(s)'
    BY <2>5 DEF PendingReload
  <2> QED
    BY <1>1, <1>2, <1>4, <2>3, <2>4, <2>6 DEF Reloads, loaded, Reloading, Same, Writing
<1> QED
  BY <1>5, <1>6, WritesStep

LEMMA LoadReloads ==
  ASSUME IInv, NEW h \in Handlers, LoadStep(h)
  PROVE  Reloads'
<1> USE DEF IInv
<1> DEFINE t == rule[h].site
<1>1. /\ TypeOK' /\ UNCHANGED table /\ rule' = rule /\ id' = id
      /\ \A g \in Handlers \ {h} : Same(g)
  BY LoadSteps
<1>2. \A g \in Handlers : pc[g] # "idle" => rule[g].site \in Sites
  BY DEF Held, HeldBy, Row
<1>3. pc[h] # "idle" /\ t \in Sites
  BY <1>2 DEF LoadStep, GetUpdatedRuleFails, StatementFails, QueryRules, QueryRulesFails,
              StoreReloaded, BuildFails
<1>4. \A s : Selected(s)' = Selected(s)
  BY <1>1 DEF Selected, table
<1>5. \A g \in Handlers \ {h}, s \in Sites : Pending(g, s) => Pending(g, s)'
  BY <1>1 DEF Pending, Same, Present, table
<1>6. \A g \in Handlers \ {h} : Reloading(g) <=> Reloading(g)'
  BY <1>1 DEF Reloading, Same
<1>7. \A s \in Sites : s # t => (PendingReload(s) => PendingReload(s)')
  BY <1>5 DEF PendingReload, Pending
<1>8. CASE StatementFails(h)
  <2>1. /\ UNCHANGED <<waf_rules, loaded, got>>
        /\ ~Reloading(h) /\ ~Reloading(h)' /\ \A s : ~Pending(h, s)
    BY <1>8 DEF StatementFails, Reloading, Pending, TypeOK, Goto, table
  <2> QED
    BY <1>1, <1>2, <2>1, ReloadsCarry
<1>9. CASE GetUpdatedRuleFails(h)
  <2>1. /\ leftOut' = leftOut \cup {t} /\ UNCHANGED <<wafInstances, lastLoad, wmMutex, got>>
        /\ ~Reloading(h) /\ ~Reloading(h)'
    BY <1>9 DEF GetUpdatedRuleFails, Reloading, TypeOK, Goto
  <2> QED
    BY <1>1, <1>2, <1>4, <1>6, <1>7, <2>1 DEF Reloads, Reloading, Same
<1>10. CASE QueryRules(h)
  <2>1. /\ wmMutex = NoThread /\ wmMutex' = h /\ UNCHANGED <<wafInstances, lastLoad>>
        /\ got' = [got EXCEPT ![h] = Selected(t)] /\ leftOut' = leftOut \ {t}
        /\ pc'[h] = "build" /\ ~Reloading(h)
    BY <1>10 DEF QueryRules, TypeOK, Goto, Reloading
  <2>2. \A g \in Handlers : ~Reloading(g)
    BY <2>1, BoundsAssumption DEF Reloads
  <2>3. got'[h] = Selected(t)
    BY <2>1 DEF TypeOK
  <2> QED
    BY <1>1, <1>2, <1>3, <1>4, <1>6, <1>7, <2>1, <2>2, <2>3 DEF Reloads, Reloading
<1>11. CASE QueryRulesFails(h)
  <2>1. /\ wmMutex = NoThread /\ wmMutex' = h /\ UNCHANGED <<wafInstances, lastLoad, leftOut, got>>
        /\ pc'[h] = "bare" /\ ~Reloading(h)
    BY <1>11 DEF QueryRulesFails, TypeOK, Goto, Reloading
  <2>2. \A g \in Handlers : ~Reloading(g)
    BY <2>1, BoundsAssumption DEF Reloads
  <2> QED
    BY <1>1, <1>2, <1>3, <1>4, <1>6, <1>7, <2>1, <2>2 DEF Reloads, Reloading
<1>12. ASSUME NEW instance, NEW outcome, ReloadEnds(h, instance, outcome), Reloading(h),
              outcome = "loaded" => pc[h] = "build" /\ instance = got[h]
       PROVE  Reloads'
  <2>1. /\ wafInstances' = [wafInstances EXCEPT ![t] = instance]
        /\ lastLoad' = [lastLoad EXCEPT ![t] = outcome]
        /\ leftOut' = leftOut /\ pc'[h] = "idle"
    BY <1>12 DEF ReloadEnds, Goto, TypeOK
  <2>2. wmMutex = h
    BY <1>12 DEF Reloads
  <2>3. \A g \in Handlers : ~Reloading(g)'
    BY <1>6, <2>1, <2>2 DEF Reloads, Reloading
  <2>4. PendingReload(t) => PendingReload(t)'
    BY <1>1, <1>5, <1>3, <1>12 DEF PendingReload, Pending, Reloading
  <2>5. outcome = "loaded" => instance = Selected(t) \/ t \in leftOut \/ PendingReload(t)
    BY <1>12 DEF Reloads
  <2>6. ASSUME NEW s \in Sites, lastLoad'[s] = "loaded"
        PROVE  wafInstances'[s] = Selected(s)' \/ s \in leftOut' \/ PendingReload(s)'
    <3>1. CASE s = t
      <4>1. outcome = "loaded" /\ wafInstances'[t] = instance
        BY <1>3, <2>1, <2>6, <3>1 DEF TypeOK
      <4> QED
        BY <1>1, <1>4, <2>1, <2>4, <2>5, <3>1, <4>1
    <3>2. CASE s # t
      <4>1. lastLoad[s] = "loaded" /\ wafInstances'[s] = wafInstances[s]
        BY <2>1, <2>6, <3>2 DEF TypeOK
      <4>2. ~\E g \in Handlers : Reloading(g) /\ rule[g].site = s
        BY <2>2, <3>2 DEF Reloads
      <4> QED
        BY <1>4, <1>7, <2>1, <3>2, <4>1, <4>2 DEF Reloads
    <3> QED
      BY <3>1, <3>2
  <2> QED
    BY <2>3, <2>6 DEF Reloads, Reloading
<1>13. CASE StoreReloaded(h)
  BY <1>12, <1>13 DEF StoreReloaded, Reloading
<1>14. CASE BuildFails(h)
  BY <1>12, <1>14 DEF BuildFails, Reloading
<1> QED
  BY <1>8, <1>9, <1>10, <1>11, <1>13, <1>14 DEF LoadStep

LEMMA IInvStep == IInv /\ [Next]_vars => IInv'
<1> SUFFICES ASSUME IInv, [Next]_vars PROVE IInv'
  OBVIOUS
<1>1. TypeOK' /\ Held' /\ CustomRulesHaveText'
  BY TypeHeldStep DEF IInv
<1>2. Reloads'
  <2>1. ASSUME NEW h \in Handlers, ReadsOnly(h)
        PROVE  Reloads'
    BY <2>1, ReadsReloads, LoadReloads
  <2>2. ASSUME NEW h \in Handlers, Writes(h)
        PROVE  Reloads'
    BY <2>2, WritesReloads
  <2>3. CASE UNCHANGED <<waf_rules, loaded, pc, id, rule, got>>
    <3>1. \A s : Selected(s)' = Selected(s) /\ PendingReload(s)' = PendingReload(s)
      BY <2>3 DEF PendingReload, Pending, Present, Selected
    <3> QED
      BY <2>3, <3>1 DEF IInv, Reloads, loaded, Reloading
  <2>4. ASSUME NEW s \in Sites, DeleteSite(s)
        PROVE  Reloads'
    BY <2>3, <2>4 DEF DeleteSite, caller
  <2>5. CASE UNCHANGED vars
    BY <2>3, <2>5 DEF vars, table, caller
  <2> QED
    BY <2>1, <2>2, <2>4, <2>5, NextCases
<1> QED
  BY <1>1, <1>2 DEF IInv

LEMMA Invariance == Spec => []IInv
  BY InitIInv, IInvStep, PTL DEF Spec

-----------------------------------------------------------------------------
(* Theorems                                                                *)

\* Every variable has its type, whatever the handlers do.
THEOREM TypeCorrect == Spec => []TypeOK
<1>1. IInv => TypeOK
  BY DEF IInv
<1> QED
  BY <1>1, Invariance, PTL

\* A custom rule has a text, by whichever handlers its row came to be.
THEOREM CustomRulesAlwaysHaveText == Spec => []CustomRulesHaveText
<1>1. IInv => CustomRulesHaveText
  BY DEF IInv
<1> QED
  BY <1>1, Invariance, PTL

\* The last reload of a site after its last change has the rules of the table, in
\* whatever order handlers change and reload.
THEOREM ReloadsCatchUp == Spec => []InstanceFollowsTable
<1>1. IInv => InstanceFollowsTable
  <2> SUFFICES ASSUME IInv, NEW s \in Sites, lastLoad[s] = "loaded", s \notin leftOut,
                      \A h \in Handlers : ~Unloaded(h, s)
               PROVE  wafInstances[s] = Selected(s)
    BY DEF InstanceFollowsTable
  <2>1. ~PendingReload(s) /\ ~\E h \in Handlers : Reloading(h) /\ rule[h].site = s
    BY DEF Unloaded, PendingReload, Pending, Reloading
  <2> QED
    BY <2>1 DEF IInv, Reloads
<1> QED
  BY <1>1, Invariance, PTL

\* A row of the table changes only by one of the four statements.
LEMMA RowsChangeByStatements ==
  ASSUME IInv, [Next]_vars, NEW i \in RuleIds, waf_rules'[i] # waf_rules[i]
  PROVE  \E h \in Handlers : Writes(h)
<1>1. ASSUME NEW h \in Handlers, ReadsOnly(h)
      PROVE  waf_rules' = waf_rules
  BY <1>1, ReadsOnlyStep DEF IInv, table
<1> QED
  BY <1>1, NextCases DEF DeleteSite, vars, table

\* What is deleted stays deleted: only CreateRule makes a row.
THEOREM DeletedRulesStayDeleted == Spec => DeletedStayDeleted
<1>1. ASSUME IInv, [Next]_vars, NEW i \in RuleIds, ~Present(i), Present(i)'
      PROVE  \E h \in Handlers : pc[h] = "insert" /\ pc'[h] = "reload" /\ waf_rules'[i] = rule[h]
  <2>1. PICK h \in Handlers : Writes(h)
    BY <1>1, RowsChangeByStatements DEF Present
  <2>2. CASE InsertWAFRule(h)
    <3>1. pc[h] = "insert" /\ pc'[h] = "reload" /\ RowChanges(h, nextId, rule[h])
      BY <1>1, <2>2, InsertStep DEF IInv
    <3>2. i = nextId
      BY <1>1, <3>1 DEF RowChanges, Present, IInv, TypeOK
    <3> QED
      BY <1>1, <2>2, <3>1, <3>2, InsertStep DEF IInv
  <2>3. CASE UpdateWAFRule(h)
    BY <1>1, <2>3 DEF UpdateWAFRule, Present, IInv, TypeOK
  <2>4. CASE DeleteWAFRule(h)
    BY <1>1, <2>4 DEF DeleteWAFRule, Present, IInv, TypeOK
  <2>5. CASE SetStatus(h)
    BY <1>1, <2>5 DEF SetStatus, Present, IInv, TypeOK
  <2> QED
    BY <2>1, <2>2, <2>3, <2>4, <2>5 DEF Writes
<1>2. IInv /\ [Next]_vars =>
        [\A i \in RuleIds : ~Present(i) /\ Present(i)' =>
          \E h \in Handlers : pc[h] = "insert" /\ pc'[h] = "reload" /\ waf_rules'[i] = rule[h]]_vars
  BY <1>1
<1> QED
  BY <1>2, Invariance, PTL DEF Spec, DeletedStayDeleted

\* Only a user who manages a rule's site makes, changes or deletes it.
THEOREM RulesChangeByPermission == Spec => ChangesPermitted
<1>1. ASSUME IInv, [Next]_vars, NEW i \in RuleIds, waf_rules'[i] # waf_rules[i]
      PROVE  \E h \in Handlers :
                /\ pc[h] \in Writing /\ pc'[h] # pc[h]
                /\ \A r \in {waf_rules[i], waf_rules'[i]} \ {NoRule} :
                       CanUserManageSite(user[h], r.site)
  <2>1. PICK h \in Handlers : Writes(h)
    BY <1>1, RowsChangeByStatements
  <2>2. pc[h] \in Writing /\ pc'[h] \in {"reload", "reread"}
    BY <1>1, <2>1, WritesStep DEF IInv
  <2>3. CanUserManageSite(user[h], rule[h].site)
    BY <1>1, <2>2 DEF IInv, Held, HeldBy, Updating, Writing
  <2>4. PICK j \in RuleIds, r \in Stored : RowChanges(h, j, r)
    BY <1>1, <2>1, WritesStep DEF IInv
  <2>5. j = i
    BY <1>1, <2>4 DEF RowChanges, IInv, TypeOK
  <2>6. waf_rules'[i] = r
    BY <1>1, <2>4, <2>5 DEF RowChanges, IInv, TypeOK
  <2>7. \A q \in {waf_rules[i], waf_rules'[i]} \ {NoRule} : q.site = rule[h].site
    BY <1>1, <2>4, <2>5, <2>6 DEF RowChanges, Present
  <2> QED
    BY <2>2, <2>3, <2>7 DEF Writing
<1>2. IInv /\ [Next]_vars =>
        [\A i \in RuleIds : waf_rules'[i] # waf_rules[i] =>
            \E h \in Handlers :
                /\ pc[h] \in Writing /\ pc'[h] # pc[h]
                /\ \A r \in {waf_rules[i], waf_rules'[i]} \ {NoRule} :
                       CanUserManageSite(user[h], r.site)]_vars
  BY <1>1
<1> QED
  BY <1>2, Invariance, PTL DEF Spec, ChangesPermitted

\* A toggle never brings an older text back.
THEOREM TogglesLoseNoUpdate == Spec => TogglesKeepTexts
<1>1. ASSUME IInv, [Next]_vars, NEW i \in RuleIds, Present(i), Present(i)',
             waf_rules'[i].text # waf_rules[i].text
      PROVE  \E h \in Handlers : pc[h] = "save" /\ pc'[h] = "reload" /\ id[h] = i
  <2>1. PICK h \in Handlers : Writes(h)
    BY <1>1, RowsChangeByStatements
  <2>2. CASE InsertWAFRule(h)
    BY <1>1, <2>2 DEF InsertWAFRule, Present, IInv, TypeOK, Held
  <2>3. CASE UpdateWAFRule(h)
    <3>1. pc[h] = "save" /\ pc'[h] = "reload"
      BY <1>1, <2>3, UpdateStep DEF IInv
    <3>2. id[h] = i
      BY <1>1, <2>3 DEF UpdateWAFRule, IInv, TypeOK
    <3> QED
      BY <3>1, <3>2
  <2>4. CASE DeleteWAFRule(h)
    BY <1>1, <2>4 DEF DeleteWAFRule, Present, IInv, TypeOK
  <2>5. CASE SetStatus(h)
    <3>1. PICK r : RowChanges(h, id[h], r) /\ r.text = waf_rules[id[h]].text
      BY <1>1, <2>5, SetStatusStep DEF IInv
    <3>2. waf_rules' = [waf_rules EXCEPT ![id[h]] = r]
      BY <3>1 DEF RowChanges
    <3>3. id[h] = i /\ waf_rules'[i] = r
      BY <1>1, <3>2 DEF IInv, TypeOK
    <3> QED
      BY <1>1, <3>1, <3>2, <3>3
  <2> QED
    BY <2>1, <2>2, <2>3, <2>4, <2>5 DEF Writes
<1>2. IInv /\ [Next]_vars =>
        [\A i \in RuleIds : Present(i) /\ Present(i)' /\ waf_rules'[i].text # waf_rules[i].text =>
            \E h \in Handlers : pc[h] = "save" /\ pc'[h] = "reload" /\ id[h] = i]_vars
  BY <1>1
<1> QED
  BY <1>2, Invariance, PTL DEF Spec, TogglesKeepTexts
=============================================================================
