----------------------------- MODULE WAFManager -----------------------------
(***************************************************************************)
(* The loading of custom WAF rules (proxy/waf.go, controllers/wafrule.go). *)
(*                                                                         *)
(* The program holds TWO WAFManagers: the one the proxy server creates for *)
(* itself (NewProxyServer) and the singleton the rule controller uses      *)
(* (GetWAFManager).  Each has its own wafInstances and mutex; ruleVersions,*)
(* lastRuleCheck, ruleDbMutex, the one-token channel ruleDbTryLock and the *)
(* file custom_rules.conf of a site are shared by both.                    *)
(*                                                                         *)
(* Threads: requests (GetWAF on the proxy's manager), handlers of the rule *)
(* API (a change of the waf_rules table, then ReloadWAF on the controller's*)
(* manager), the goroutines RulesNeedReload spawns (workers), the periodic *)
(* checker of each manager and the goroutine it spawns to take the lock.   *)
(*                                                                         *)
(* Abstractions.  A site has at most one rule row; the row's changes are   *)
(* numbered by rev.  The content of a file, and of a WAF instance built    *)
(* from it, is the rev the generating query saw and whether the row was    *)
(* among those it selected.  A timestamp (ruleVersions) is the rev the     *)
(* table had when it was taken.                                            *)
(***************************************************************************)
EXTENDS Integers, FiniteSets

CONSTANTS
    Sites,      \* active sites with waf_enabled
    Requests,   \* goroutines of the proxy's HTTP server
    Handlers,   \* goroutines of the API's HTTP server
    Workers,    \* goroutines of RulesNeedReload (bound on how many at once)
    Tickers,    \* the managers whose 15-minute ticker fires
    Statuses,   \* the statuses API requests store in a rule row
    Faults,     \* the operations that may fail
    MaxRev,     \* bound on the changes of a rule row
    NoThread    \* "unlocked"

Managers == {"proxy", "api"}
Checkers == {"proxyChecker", "apiChecker"}
Helpers  == {"proxyHelper", "apiHelper"}
Reloaders == Handlers \cup Workers \cup Checkers
Loaders == Requests \cup Reloaders
Threads == Loaders \cup Helpers

ASSUME ThreadsAssumption ==
    /\ NoThread \notin Threads
    /\ Requests \cap (Handlers \cup Workers \cup Checkers \cup Helpers) = {}
    /\ Handlers \cap (Workers \cup Checkers \cup Helpers) = {}
    /\ Workers \cap (Checkers \cup Helpers) = {}
ASSUME BoundsAssumption ==
    /\ Sites # {}
    /\ MaxRev \in Nat \ {0}
    /\ Tickers \subseteq Managers
    /\ "absent" \notin Statuses
    /\ Faults \subseteq {"query", "write", "build", "sameSecond"}

VARIABLES
    waf_rules,      \* the row of each site: its status ("absent": no row) and rev
    file,           \* rules/site_<id>/custom_rules.conf of each site
    ruleVersions,   \* 0: the site has no entry
    lastRuleCheck,  \* "recent": an entry less than a minute old; "old": none, or older
    wafInstances,   \* per manager and site
    wmMutex,        \* WAFManager.mutex of each manager: its writer
    ruleDbMutex,    \* the thread that holds it
    ruleDbTryLock,  \* whether the channel holds its token
    pc, site, got,  \* per thread: next step, site at work, rules read or built
    mgr,            \* per worker: the manager it works for
    mark,           \* per worker: currentVersion; per handler: the rev it made
    todo            \* per checker: the sites left in its loop

shared == <<waf_rules, file, ruleVersions, lastRuleCheck, wafInstances>>
locks  == <<wmMutex, ruleDbMutex, ruleDbTryLock>>
locals == <<site, got, mgr, mark, todo>>
vars   == <<shared, locks, pc, locals>>

RuleStatusActive == "1"    \* the integer constant 1 as the text column compares with it
NotLoaded == [rev |-> -1, on |-> FALSE]
NoCustom  == [rev |-> 0, on |-> FALSE]

\* Filter("status", models.RuleStatusActive): the rows GenerateCustomRulesFile selects.
Selected(s) == [rev |-> waf_rules[s].rev, on |-> waf_rules[s].status = RuleStatusActive]

CheckerOf(m) == IF m = "proxy" THEN "proxyChecker" ELSE "apiChecker"
HelperOf(c)  == IF c = "proxyChecker" THEN "proxyHelper" ELSE "apiHelper"
Manager(t) ==
    IF t \in Workers THEN mgr[t]
    ELSE IF t \in Handlers \cup {"apiChecker", "apiHelper"} THEN "api" ELSE "proxy"

Goto(t, step) == pc' = [pc EXCEPT ![t] = step]

Init ==
    /\ waf_rules = [s \in Sites |-> [status |-> "absent", rev |-> 1]]
    /\ file = [s \in Sites |-> [rules |-> NoCustom, whole |-> TRUE]]
    /\ ruleVersions = [s \in Sites |-> 0]
    /\ lastRuleCheck = [s \in Sites |-> "old"]
    /\ wafInstances = [m \in Managers |-> [s \in Sites |-> NotLoaded]]
    /\ wmMutex = [m \in Managers |-> NoThread]
    /\ ruleDbMutex = NoThread
    /\ ruleDbTryLock = TRUE
    /\ pc = [t \in Threads |-> "idle"]
    /\ site = [t \in Threads |-> CHOOSE s \in Sites : TRUE]
    /\ got = [t \in Loaders |-> NoCustom]
    /\ mgr = [w \in Workers |-> "proxy"]
    /\ mark = [t \in Workers \cup Handlers |-> 0]
    /\ todo = [c \in Checkers |-> {}]

-----------------------------------------------------------------------------
(* Handlers of the rule API: one change of the table, then ReloadWAF.      *)

ChangeRow(h, s, status) ==
    /\ pc[h] = "idle"
    /\ waf_rules[s].rev < MaxRev
    /\ waf_rules' = [waf_rules EXCEPT ![s] = [status |-> status, rev |-> @.rev + 1]]
    /\ mark' = [mark EXCEPT ![h] = waf_rules[s].rev + 1]
    /\ site' = [site EXCEPT ![h] = s]
    /\ Goto(h, "lockwm")
    /\ UNCHANGED <<file, ruleVersions, lastRuleCheck, wafInstances, locks, got, mgr, todo>>

CreateRule(h, s) ==
    /\ waf_rules[s].status = "absent"
    /\ \E status \in Statuses : ChangeRow(h, s, status)

UpdateRule(h, s) ==
    /\ waf_rules[s].status # "absent"
    /\ \E status \in Statuses : ChangeRow(h, s, status)

ToggleRuleStatus(h, s) ==
    /\ waf_rules[s].status # "absent"
    /\ ChangeRow(h, s, IF waf_rules[s].status = "enabled" THEN "disabled" ELSE "enabled")

DeleteRule(h, s) ==
    /\ waf_rules[s].status # "absent"
    /\ ChangeRow(h, s, "absent")

\* The handler's ReloadWAF has returned, with or without an error, and it answers.
Reply(h) ==
    /\ pc[h] \in {"done", "failed"}
    /\ Goto(h, "idle")
    /\ mark' = [mark EXCEPT ![h] = 0]
    /\ UNCHANGED <<shared, locks, site, got, mgr, todo>>

-----------------------------------------------------------------------------
(* GetWAF, the request path.                                               *)

\* GetWAF is called and reads wafInstances under the read lock.
GetWAF(r, s) ==
    /\ pc[r] = "idle"
    /\ wmMutex["proxy"] = NoThread
    /\ site' = [site EXCEPT ![r] = s]
    /\ Goto(r, IF wafInstances["proxy"][s] = NotLoaded THEN "gen" ELSE "check")
    /\ UNCHANGED <<shared, locks, got, mgr, mark, todo>>

\* What a caller of RulesNeedReload does next: GetWAF returns the instance it
\* has or loads a new one, the checker goes on or calls ReloadWAF.
NoReload(t)   == IF t \in Requests THEN "idle" ELSE "loop"
NeedReload(t) == IF t \in Requests THEN "gen" ELSE "lockwm"

\* RulesNeedReload: the check of lastRuleCheck.
RecentCheck(t) ==
    /\ pc[t] = "check"
    /\ Goto(t, IF lastRuleCheck[site[t]] = "recent" THEN NoReload(t) ELSE "version")
    /\ UNCHANGED <<shared, locks, locals>>

\* RulesNeedReload: no entry in ruleVersions.
VersionMissing(t) ==
    /\ pc[t] = "version"
    /\ ruleVersions[site[t]] = 0
    /\ Goto(t, NeedReload(t))
    /\ UNCHANGED <<shared, locks, locals>>

\* RulesNeedReload: note the time and leave the check to a goroutine.  (When every
\* worker is busy the goroutine is one whose query fails: it does nothing.)
SpawnCheck(t) ==
    /\ pc[t] = "version"
    /\ ruleVersions[site[t]] # 0
    /\ lastRuleCheck' = [lastRuleCheck EXCEPT ![site[t]] = "recent"]
    /\ \/ \E w \in Workers :
             /\ pc[w] = "idle"
             /\ pc' = [pc EXCEPT ![t] = NoReload(t), ![w] = "count"]
             /\ site' = [site EXCEPT ![w] = site[t]]
             /\ mgr' = [mgr EXCEPT ![w] = Manager(t)]
             /\ mark' = [mark EXCEPT ![w] = ruleVersions[site[t]]]
       \/ /\ \A w \in Workers : pc[w] # "idle"
          /\ Goto(t, NoReload(t))
          /\ UNCHANGED <<site, mgr, mark>>
    /\ UNCHANGED <<waf_rules, file, ruleVersions, wafInstances, locks, got, todo>>

\* Mutation: ReloadWAF is called without "go", before the deferred unlock.
CountUpdatesReloadsItself(w) ==
    /\ pc[w] = "count"
    /\ ruleDbMutex = NoThread
    /\ IF waf_rules[site[w]].status # "absent" /\ waf_rules[site[w]].rev > mark[w]
       THEN ruleDbMutex' = w /\ Goto(w, "lockwm")
       ELSE Goto(w, "idle") /\ UNCHANGED ruleDbMutex
    /\ mark' = [mark EXCEPT ![w] = 0]
    /\ UNCHANGED <<shared, wmMutex, ruleDbTryLock, site, got, mgr, todo>>

\* The goroutine counts the rows with updated_at__gt currentVersion, under
\* ruleDbMutex, and reloads if there is one.  A deleted row counts for nothing;
\* both times are whole seconds, so a change in the second of the version may
\* not count either.
CountUpdates(w) ==
    /\ pc[w] = "count"
    /\ ruleDbMutex = NoThread
    /\ \/ /\ waf_rules[site[w]].status # "absent"
          /\ waf_rules[site[w]].rev > mark[w]
          /\ Goto(w, "lockwm")
       \/ /\ \/ waf_rules[site[w]].status = "absent"
             \/ waf_rules[site[w]].rev <= mark[w]
             \/ Faults \cap {"sameSecond", "query"} # {}
          /\ Goto(w, "idle")
    /\ mark' = [mark EXCEPT ![w] = 0]
    /\ UNCHANGED <<shared, locks, site, got, mgr, todo>>

-----------------------------------------------------------------------------
(* LoadRulesWithCustomRules: GenerateCustomRulesFile, then NewWAF.  GetWAF *)
(* calls it without wm.mutex and takes the mutex to store; ReloadWAF holds *)
(* the mutex over both.                                                    *)

\* Mutation: ReloadWAF does not wait for another ReloadWAF.
LockManagerShared(t) ==
    /\ pc[t] = "lockwm"
    /\ wmMutex' = [wmMutex EXCEPT ![Manager(t)] = t]
    /\ Goto(t, "gen")
    /\ UNCHANGED <<shared, ruleDbMutex, ruleDbTryLock, locals>>

LockManager(t) ==
    /\ pc[t] = "lockwm"
    /\ wmMutex[Manager(t)] = NoThread
    /\ wmMutex' = [wmMutex EXCEPT ![Manager(t)] = t]
    /\ Goto(t, "gen")
    /\ UNCHANGED <<shared, ruleDbMutex, ruleDbTryLock, locals>>

\* Mutation: the generation does not wait for ruleDbMutex.
QueryRulesUnlocked(t) ==
    /\ pc[t] = "gen"
    /\ ruleDbMutex' = t
    /\ got' = [got EXCEPT ![t] = Selected(site[t])]
    /\ Goto(t, "trunc")
    /\ UNCHANGED <<shared, wmMutex, ruleDbTryLock, site, mgr, mark, todo>>

\* GenerateCustomRulesFile locks ruleDbMutex and queries the rules ...
QueryRules(t) ==
    /\ pc[t] = "gen"
    /\ ruleDbMutex = NoThread
    /\ ruleDbMutex' = t
    /\ got' = [got EXCEPT ![t] = Selected(site[t])]
    /\ Goto(t, "trunc")
    /\ UNCHANGED <<shared, wmMutex, ruleDbTryLock, site, mgr, mark, todo>>

\* ... or the query fails, and the load goes on without custom rules.
QueryFails(t) ==
    /\ pc[t] = "gen"
    /\ ruleDbMutex = NoThread
    /\ "query" \in Faults
    /\ Goto(t, "bare")
    /\ UNCHANGED <<shared, locks, locals>>

\* WriteFile opens the file with O_TRUNC.  "rules" remembers what it held last.
TruncateFile(t) ==
    /\ pc[t] = "trunc"
    /\ file' = [file EXCEPT ![site[t]] = [rules |-> @.rules, whole |-> FALSE]]
    /\ Goto(t, "write")
    /\ UNCHANGED <<waf_rules, ruleVersions, lastRuleCheck, wafInstances, locks, locals>>

\* Mutations: a version ahead of the table, a file that is written only once.
WriteFileVersionAhead(t) ==
    /\ pc[t] = "write"
    /\ file' = [file EXCEPT ![site[t]] = [rules |-> got[t], whole |-> TRUE]]
    /\ ruleVersions' = [ruleVersions EXCEPT ![site[t]] = waf_rules[site[t]].rev + 1]
    /\ ruleDbMutex' = NoThread
    /\ Goto(t, "build")
    /\ UNCHANGED <<waf_rules, lastRuleCheck, wafInstances, wmMutex, ruleDbTryLock, locals>>

WriteFileOnce(t) ==
    /\ pc[t] = "write"
    /\ file' = [file EXCEPT ![site[t]] =
                  [rules |-> IF @.rules = NoCustom THEN got[t] ELSE @.rules, whole |-> TRUE]]
    /\ ruleVersions' = [ruleVersions EXCEPT ![site[t]] = waf_rules[site[t]].rev]
    /\ ruleDbMutex' = NoThread
    /\ Goto(t, "build")
    /\ UNCHANGED <<waf_rules, lastRuleCheck, wafInstances, wmMutex, ruleDbTryLock, locals>>

\* WriteFile writes, the version is stamped, ruleDbMutex is released.
WriteFile(t) ==
    /\ pc[t] = "write"
    /\ file' = [file EXCEPT ![site[t]] = [rules |-> got[t], whole |-> TRUE]]
    /\ ruleVersions' = [ruleVersions EXCEPT ![site[t]] = waf_rules[site[t]].rev]
    /\ ruleDbMutex' = NoThread
    /\ Goto(t, "build")
    /\ UNCHANGED <<waf_rules, lastRuleCheck, wafInstances, wmMutex, ruleDbTryLock, locals>>

WriteFails(t) ==
    /\ pc[t] \in {"trunc", "write"}
    /\ "write" \in Faults
    /\ ruleDbMutex' = NoThread
    /\ Goto(t, "bare")
    /\ UNCHANGED <<shared, wmMutex, ruleDbTryLock, locals>>

\* NewWAF reads the file, which another generation may have truncated by now.
BuildWAF(t) ==
    /\ pc[t] \in {"build", "bare"}
    /\ got' = [got EXCEPT ![t] = IF pc[t] = "build" /\ file[site[t]].whole
                                 THEN file[site[t]].rules ELSE NoCustom]
    /\ Goto(t, "store")
    /\ UNCHANGED <<shared, locks, site, mgr, mark, todo>>

\* NewWAF fails; ReloadWAF releases wm.mutex.
BuildFails(t) ==
    /\ pc[t] \in {"build", "bare"}
    /\ "build" \in Faults \/ (pc[t] = "build" /\ ~file[site[t]].whole)
    /\ wmMutex' = [wmMutex EXCEPT ![Manager(t)] = IF t \in Reloaders THEN NoThread ELSE @]
    /\ Goto(t, IF t \in Handlers THEN "failed" ELSE IF t \in Checkers THEN "loop" ELSE "idle")
    /\ UNCHANGED <<shared, ruleDbMutex, ruleDbTryLock, locals>>

\* The instance goes into the map (and out of the thread's scope).
Store(t) ==
    /\ pc[t] = "store"
    /\ wafInstances' = [wafInstances EXCEPT ![Manager(t)][site[t]] = got[t]]
    /\ got' = [got EXCEPT ![t] = NoCustom]
    /\ UNCHANGED <<waf_rules, file, lastRuleCheck, ruleDbMutex, ruleDbTryLock,
                   site, mgr, mark, todo>>

\* GetWAF stores the instance under wm.mutex and returns it.
StoreNewWAF(r) ==
    /\ Store(r)
    /\ wmMutex["proxy"] = NoThread
    /\ Goto(r, "idle")
    /\ UNCHANGED <<ruleVersions, wmMutex>>

\* ReloadWAF stores the instance, stamps the version again, releases wm.mutex.
StoreReloaded(t) ==
    /\ Store(t)
    /\ ruleVersions' = [ruleVersions EXCEPT ![site[t]] = waf_rules[site[t]].rev]
    /\ wmMutex' = [wmMutex EXCEPT ![Manager(t)] = NoThread]
    /\ Goto(t, IF t \in Handlers THEN "done" ELSE IF t \in Checkers THEN "loop" ELSE "idle")

-----------------------------------------------------------------------------
(* CheckForRuleUpdates, run by the ticker of each manager.                 *)

\* tryLockRuleDb takes the token if it is there; otherwise a goroutine tries
\* and the checker waits for it.  The goroutine of an earlier tick that still
\* waits for ruleDbMutex has the token for good: the new one finds none.
Tick(m) == LET c == CheckerOf(m) h == HelperOf(c) IN
    /\ m \in Tickers
    /\ pc[c] = "idle"
    /\ pc[h] # "try"
    /\ IF ruleDbTryLock
       THEN ruleDbTryLock' = FALSE /\ Goto(c, "lockdb")
       ELSE /\ pc' = IF pc[h] = "idle" THEN [pc EXCEPT ![c] = "select", ![h] = "try"]
                     ELSE [pc EXCEPT ![c] = "alone"]
            /\ UNCHANGED ruleDbTryLock
    /\ UNCHANGED <<shared, wmMutex, ruleDbMutex, locals>>

\* The second half of tryLockRuleDb, in the checker or in its goroutine.
LockRuleDb(t) ==
    /\ pc[t] = "lockdb"
    /\ ruleDbMutex = NoThread
    /\ ruleDbMutex' = t
    /\ Goto(t, IF t \in Helpers THEN "sent" ELSE "sites")
    /\ UNCHANGED <<shared, wmMutex, ruleDbTryLock, locals>>

HelperTryLock(h) ==
    /\ pc[h] = "try"
    /\ ruleDbTryLock' = FALSE
    /\ Goto(h, IF ruleDbTryLock THEN "lockdb" ELSE "idle")
    /\ UNCHANGED <<shared, wmMutex, ruleDbMutex, locals>>

\* case <-lockChan: the lock the goroutine took is the checker's.
ReceiveLock(c) ==
    /\ pc[c] = "select" /\ pc[HelperOf(c)] = "sent"
    /\ ruleDbMutex' = c
    /\ pc' = [pc EXCEPT ![c] = "sites", ![HelperOf(c)] = "idle"]
    /\ UNCHANGED <<shared, wmMutex, ruleDbTryLock, locals>>

\* Mutation: the checker that gives up puts the token back.
LockTimeoutPutsToken(c) ==
    /\ pc[c] \in {"select", "alone"}
    /\ ruleDbTryLock' = TRUE
    /\ Goto(c, "idle")
    /\ UNCHANGED <<shared, wmMutex, ruleDbMutex, locals>>

\* case <-time.After(5 * time.Second): the goroutine goes on by itself.
LockTimeout(c) ==
    /\ pc[c] \in {"select", "alone"}
    /\ Goto(c, "idle")
    /\ UNCHANGED <<shared, locks, locals>>

\* The query of the active sites with waf_enabled; a failure ends the check.
QuerySites(c) ==
    /\ pc[c] = "sites"
    /\ \/ todo' = [todo EXCEPT ![c] = Sites]
       \/ "query" \in Faults /\ UNCHANGED todo
    /\ Goto(c, "loop")
    /\ UNCHANGED <<shared, locks, site, got, mgr, mark>>

\* for _, site := range sites: RulesNeedReload(site.ID) ...
NextSite(c, s) ==
    /\ pc[c] = "loop"
    /\ s \in todo[c]
    /\ todo' = [todo EXCEPT ![c] = @ \ {s}]
    /\ site' = [site EXCEPT ![c] = s]
    /\ Goto(c, "check")
    /\ UNCHANGED <<shared, locks, got, mgr, mark>>

\* unlockRuleDb: the mutex first, then the token.
UnlockRuleDb(c) ==
    /\ pc[c] = "loop" /\ todo[c] = {}
    /\ ruleDbMutex' = NoThread
    /\ Goto(c, "put")
    /\ UNCHANGED <<shared, wmMutex, ruleDbTryLock, locals>>

PutToken(c) ==
    /\ pc[c] = "put"
    /\ ~ruleDbTryLock
    /\ ruleDbTryLock' = TRUE
    /\ Goto(c, "idle")
    /\ UNCHANGED <<shared, wmMutex, ruleDbMutex, locals>>

\* A minute has passed since the last check of s.
MinutePasses(s) ==
    /\ lastRuleCheck[s] = "recent"
    /\ lastRuleCheck' = [lastRuleCheck EXCEPT ![s] = "old"]
    /\ UNCHANGED <<waf_rules, file, ruleVersions, wafInstances, locks, pc, locals>>

-----------------------------------------------------------------------------
RulesNeedReload(t) ==
    RecentCheck(t) \/ VersionMissing(t) \/ SpawnCheck(t)

LoadRulesWithCustomRules(t) ==
    \/ QueryRules(t) \/ QueryFails(t)
    \/ TruncateFile(t) \/ WriteFile(t) \/ WriteFails(t)
    \/ BuildWAF(t) \/ BuildFails(t)

ReloadWAF(t) == LockManager(t) \/ LoadRulesWithCustomRules(t) \/ StoreReloaded(t)

\* The steps a goroutine takes by itself once it is started.
Step(t) ==
    \/ t \in Requests /\ (RulesNeedReload(t) \/ LoadRulesWithCustomRules(t) \/ StoreNewWAF(t))
    \/ t \in Reloaders /\ ReloadWAF(t)
    \/ t \in Handlers /\ Reply(t)
    \/ t \in Workers /\ CountUpdates(t)
    \/ t \in Checkers /\ \/ RulesNeedReload(t) \/ LockRuleDb(t)
                         \/ ReceiveLock(t) \/ LockTimeout(t)
                         \/ QuerySites(t) \/ (\E s \in Sites : NextSite(t, s))
                         \/ UnlockRuleDb(t) \/ PutToken(t)
    \/ t \in Helpers /\ (HelperTryLock(t) \/ LockRuleDb(t))

ChangeRule(h, s) ==
    CreateRule(h, s) \/ UpdateRule(h, s) \/ ToggleRuleStatus(h, s) \/ DeleteRule(h, s)

Next ==
    \/ \E t \in Threads : Step(t)
    \/ \E s \in Sites : \/ \E r \in Requests : GetWAF(r, s)
                        \/ \E h \in Handlers : ChangeRule(h, s)
                        \/ MinutePasses(s)
    \/ \E m \in Managers : Tick(m)

Spec == Init /\ [][Next]_vars

\* The Go scheduler runs every goroutine that can run, and a goroutine blocked on
\* a sync.Mutex that is freed again and again gets it (starvation mode): strong
\* fairness of each goroutine's steps.
Fairness == \A t \in Threads : SF_vars(Step(t))

FairSpec == Spec /\ Fairness

\* The same, on sites that are requested again and again over more than a minute.
RequestedFairSpec ==
    /\ FairSpec
    /\ \A s \in Sites : /\ WF_vars(MinutePasses(s))
                        /\ SF_vars(\E r \in Requests : GetWAF(r, s))

-----------------------------------------------------------------------------
(* Properties                                                              *)

Content == [rev : Int, on : BOOLEAN]
Steps == {"idle", "check", "version", "gen", "trunc", "write", "build", "bare", "store",
          "count", "lockwm", "done", "failed", "try", "lockdb", "sent",
          "select", "alone", "sites", "loop", "put"}

\* Every variable has its type.
TypeOK ==
    /\ waf_rules \in [Sites -> [status : Statuses \cup {"absent", "enabled", "disabled"},
                                rev : 1..MaxRev]]
    /\ file \in [Sites -> [rules : Content, whole : BOOLEAN]]
    /\ ruleVersions \in [Sites -> 0..MaxRev]
    /\ lastRuleCheck \in [Sites -> {"recent", "old"}]
    /\ wafInstances \in [Managers -> [Sites -> Content]]
    /\ wmMutex \in [Managers -> Reloaders \cup {NoThread}]
    /\ ruleDbMutex \in Threads \cup {NoThread}
    /\ ruleDbTryLock \in BOOLEAN
    /\ pc \in [Threads -> Steps]
    /\ site \in [Threads -> Sites]
    /\ got \in [Loaders -> Content]
    /\ mgr \in [Workers -> Managers]
    /\ mark \in [Workers \cup Handlers -> 0..MaxRev]
    /\ todo \in [Checkers -> SUBSET Sites]

\* A custom_rules.conf is written by one thread at a time ("Use a mutex to prevent
\* concurrent rule generation for the same site"), whatever ways there are to take
\* ruleDbMutex: generation, the count of updates, the checker, its goroutine.
Generating(t) == pc[t] \in {"trunc", "write"}
GenerationExclusive == \A t, u \in Threads : Generating(t) /\ Generating(u) => t = u

\* The token of ruleDbTryLock is never duplicated: it is in the channel or with one
\* thread, so the send in unlockRuleDb finds the channel empty and cannot block.
HoldsToken(t) ==
    \/ pc[t] \in {"lockdb", "sent", "put"}
    \/ t \in Checkers /\ pc[t] \notin {"idle", "select", "alone"}
TokenNeverDuplicated ==
    /\ \A t, u \in Threads : HoldsToken(t) /\ HoldsToken(u) => t = u
    /\ ruleDbTryLock => \A t \in Threads : ~HoldsToken(t)

\* Whom a thread at Lock() or RLock() waits for; an idle request counts as one that
\* comes.  (The token's channel is no matter: by TokenNeverDuplicated its sender does
\* not wait.)
WaitsFor(t) ==
    IF pc[t] \in {"gen", "count", "lockdb"} THEN ruleDbMutex
    ELSE IF pc[t] = "lockwm" THEN wmMutex[Manager(t)]
    ELSE IF t \in Requests /\ pc[t] \in {"idle", "store"} THEN wmMutex["proxy"]
    ELSE NoThread
Waiting == {t \in Threads : WaitsFor(t) # NoThread}
Circle(S) == S # {} /\ \A t \in S : WaitsFor(t) \in S

\* Requests, handlers, workers, helpers and the two managers by themselves never
\* deadlock over wm.mutex and ruleDbMutex: whenever threads wait for each other in a
\* circle, one of them is a periodic checker that has ruleDbMutex and calls ReloadWAF.
\* It waits for itself (GenerateCustomRulesFile locks that mutex again) or for the
\* reload of a handler or worker that waits for it.
OnlyCheckersDeadlock ==
    \A S \in SUBSET Waiting : Circle(S) =>
        ruleDbMutex \in S \cap Checkers /\ pc[ruleDbMutex] \in {"lockwm", "gen"}

\* A rules file never goes back to an older state of the table, although any thread
\* of either manager may write it: the query is made under the lock of the write.
FileNeverGoesBack ==
    [][\A s \in Sites : file'[s].rules.rev >= file[s].rules.rev]_vars

\* An instance of the API's manager is never replaced by one with older rules (only
\* by one without custom rules, when the generation fails or its file is truncated):
\* ReloadWAF holds wm.mutex from the query to the store.
ApiInstanceNeverGoesBack ==
    [][\A s \in Sites : \/ wafInstances'["api"][s].rev >= wafInstances["api"][s].rev
                        \/ wafInstances'["api"][s] = NoCustom]_vars

\* A handler's request as RulePublication sees it: the change it has made, until it
\* answers.
RequestOf(h) ==
    IF pc[h] = "idle" THEN [phase |-> "idle"]
    ELSE [phase |-> CASE pc[h] = "done"   -> "confirmed"
                      [] pc[h] = "failed" -> "refused"
                      [] OTHER            -> "waiting",
          site |-> site[h], rev |-> mark[h]]

Publication == INSTANCE RulePublication WITH
    rules        <- [s \in Sites |-> waf_rules[s].rev],
    file         <- [s \in Sites |-> file[s].rules.rev],
    wafInstances <- [m \in Managers |-> [s \in Sites |-> wafInstances[m][s].rev]],
    request      <- [h \in Handlers |-> RequestOf(h)]

\* Whatever the threads of the two managers do to the files and to each other's locks,
\* what they do is to publish rules and to load what is published: a file goes forward
\* only, an instance of either manager never has rules that no file held, one of the
\* API's manager never goes back, and a handler whose reload succeeds leaves an instance
\* that has its change (or none).
ImplementsPublication == Publication!Spec

\* When a handler's ReloadWAF returns without an error, the instance of its manager
\* has rules at least as new as the handler's own change (or no custom rules at all).
ReloadedSeesOwnChange ==
    \A h \in Handlers : pc[h] = "done" =>
        \/ wafInstances["api"][site[h]].rev >= mark[h]
        \/ wafInstances["api"][site[h]] = NoCustom

-----------------------------------------------------------------------------
(* What comments of the code say, and the code does not do.                *)

\* waf.go:244, "Never block the request path": every GetWAF returns, with an
\* instance or with an error.
RequestsAnswered == \A r \in Requests : pc[r] # "idle" ~> pc[r] = "idle"

\* waf.go:196, "RulesNeedReload checks if rules for a site need to be reloaded", and
\* wafrule.go:228, "Reload WAF for the site": a change of a rule reaches the instance
\* the proxy serves with, on a site that keeps being requested.
ProxyLearnsChanges ==
    \A s \in Sites : <>[](wafInstances["proxy"][s].on = Selected(s).on)
=============================================================================
