-------------------------- MODULE WAFManagerProofs --------------------------
(* Proofs of the safety properties of WAFManager, for every number of      *)
(* sites and threads, every set of faults and either, both or no ticker.   *)
EXTENDS WAFManager, TLAPS

(* The steps of LoadRulesWithCustomRules up to the store. *)
Loading == {"gen", "trunc", "write", "build", "bare", "store"}

(* Which steps each kind of thread can be at. *)
KindOK ==
    /\ \A r \in Requests : pc[r] \in {"idle", "check", "version"} \cup Loading
    /\ \A h \in Handlers : pc[h] \in {"idle", "lockwm", "done", "failed"} \cup Loading
    /\ \A w \in Workers  : pc[w] \in {"idle", "count", "lockwm"} \cup Loading
    /\ \A c \in Checkers : pc[c] \in {"idle", "lockdb", "select", "alone", "sites", "loop",
                                      "check", "version", "lockwm", "gen", "put"}
    /\ \A h \in Helpers  : pc[h] \in {"idle", "try", "lockdb", "sent"}

(* Who holds ruleDbMutex: a thread that generates, a goroutine that has taken it for *)
(* its checker, a checker from its query of the sites to unlockRuleDb.               *)
HoldsDb(t) ==
    \/ pc[t] \in {"trunc", "write", "sent"}
    \/ t \in Checkers /\ pc[t] \in {"sites", "loop", "check", "version", "lockwm", "gen"}
DbMutexOK == \A t \in Threads : HoldsDb(t) => ruleDbMutex = t

(* A thread that runs LoadRulesWithCustomRules for ReloadWAF holds wm.mutex. *)
WmMutexOK == \A t \in Reloaders : pc[t] \in Loading => wmMutex[Manager(t)] = t

(* A file is not ahead of the table; what is about to be written to it is not *)
(* behind it.                                                                 *)
FileOK ==
    /\ \A s \in Sites : 0 <= file[s].rules.rev /\ file[s].rules.rev <= waf_rules[s].rev
    /\ \A t \in Loaders : pc[t] \in {"trunc", "write"} =>
          /\ got[t].rev <= waf_rules[site[t]].rev
          /\ file[site[t]].rules.rev <= got[t].rev

(* An instance is not ahead of the file it was built from; what ReloadWAF is about *)
(* to store in the manager of the API is not behind the instance there.            *)
ApiOK ==
    /\ \A m \in Managers, s \in Sites : wafInstances[m][s].rev <= file[s].rules.rev
    /\ \A t \in Loaders : pc[t] = "store" => got[t].rev <= file[site[t]].rules.rev
    /\ \A t \in Reloaders : pc[t] = "store" /\ Manager(t) = "api" =>
          got[t] = NoCustom \/ got[t].rev >= wafInstances["api"][site[t]].rev

(* A handler's change is in what its ReloadWAF reads, writes and stores, and in what *)
(* any later ReloadWAF of the same site puts in its place.                           *)
ReadOwnOK ==
    /\ \A h \in Handlers : 
          /\ pc[h] \notin {"idle", "failed"} => mark[h] <= waf_rules[site[h]].rev
          /\ pc[h] \in {"trunc", "write"} => mark[h] <= got[h].rev
          /\ pc[h] = "build" => mark[h] <= file[site[h]].rules.rev
          /\ pc[h] = "store" => got[h] = NoCustom \/ mark[h] <= got[h].rev
    /\ ReloadedSeesOwnChange
    /\ \A h \in Handlers : \A t \in Reloaders :
          pc[h] = "done" /\ Manager(t) = "api" /\ site[t] = site[h] =>
              /\ pc[t] \in {"trunc", "write"} => mark[h] <= got[t].rev
              /\ pc[t] = "build" => mark[h] <= file[site[t]].rules.rev
              /\ pc[t] = "store" => got[t] = NoCustom \/ mark[h] <= got[t].rev

IInv == /\ TypeOK /\ KindOK /\ DbMutexOK /\ TokenNeverDuplicated
        /\ WmMutexOK /\ FileOK /\ ApiOK /\ ReadOwnOK

(* The kinds of threads are disjoint and NoThread is none of them. *)
LEMMA KindsDistinct ==
    /\ Requests \cap (Reloaders \cup Helpers) = {}
    /\ Handlers \cap (Workers \cup Checkers \cup Helpers) = {}
    /\ Workers \cap (Checkers \cup Helpers) = {}
    /\ Checkers \cap Helpers = {}
    /\ NoThread \notin Threads
BY ThreadsAssumption DEF Reloaders, Checkers, Helpers, Threads, Loaders

(* The initial states satisfy the invariant. *)
LEMMA InitIInv == Init => IInv
<1> SUFFICES ASSUME Init PROVE IInv
  OBVIOUS
<1>1. (CHOOSE s \in Sites : TRUE) \in Sites
  BY BoundsAssumption
<1>2. TypeOK
  BY <1>1, BoundsAssumption DEF Init, TypeOK, Content, Steps, NoCustom, NotLoaded, Managers
<1>3. KindOK /\ DbMutexOK /\ WmMutexOK /\ TokenNeverDuplicated
  BY DEF Init, KindOK, DbMutexOK, HoldsDb, WmMutexOK, TokenNeverDuplicated, HoldsToken,
         Threads, Loaders, Reloaders, Loading
<1>4. FileOK /\ ApiOK /\ ReadOwnOK
  BY DEF Init, FileOK, ApiOK, ReadOwnOK, ReloadedSeesOwnChange, NoCustom, NotLoaded,
         Threads, Loaders, Reloaders
<1> QED
  BY <1>2, <1>3, <1>4 DEF IInv

(* SpawnCheck, in either outcome, keeps the types. *)
LEMMA SpawnCheckType ==
  ASSUME TypeOK, KindOK, NEW t \in Requests \cup Checkers, SpawnCheck(t)
  PROVE  TypeOK'
<1>1. NoReload(t) \in Steps /\ Manager(t) \in Managers /\ ruleVersions[site[t]] \in 0..MaxRev
      /\ t \in Threads /\ site[t] \in Sites
  BY DEF NoReload, TypeOK, Threads, Loaders, Reloaders, Steps, Managers, Manager
<1>2. lastRuleCheck' \in [Sites -> {"recent", "old"}]
  BY <1>1 DEF SpawnCheck, TypeOK
<1> DEFINE LocalsOK == /\ pc' \in [Threads -> Steps]
                       /\ site' \in [Threads -> Sites]
                       /\ mgr' \in [Workers -> Managers]
                       /\ mark' \in [Workers \cup Handlers -> 0..MaxRev]
<1>3. ASSUME NEW w \in Workers,
             pc' = [pc EXCEPT ![t] = NoReload(t), ![w] = "count"],
             site' = [site EXCEPT ![w] = site[t]],
             mgr' = [mgr EXCEPT ![w] = Manager(t)],
             mark' = [mark EXCEPT ![w] = ruleVersions[site[t]]]
      PROVE LocalsOK
  <2>1. w \in Threads /\ "count" \in Steps
    BY DEF Threads, Loaders, Reloaders, Steps
  <2>2. pc' \in [Threads -> Steps] /\ site' \in [Threads -> Sites]
    BY <1>1, <1>3, <2>1 DEF TypeOK
  <2>3. mgr' \in [Workers -> Managers] /\ mark' \in [Workers \cup Handlers -> 0..MaxRev]
    BY <1>1, <1>3, <2>1 DEF TypeOK
  <2> QED
    BY <2>2, <2>3
<1>4. ASSUME Goto(t, NoReload(t)), UNCHANGED <<site, mgr, mark>>
      PROVE LocalsOK
  BY <1>1, <1>4 DEF Goto, TypeOK
<1>5. LocalsOK
  <2> HIDE DEF LocalsOK
  <2> QED BY <1>3, <1>4 DEF SpawnCheck
<1> QED
  <2>1. UNCHANGED <<waf_rules, file, ruleVersions, wafInstances, wmMutex, ruleDbMutex,
                    ruleDbTryLock, got, todo>>
    BY DEF SpawnCheck, locks
  <2> QED
    BY <1>2, <1>5, <2>1 DEF TypeOK

(* Tick, with the token there or not, keeps the types. *)
LEMMA TickType ==
  ASSUME TypeOK, KindOK, NEW m \in Managers, Tick(m)
  PROVE  TypeOK'
<1>1. CheckerOf(m) \in Threads /\ HelperOf(CheckerOf(m)) \in Threads
  BY DEF CheckerOf, HelperOf, Checkers, Helpers, Threads, Loaders, Reloaders
<1>2. /\ pc' \in [Threads -> Steps]
      /\ ruleDbTryLock' \in BOOLEAN
  <2>1. {"lockdb", "select", "try", "alone"} \subseteq Steps
    BY DEF Steps
  <2>2. CASE ruleDbTryLock
    BY <1>1, <2>1, <2>2 DEF Tick, TypeOK, Goto
  <2>3. CASE ~ruleDbTryLock
    BY <1>1, <2>1, <2>3 DEF Tick, TypeOK, Goto
  <2> QED BY <2>2, <2>3
<1> QED
  BY <1>2 DEF Tick, TypeOK, shared, locals

(* QuerySites keeps the types. *)
LEMMA QuerySitesType ==
  ASSUME TypeOK, KindOK, NEW c \in Checkers, QuerySites(c)
  PROVE  TypeOK'
<1>1. todo' \in [Checkers -> SUBSET Sites]
  BY DEF QuerySites, TypeOK
<1>2. pc' \in [Threads -> Steps]
  BY DEF QuerySites, TypeOK, Goto, Threads, Loaders, Reloaders, Steps
<1> QED
  BY <1>1, <1>2 DEF QuerySites, TypeOK, shared, locks

(* CountUpdates keeps the types. *)
LEMMA CountUpdatesType ==
  ASSUME TypeOK, KindOK, NEW w \in Workers, CountUpdates(w)
  PROVE  TypeOK'
<1>1. pc' \in [Threads -> Steps]
  BY DEF CountUpdates, TypeOK, Goto, Threads, Loaders, Reloaders, Steps
<1>2. mark' \in [Workers \cup Handlers -> 0..MaxRev]
  BY BoundsAssumption DEF CountUpdates, TypeOK
<1> QED
  BY <1>1, <1>2 DEF CountUpdates, TypeOK, shared, locks

(* Every step keeps the types. *)
LEMMA NextTypeOK == TypeOK /\ KindOK /\ [Next]_vars => TypeOK'
<1> SUFFICES ASSUME TypeOK /\ KindOK, [Next]_vars PROVE TypeOK'
  OBVIOUS
<1> USE KindsDistinct, BoundsAssumption DEF TypeOK, KindOK, Goto, shared, locks, locals,
    Threads, Loaders, Reloaders, Content, Steps, Managers, Manager, NoCustom, Loading
<1>1. ASSUME NEW h \in Handlers, NEW s \in Sites, NEW x \in Statuses \cup {"absent",
    "enabled", "disabled"}, ChangeRow(h, s, x) PROVE TypeOK'
  BY <1>1 DEF ChangeRow
<1>2. ASSUME NEW h \in Handlers, Reply(h) PROVE TypeOK'
  BY <1>2 DEF Reply
<1>3. ASSUME NEW r \in Requests, NEW s \in Sites, GetWAF(r, s) PROVE TypeOK'
  BY <1>3 DEF GetWAF
<1>4. ASSUME NEW t \in Requests \cup Checkers, RecentCheck(t) PROVE TypeOK'
  BY <1>4 DEF RecentCheck, NoReload
<1>5. ASSUME NEW t \in Requests \cup Checkers, VersionMissing(t) PROVE TypeOK'
  BY <1>5 DEF VersionMissing, NeedReload
<1>6. ASSUME NEW t \in Requests \cup Checkers, SpawnCheck(t) PROVE TypeOK'
  <2> HIDE DEF TypeOK, KindOK
  <2> QED
    BY <1>6, SpawnCheckType
<1>7. ASSUME NEW w \in Workers, CountUpdates(w) PROVE TypeOK'
  <2> HIDE DEF TypeOK, KindOK
  <2> QED
    BY <1>7, CountUpdatesType
<1>8. ASSUME NEW t \in Reloaders, LockManager(t) PROVE TypeOK'
  BY <1>8 DEF LockManager
<1>9. ASSUME NEW t \in Loaders, QueryRules(t) PROVE TypeOK'
  BY <1>9 DEF QueryRules, Selected
<1>10. ASSUME NEW t \in Loaders, QueryFails(t) PROVE TypeOK'
  BY <1>10 DEF QueryFails
<1>11. ASSUME NEW t \in Loaders, TruncateFile(t) PROVE TypeOK'
  BY <1>11 DEF TruncateFile
<1>12. ASSUME NEW t \in Loaders, WriteFile(t) PROVE TypeOK'
  BY <1>12 DEF WriteFile
<1>13. ASSUME NEW t \in Loaders, WriteFails(t) PROVE TypeOK'
  BY <1>13 DEF WriteFails
<1>14. ASSUME NEW t \in Loaders, BuildWAF(t) PROVE TypeOK'
  BY <1>14 DEF BuildWAF
<1>15. ASSUME NEW t \in Loaders, BuildFails(t) PROVE TypeOK'
  BY <1>15 DEF BuildFails
<1>16. ASSUME NEW r \in Requests, StoreNewWAF(r) PROVE TypeOK'
  BY <1>16 DEF StoreNewWAF, Store
<1>17. ASSUME NEW t \in Reloaders, StoreReloaded(t) PROVE TypeOK'
  BY <1>17 DEF StoreReloaded, Store
<1>18. ASSUME NEW m \in Managers, Tick(m) PROVE TypeOK'
  <2> HIDE DEF TypeOK, KindOK
  <2> QED
    BY <1>18, TickType
<1>19. ASSUME NEW t \in Checkers \cup Helpers, LockRuleDb(t) PROVE TypeOK'
  BY <1>19 DEF LockRuleDb
<1>20. ASSUME NEW h \in Helpers, HelperTryLock(h) PROVE TypeOK'
  BY <1>20 DEF HelperTryLock
<1>21. ASSUME NEW c \in Checkers, ReceiveLock(c) PROVE TypeOK'
  BY <1>21 DEF ReceiveLock, HelperOf
<1>22. ASSUME NEW c \in Checkers, LockTimeout(c) PROVE TypeOK'
  BY <1>22 DEF LockTimeout
<1>23. ASSUME NEW c \in Checkers, QuerySites(c) PROVE TypeOK'
  <2> HIDE DEF TypeOK, KindOK
  <2> QED
    BY <1>23, QuerySitesType
<1>24. ASSUME NEW c \in Checkers, NEW s \in Sites, NextSite(c, s) PROVE TypeOK'
  BY <1>24 DEF NextSite
<1>25. ASSUME NEW c \in Checkers, UnlockRuleDb(c) PROVE TypeOK'
  BY <1>25 DEF UnlockRuleDb
<1>26. ASSUME NEW c \in Checkers, PutToken(c) PROVE TypeOK'
  BY <1>26 DEF PutToken
<1>27. ASSUME NEW s \in Sites, MinutePasses(s) PROVE TypeOK'
  BY <1>27 DEF MinutePasses
<1>28. CASE UNCHANGED vars
  BY <1>28 DEF vars
<1> HIDE DEF TypeOK, KindOK, Goto, shared, locks, locals, Content, Steps, Managers,
    Manager, NoCustom, Loading
<1> QED
  BY <1>1, <1>2, <1>3, <1>4, <1>5, <1>6, <1>7, <1>8, <1>9, <1>10, <1>11, <1>12, <1>13,
     <1>14, <1>15, <1>16, <1>17, <1>18, <1>19, <1>20, <1>21, <1>22, <1>23, <1>24, <1>25,
     <1>26, <1>27, <1>28 DEF Next, Step, RulesNeedReload, LoadRulesWithCustomRules,
     ReloadWAF, ChangeRule, CreateRule, UpdateRule, ToggleRuleStatus, DeleteRule

(* Every step keeps each kind of thread to its steps; the checker stops at the lock it holds. *)
LEMMA NextKindOK == TypeOK /\ KindOK /\ DbMutexOK /\ [Next]_vars => KindOK'
<1> SUFFICES ASSUME TypeOK /\ KindOK /\ DbMutexOK, [Next]_vars PROVE KindOK'
  OBVIOUS
<1> USE KindsDistinct, BoundsAssumption DEF TypeOK, KindOK, DbMutexOK, HoldsDb, Goto,
    Loading, Threads, Loaders, Reloaders, Checkers, Helpers, shared, locks, locals
<1>1. ASSUME NEW h \in Handlers, NEW s \in Sites, NEW x, ChangeRow(h, s, x) PROVE KindOK'
  BY <1>1 DEF ChangeRow
<1>2. ASSUME NEW h \in Handlers, Reply(h) PROVE KindOK'
  BY <1>2 DEF Reply
<1>3. ASSUME NEW r \in Requests, NEW s \in Sites, GetWAF(r, s) PROVE KindOK'
  BY <1>3 DEF GetWAF
<1>4. ASSUME NEW t \in Requests \cup Checkers, RecentCheck(t) PROVE KindOK'
  BY <1>4 DEF RecentCheck, NoReload
<1>5. ASSUME NEW t \in Requests \cup Checkers, VersionMissing(t) PROVE KindOK'
  BY <1>5 DEF VersionMissing, NeedReload
<1>6. ASSUME NEW t \in Requests \cup Checkers, SpawnCheck(t) PROVE KindOK'
  <2>1. \/ \E w \in Workers : pc[w] = "idle" /\ pc' = [pc EXCEPT ![t] = NoReload(t), ![w] = "count"]
        \/ pc' = [pc EXCEPT ![t] = NoReload(t)]
    BY <1>6 DEF SpawnCheck
  <2>2. NoReload(t) = IF t \in Requests THEN "idle" ELSE "loop"
    BY DEF NoReload
  <2>3. ASSUME NEW w \in Workers, pc' = [pc EXCEPT ![t] = NoReload(t), ![w] = "count"]
        PROVE KindOK'
    <3>1. /\ pc'[w] = "count" /\ pc'[t] = NoReload(t)
          /\ \A u \in Threads : u # t /\ u # w => pc'[u] = pc[u]
      BY <2>3
    <3>2. w \notin Requests \cup Handlers \cup Checkers \cup Helpers
      OBVIOUS
    <3> HIDE DEF Loading, TypeOK, DbMutexOK
    <3>3. \A r \in Requests : pc'[r] \in {"idle", "check", "version"} \cup Loading
      BY <2>2, <3>1, <3>2
    <3>4. \A h \in Handlers : pc'[h] \in {"idle", "lockwm", "done", "failed"} \cup Loading
      BY <2>2, <3>1, <3>2
    <3>5. \A v \in Workers : pc'[v] \in {"idle", "count", "lockwm"} \cup Loading
      BY <2>2, <3>1, <3>2
    <3>6. \A c \in Checkers : pc'[c] \in {"idle", "lockdb", "select", "alone", "sites", "loop",
                                           "check", "version", "lockwm", "gen", "put"}
      BY <2>2, <3>1, <3>2
    <3>7. \A h \in Helpers : pc'[h] \in {"idle", "try", "lockdb", "sent"}
      BY <2>2, <3>1, <3>2
    <3> QED
      BY <3>3, <3>4, <3>5, <3>6, <3>7
  <2>4. CASE pc' = [pc EXCEPT ![t] = NoReload(t)]
    BY <2>2, <2>4
  <2> QED
    BY <2>1, <2>3, <2>4
<1>7. ASSUME NEW w \in Workers, CountUpdates(w) PROVE KindOK'
  BY <1>7 DEF CountUpdates
<1>8. ASSUME NEW t \in Reloaders, LockManager(t) PROVE KindOK'
  BY <1>8 DEF LockManager
<1>9. ASSUME NEW t \in Loaders, QueryRules(t) PROVE KindOK'
  BY <1>9 DEF QueryRules, Selected
<1>10. ASSUME NEW t \in Loaders, QueryFails(t) PROVE KindOK'
  BY <1>10 DEF QueryFails
<1>11. ASSUME NEW t \in Loaders, TruncateFile(t) PROVE KindOK'
  BY <1>11 DEF TruncateFile
<1>12. ASSUME NEW t \in Loaders, WriteFile(t) PROVE KindOK'
  BY <1>12 DEF WriteFile
<1>13. ASSUME NEW t \in Loaders, WriteFails(t) PROVE KindOK'
  BY <1>13 DEF WriteFails
<1>14. ASSUME NEW t \in Loaders, BuildWAF(t) PROVE KindOK'
  BY <1>14 DEF BuildWAF
<1>15. ASSUME NEW t \in Loaders, BuildFails(t) PROVE KindOK'
  BY <1>15 DEF BuildFails
<1>16. ASSUME NEW r \in Requests, StoreNewWAF(r) PROVE KindOK'
  BY <1>16 DEF StoreNewWAF, Store
<1>17. ASSUME NEW t \in Reloaders, StoreReloaded(t) PROVE KindOK'
  BY <1>17 DEF StoreReloaded, Store
<1>18. ASSUME NEW m \in Managers, Tick(m) PROVE KindOK'
  BY <1>18 DEF Tick, CheckerOf, HelperOf
<1>19. ASSUME NEW t \in Checkers \cup Helpers, LockRuleDb(t) PROVE KindOK'
  BY <1>19 DEF LockRuleDb
<1>20. ASSUME NEW h \in Helpers, HelperTryLock(h) PROVE KindOK'
  BY <1>20 DEF HelperTryLock
<1>21. ASSUME NEW c \in Checkers, ReceiveLock(c) PROVE KindOK'
  BY <1>21 DEF ReceiveLock, HelperOf
<1>22. ASSUME NEW c \in Checkers, LockTimeout(c) PROVE KindOK'
  BY <1>22 DEF LockTimeout
<1>23. ASSUME NEW c \in Checkers, QuerySites(c) PROVE KindOK'
  BY <1>23 DEF QuerySites
<1>24. ASSUME NEW c \in Checkers, NEW s \in Sites, NextSite(c, s) PROVE KindOK'
  BY <1>24 DEF NextSite
<1>25. ASSUME NEW c \in Checkers, UnlockRuleDb(c) PROVE KindOK'
  BY <1>25 DEF UnlockRuleDb
<1>26. ASSUME NEW c \in Checkers, PutToken(c) PROVE KindOK'
  BY <1>26 DEF PutToken
<1>27. ASSUME NEW s \in Sites, MinutePasses(s) PROVE KindOK'
  BY <1>27 DEF MinutePasses
<1>28. CASE UNCHANGED vars
  BY <1>28 DEF vars
<1> HIDE DEF TypeOK, KindOK, DbMutexOK, HoldsDb, Goto, Loading, Checkers, Helpers, shared,
    locks, locals
<1> QED
  BY <1>1, <1>2, <1>3, <1>4, <1>5, <1>6, <1>7, <1>8, <1>9, <1>10, <1>11, <1>12, <1>13,
     <1>14, <1>15, <1>16, <1>17, <1>18, <1>19, <1>20, <1>21, <1>22, <1>23, <1>24, <1>25,
     <1>26, <1>27, <1>28 DEF Next, Step, RulesNeedReload, LoadRulesWithCustomRules,
     ReloadWAF, ChangeRule, CreateRule, UpdateRule, ToggleRuleStatus, DeleteRule

(* Every step keeps ruleDbMutex with its holder. *)
LEMMA NextDbMutexOK == TypeOK /\ KindOK /\ DbMutexOK /\ [Next]_vars => DbMutexOK'
<1> SUFFICES ASSUME TypeOK /\ KindOK /\ DbMutexOK, [Next]_vars PROVE DbMutexOK'
  OBVIOUS
<1> USE KindsDistinct, BoundsAssumption DEF TypeOK, KindOK, DbMutexOK, HoldsDb, Goto,
    Loading, Threads, Loaders, Reloaders, Checkers, Helpers, shared, locks, locals
<1>1. ASSUME NEW h \in Handlers, NEW s \in Sites, NEW x, ChangeRow(h, s, x) PROVE DbMutexOK'
  BY <1>1 DEF ChangeRow
<1>2. ASSUME NEW h \in Handlers, Reply(h) PROVE DbMutexOK'
  BY <1>2 DEF Reply
<1>3. ASSUME NEW r \in Requests, NEW s \in Sites, GetWAF(r, s) PROVE DbMutexOK'
  BY <1>3 DEF GetWAF
<1>4. ASSUME NEW t \in Requests \cup Checkers, RecentCheck(t) PROVE DbMutexOK'
  BY <1>4 DEF RecentCheck, NoReload
<1>5. ASSUME NEW t \in Requests \cup Checkers, VersionMissing(t) PROVE DbMutexOK'
  BY <1>5 DEF VersionMissing, NeedReload
<1>6. ASSUME NEW t \in Requests \cup Checkers, SpawnCheck(t) PROVE DbMutexOK'
  BY <1>6 DEF SpawnCheck, NoReload
<1>7. ASSUME NEW w \in Workers, CountUpdates(w) PROVE DbMutexOK'
  BY <1>7 DEF CountUpdates
<1>8. ASSUME NEW t \in Reloaders, LockManager(t) PROVE DbMutexOK'
  BY <1>8 DEF LockManager
<1>9. ASSUME NEW t \in Loaders, QueryRules(t) PROVE DbMutexOK'
  BY <1>9 DEF QueryRules, Selected
<1>10. ASSUME NEW t \in Loaders, QueryFails(t) PROVE DbMutexOK'
  BY <1>10 DEF QueryFails
<1>11. ASSUME NEW t \in Loaders, TruncateFile(t) PROVE DbMutexOK'
  BY <1>11 DEF TruncateFile
<1>12. ASSUME NEW t \in Loaders, WriteFile(t) PROVE DbMutexOK'
  BY <1>12 DEF WriteFile
<1>13. ASSUME NEW t \in Loaders, WriteFails(t) PROVE DbMutexOK'
  BY <1>13 DEF WriteFails
<1>14. ASSUME NEW t \in Loaders, BuildWAF(t) PROVE DbMutexOK'
  BY <1>14 DEF BuildWAF
<1>15. ASSUME NEW t \in Loaders, BuildFails(t) PROVE DbMutexOK'
  BY <1>15 DEF BuildFails
<1>16. ASSUME NEW r \in Requests, StoreNewWAF(r) PROVE DbMutexOK'
  BY <1>16 DEF StoreNewWAF, Store
<1>17. ASSUME NEW t \in Reloaders, StoreReloaded(t) PROVE DbMutexOK'
  BY <1>17 DEF StoreReloaded, Store
<1>18. ASSUME NEW m \in Managers, Tick(m) PROVE DbMutexOK'
  BY <1>18 DEF Tick, CheckerOf, HelperOf
<1>19. ASSUME NEW t \in Checkers \cup Helpers, LockRuleDb(t) PROVE DbMutexOK'
  BY <1>19 DEF LockRuleDb
<1>20. ASSUME NEW h \in Helpers, HelperTryLock(h) PROVE DbMutexOK'
  BY <1>20 DEF HelperTryLock
<1>21. ASSUME NEW c \in Checkers, ReceiveLock(c) PROVE DbMutexOK'
  BY <1>21 DEF ReceiveLock, HelperOf
<1>22. ASSUME NEW c \in Checkers, LockTimeout(c) PROVE DbMutexOK'
  BY <1>22 DEF LockTimeout
<1>23. ASSUME NEW c \in Checkers, QuerySites(c) PROVE DbMutexOK'
  BY <1>23 DEF QuerySites
<1>24. ASSUME NEW c \in Checkers, NEW s \in Sites, NextSite(c, s) PROVE DbMutexOK'
  BY <1>24 DEF NextSite
<1>25. ASSUME NEW c \in Checkers, UnlockRuleDb(c) PROVE DbMutexOK'
  BY <1>25 DEF UnlockRuleDb
<1>26. ASSUME NEW c \in Checkers, PutToken(c) PROVE DbMutexOK'
  BY <1>26 DEF PutToken
<1>27. ASSUME NEW s \in Sites, MinutePasses(s) PROVE DbMutexOK'
  BY <1>27 DEF MinutePasses
<1>28. CASE UNCHANGED vars
  BY <1>28 DEF vars
<1> HIDE DEF TypeOK, KindOK, DbMutexOK, HoldsDb, Goto, Loading, Checkers, Helpers, shared,
    locks, locals
<1> QED
  BY <1>1, <1>2, <1>3, <1>4, <1>5, <1>6, <1>7, <1>8, <1>9, <1>10, <1>11, <1>12, <1>13,
     <1>14, <1>15, <1>16, <1>17, <1>18, <1>19, <1>20, <1>21, <1>22, <1>23, <1>24, <1>25,
     <1>26, <1>27, <1>28 DEF Next, Step, RulesNeedReload, LoadRulesWithCustomRules,
     ReloadWAF, ChangeRule, CreateRule, UpdateRule, ToggleRuleStatus, DeleteRule

(* Every step keeps the token single. *)
LEMMA NextToken == TypeOK /\ KindOK /\ DbMutexOK /\ TokenNeverDuplicated /\ [Next]_vars =>
    TokenNeverDuplicated'
<1> SUFFICES ASSUME TypeOK /\ KindOK /\ DbMutexOK /\ TokenNeverDuplicated, [Next]_vars
    PROVE TokenNeverDuplicated'
  OBVIOUS
<1> USE KindsDistinct, BoundsAssumption DEF TypeOK, TokenNeverDuplicated, HoldsToken,
    KindOK, DbMutexOK, HoldsDb, Goto, Loading, Threads, Loaders, Reloaders, Checkers,
    Helpers, shared, locks, locals
<1>1. ASSUME NEW h \in Handlers, NEW s \in Sites, NEW x, ChangeRow(h, s, x) PROVE
    TokenNeverDuplicated'
  BY <1>1 DEF ChangeRow
<1>2. ASSUME NEW h \in Handlers, Reply(h) PROVE TokenNeverDuplicated'
  BY <1>2 DEF Reply
<1>3. ASSUME NEW r \in Requests, NEW s \in Sites, GetWAF(r, s) PROVE TokenNeverDuplicated'
  BY <1>3 DEF GetWAF
<1>4. ASSUME NEW t \in Requests \cup Checkers, RecentCheck(t) PROVE TokenNeverDuplicated'
  <2>1. NoReload(t) \in {"idle", "loop"} /\ (t \in Checkers => NoReload(t) = "loop")
    BY DEF NoReload
  <2>2. \A u \in Threads : HoldsToken(u)' => HoldsToken(u)
    BY <1>4, <2>1 DEF RecentCheck
  <2>3. UNCHANGED ruleDbTryLock
    BY <1>4 DEF RecentCheck
  <2> QED
    BY <2>2, <2>3
<1>5. ASSUME NEW t \in Requests \cup Checkers, VersionMissing(t) PROVE TokenNeverDuplicated'
  BY <1>5 DEF VersionMissing, NeedReload
<1>6. ASSUME NEW t \in Requests \cup Checkers, SpawnCheck(t) PROVE TokenNeverDuplicated'
  BY <1>6 DEF SpawnCheck, NoReload
<1>7. ASSUME NEW w \in Workers, CountUpdates(w) PROVE TokenNeverDuplicated'
  BY <1>7 DEF CountUpdates
<1>8. ASSUME NEW t \in Reloaders, LockManager(t) PROVE TokenNeverDuplicated'
  BY <1>8 DEF LockManager
<1>9. ASSUME NEW t \in Loaders, QueryRules(t) PROVE TokenNeverDuplicated'
  BY <1>9 DEF QueryRules, Selected
<1>10. ASSUME NEW t \in Loaders, QueryFails(t) PROVE TokenNeverDuplicated'
  BY <1>10 DEF QueryFails
<1>11. ASSUME NEW t \in Loaders, TruncateFile(t) PROVE TokenNeverDuplicated'
  BY <1>11 DEF TruncateFile
<1>12. ASSUME NEW t \in Loaders, WriteFile(t) PROVE TokenNeverDuplicated'
  BY <1>12 DEF WriteFile
<1>13. ASSUME NEW t \in Loaders, WriteFails(t) PROVE TokenNeverDuplicated'
  BY <1>13 DEF WriteFails
<1>14. ASSUME NEW t \in Loaders, BuildWAF(t) PROVE TokenNeverDuplicated'
  BY <1>14 DEF BuildWAF
<1>15. ASSUME NEW t \in Loaders, BuildFails(t) PROVE TokenNeverDuplicated'
  BY <1>15 DEF BuildFails
<1>16. ASSUME NEW r \in Requests, StoreNewWAF(r) PROVE TokenNeverDuplicated'
  BY <1>16 DEF StoreNewWAF, Store
<1>17. ASSUME NEW t \in Reloaders, StoreReloaded(t) PROVE TokenNeverDuplicated'
  BY <1>17 DEF StoreReloaded, Store
<1>18. ASSUME NEW m \in Managers, Tick(m) PROVE TokenNeverDuplicated'
  BY <1>18 DEF Tick, CheckerOf, HelperOf
<1>19. ASSUME NEW t \in Checkers \cup Helpers, LockRuleDb(t) PROVE TokenNeverDuplicated'
  BY <1>19 DEF LockRuleDb
<1>20. ASSUME NEW h \in Helpers, HelperTryLock(h) PROVE TokenNeverDuplicated'
  BY <1>20 DEF HelperTryLock
<1>21. ASSUME NEW c \in Checkers, ReceiveLock(c) PROVE TokenNeverDuplicated'
  BY <1>21 DEF ReceiveLock, HelperOf
<1>22. ASSUME NEW c \in Checkers, LockTimeout(c) PROVE TokenNeverDuplicated'
  BY <1>22 DEF LockTimeout
<1>23. ASSUME NEW c \in Checkers, QuerySites(c) PROVE TokenNeverDuplicated'
  BY <1>23 DEF QuerySites
<1>24. ASSUME NEW c \in Checkers, NEW s \in Sites, NextSite(c, s) PROVE
    TokenNeverDuplicated'
  BY <1>24 DEF NextSite
<1>25. ASSUME NEW c \in Checkers, UnlockRuleDb(c) PROVE TokenNeverDuplicated'
  BY <1>25 DEF UnlockRuleDb
<1>26. ASSUME NEW c \in Checkers, PutToken(c) PROVE TokenNeverDuplicated'
  BY <1>26 DEF PutToken
<1>27. ASSUME NEW s \in Sites, MinutePasses(s) PROVE TokenNeverDuplicated'
  BY <1>27 DEF MinutePasses
<1>28. CASE UNCHANGED vars
  BY <1>28 DEF vars
<1> HIDE DEF TypeOK, TokenNeverDuplicated, HoldsToken, KindOK, DbMutexOK, HoldsDb, Goto,
    Loading, Checkers, Helpers, shared, locks, locals
<1> QED
  BY <1>1, <1>2, <1>3, <1>4, <1>5, <1>6, <1>7, <1>8, <1>9, <1>10, <1>11, <1>12, <1>13,
     <1>14, <1>15, <1>16, <1>17, <1>18, <1>19, <1>20, <1>21, <1>22, <1>23, <1>24, <1>25,
     <1>26, <1>27, <1>28 DEF Next, Step, RulesNeedReload, LoadRulesWithCustomRules,
     ReloadWAF, ChangeRule, CreateRule, UpdateRule, ToggleRuleStatus, DeleteRule

(* Every step keeps wm.mutex with its holder. *)
LEMMA NextWm == TypeOK /\ KindOK /\ DbMutexOK /\ WmMutexOK /\ [Next]_vars => WmMutexOK'
<1> SUFFICES ASSUME TypeOK /\ KindOK /\ DbMutexOK /\ WmMutexOK, [Next]_vars PROVE WmMutexOK'
  OBVIOUS
<1> USE KindsDistinct, BoundsAssumption DEF TypeOK, WmMutexOK, Manager, Managers, KindOK,
    DbMutexOK, HoldsDb, Goto, Loading, Threads, Loaders, Reloaders, Checkers, Helpers,
    shared, locks, locals
<1>1. ASSUME NEW h \in Handlers, NEW s \in Sites, NEW x, ChangeRow(h, s, x) PROVE WmMutexOK'
  BY <1>1 DEF ChangeRow
<1>2. ASSUME NEW h \in Handlers, Reply(h) PROVE WmMutexOK'
  BY <1>2 DEF Reply
<1>3. ASSUME NEW r \in Requests, NEW s \in Sites, GetWAF(r, s) PROVE WmMutexOK'
  BY <1>3 DEF GetWAF
<1>4. ASSUME NEW t \in Requests \cup Checkers, RecentCheck(t) PROVE WmMutexOK'
  BY <1>4 DEF RecentCheck, NoReload
<1>5. ASSUME NEW t \in Requests \cup Checkers, VersionMissing(t) PROVE WmMutexOK'
  BY <1>5 DEF VersionMissing, NeedReload
<1>6. ASSUME NEW t \in Requests \cup Checkers, SpawnCheck(t) PROVE WmMutexOK'
  BY <1>6 DEF SpawnCheck, NoReload
<1>7. ASSUME NEW w \in Workers, CountUpdates(w) PROVE WmMutexOK'
  BY <1>7 DEF CountUpdates
<1>8. ASSUME NEW t \in Reloaders, LockManager(t) PROVE WmMutexOK'
  BY <1>8 DEF LockManager
<1>9. ASSUME NEW t \in Loaders, QueryRules(t) PROVE WmMutexOK'
  BY <1>9 DEF QueryRules, Selected
<1>10. ASSUME NEW t \in Loaders, QueryFails(t) PROVE WmMutexOK'
  BY <1>10 DEF QueryFails
<1>11. ASSUME NEW t \in Loaders, TruncateFile(t) PROVE WmMutexOK'
  BY <1>11 DEF TruncateFile
<1>12. ASSUME NEW t \in Loaders, WriteFile(t) PROVE WmMutexOK'
  BY <1>12 DEF WriteFile
<1>13. ASSUME NEW t \in Loaders, WriteFails(t) PROVE WmMutexOK'
  BY <1>13 DEF WriteFails
<1>14. ASSUME NEW t \in Loaders, BuildWAF(t) PROVE WmMutexOK'
  BY <1>14 DEF BuildWAF
<1>15. ASSUME NEW t \in Loaders, BuildFails(t) PROVE WmMutexOK'
  BY <1>15 DEF BuildFails
<1>16. ASSUME NEW r \in Requests, StoreNewWAF(r) PROVE WmMutexOK'
  BY <1>16 DEF StoreNewWAF, Store
<1>17. ASSUME NEW t \in Reloaders, StoreReloaded(t) PROVE WmMutexOK'
  BY <1>17 DEF StoreReloaded, Store
<1>18. ASSUME NEW m \in Managers, Tick(m) PROVE WmMutexOK'
  BY <1>18 DEF Tick, CheckerOf, HelperOf
<1>19. ASSUME NEW t \in Checkers \cup Helpers, LockRuleDb(t) PROVE WmMutexOK'
  BY <1>19 DEF LockRuleDb
<1>20. ASSUME NEW h \in Helpers, HelperTryLock(h) PROVE WmMutexOK'
  BY <1>20 DEF HelperTryLock
<1>21. ASSUME NEW c \in Checkers, ReceiveLock(c) PROVE WmMutexOK'
  BY <1>21 DEF ReceiveLock, HelperOf
<1>22. ASSUME NEW c \in Checkers, LockTimeout(c) PROVE WmMutexOK'
  BY <1>22 DEF LockTimeout
<1>23. ASSUME NEW c \in Checkers, QuerySites(c) PROVE WmMutexOK'
  BY <1>23 DEF QuerySites
<1>24. ASSUME NEW c \in Checkers, NEW s \in Sites, NextSite(c, s) PROVE WmMutexOK'
  BY <1>24 DEF NextSite
<1>25. ASSUME NEW c \in Checkers, UnlockRuleDb(c) PROVE WmMutexOK'
  BY <1>25 DEF UnlockRuleDb
<1>26. ASSUME NEW c \in Checkers, PutToken(c) PROVE WmMutexOK'
  BY <1>26 DEF PutToken
<1>27. ASSUME NEW s \in Sites, MinutePasses(s) PROVE WmMutexOK'
  BY <1>27 DEF MinutePasses
<1>28. CASE UNCHANGED vars
  BY <1>28 DEF vars
<1> HIDE DEF TypeOK, WmMutexOK, Manager, Managers, KindOK, DbMutexOK, HoldsDb, Goto,
    Loading, Checkers, Helpers, shared, locks, locals
<1> QED
  BY <1>1, <1>2, <1>3, <1>4, <1>5, <1>6, <1>7, <1>8, <1>9, <1>10, <1>11, <1>12, <1>13,
     <1>14, <1>15, <1>16, <1>17, <1>18, <1>19, <1>20, <1>21, <1>22, <1>23, <1>24, <1>25,
     <1>26, <1>27, <1>28 DEF Next, Step, RulesNeedReload, LoadRulesWithCustomRules,
     ReloadWAF, ChangeRule, CreateRule, UpdateRule, ToggleRuleStatus, DeleteRule

(* Every step keeps files between what is to be written and the table. *)
LEMMA NextFile == TypeOK /\ KindOK /\ DbMutexOK /\ FileOK /\ [Next]_vars => FileOK'
<1> SUFFICES ASSUME TypeOK /\ KindOK /\ DbMutexOK /\ FileOK, [Next]_vars PROVE FileOK'
  OBVIOUS
<1> USE KindsDistinct, BoundsAssumption DEF TypeOK, FileOK, Manager, Content, NoCustom,
    KindOK, DbMutexOK, HoldsDb, Goto, Loading, Threads, Loaders, Reloaders, Checkers,
    Helpers, shared, locks, locals
<1>1. ASSUME NEW h \in Handlers, NEW s \in Sites, NEW x, ChangeRow(h, s, x) PROVE FileOK'
  BY <1>1 DEF ChangeRow
<1>2. ASSUME NEW h \in Handlers, Reply(h) PROVE FileOK'
  BY <1>2 DEF Reply
<1>3. ASSUME NEW r \in Requests, NEW s \in Sites, GetWAF(r, s) PROVE FileOK'
  BY <1>3 DEF GetWAF
<1>4. ASSUME NEW t \in Requests \cup Checkers, RecentCheck(t) PROVE FileOK'
  BY <1>4 DEF RecentCheck, NoReload
<1>5. ASSUME NEW t \in Requests \cup Checkers, VersionMissing(t) PROVE FileOK'
  BY <1>5 DEF VersionMissing, NeedReload
<1>6. ASSUME NEW t \in Requests \cup Checkers, SpawnCheck(t) PROVE FileOK'
  <2>1. UNCHANGED <<waf_rules, file, wafInstances, got>>
    BY <1>6 DEF SpawnCheck
  <2>2. NoReload(t) \in {"idle", "loop"}
    BY DEF NoReload
  <2>3. \A u \in Loaders : pc'[u] \in {"trunc", "write", "store"} =>
           pc'[u] = pc[u] /\ site'[u] = site[u] /\ Manager(u)' = Manager(u)
    <3>1. ASSUME NEW w \in Workers, pc[w] = "idle",
                 pc' = [pc EXCEPT ![t] = NoReload(t), ![w] = "count"],
                 site' = [site EXCEPT ![w] = site[t]],
                 mgr' = [mgr EXCEPT ![w] = Manager(t)],
                 NEW u \in Loaders, pc'[u] \in {"trunc", "write", "store"}
          PROVE  pc'[u] = pc[u] /\ site'[u] = site[u] /\ Manager(u)' = Manager(u)
      <4>1. u # w /\ u # t
        BY <2>2, <3>1
      <4> QED
        BY <3>1, <4>1
    <3>2. ASSUME Goto(t, NoReload(t)), UNCHANGED <<site, mgr>>,
                 NEW u \in Loaders, pc'[u] \in {"trunc", "write", "store"}
          PROVE  pc'[u] = pc[u] /\ site'[u] = site[u] /\ Manager(u)' = Manager(u)
      BY <2>2, <3>2
    <3> QED
      BY <1>6, <3>1, <3>2 DEF SpawnCheck
  <2> QED
    BY <2>1, <2>3
<1>7. ASSUME NEW w \in Workers, CountUpdates(w) PROVE FileOK'
  BY <1>7 DEF CountUpdates
<1>8. ASSUME NEW t \in Reloaders, LockManager(t) PROVE FileOK'
  BY <1>8 DEF LockManager
<1>9. ASSUME NEW t \in Loaders, QueryRules(t) PROVE FileOK'
  BY <1>9 DEF QueryRules, Selected
<1>10. ASSUME NEW t \in Loaders, QueryFails(t) PROVE FileOK'
  BY <1>10 DEF QueryFails
<1>11. ASSUME NEW t \in Loaders, TruncateFile(t) PROVE FileOK'
  BY <1>11 DEF TruncateFile
<1>12. ASSUME NEW t \in Loaders, WriteFile(t) PROVE FileOK'
  BY <1>12 DEF WriteFile
<1>13. ASSUME NEW t \in Loaders, WriteFails(t) PROVE FileOK'
  BY <1>13 DEF WriteFails
<1>14. ASSUME NEW t \in Loaders, BuildWAF(t) PROVE FileOK'
  BY <1>14 DEF BuildWAF
<1>15. ASSUME NEW t \in Loaders, BuildFails(t) PROVE FileOK'
  BY <1>15 DEF BuildFails
<1>16. ASSUME NEW r \in Requests, StoreNewWAF(r) PROVE FileOK'
  BY <1>16 DEF StoreNewWAF, Store
<1>17. ASSUME NEW t \in Reloaders, StoreReloaded(t) PROVE FileOK'
  BY <1>17 DEF StoreReloaded, Store
<1>18. ASSUME NEW m \in Managers, Tick(m) PROVE FileOK'
  BY <1>18 DEF Tick, CheckerOf, HelperOf
<1>19. ASSUME NEW t \in Checkers \cup Helpers, LockRuleDb(t) PROVE FileOK'
  BY <1>19 DEF LockRuleDb
<1>20. ASSUME NEW h \in Helpers, HelperTryLock(h) PROVE FileOK'
  BY <1>20 DEF HelperTryLock
<1>21. ASSUME NEW c \in Checkers, ReceiveLock(c) PROVE FileOK'
  BY <1>21 DEF ReceiveLock, HelperOf
<1>22. ASSUME NEW c \in Checkers, LockTimeout(c) PROVE FileOK'
  BY <1>22 DEF LockTimeout
<1>23. ASSUME NEW c \in Checkers, QuerySites(c) PROVE FileOK'
  BY <1>23 DEF QuerySites
<1>24. ASSUME NEW c \in Checkers, NEW s \in Sites, NextSite(c, s) PROVE FileOK'
  BY <1>24 DEF NextSite
<1>25. ASSUME NEW c \in Checkers, UnlockRuleDb(c) PROVE FileOK'
  BY <1>25 DEF UnlockRuleDb
<1>26. ASSUME NEW c \in Checkers, PutToken(c) PROVE FileOK'
  BY <1>26 DEF PutToken
<1>27. ASSUME NEW s \in Sites, MinutePasses(s) PROVE FileOK'
  BY <1>27 DEF MinutePasses
<1>28. CASE UNCHANGED vars
  BY <1>28 DEF vars
<1> HIDE DEF TypeOK, FileOK, Manager, Content, NoCustom, KindOK, DbMutexOK, HoldsDb, Goto,
    Loading, Checkers, Helpers, shared, locks, locals
<1> QED
  BY <1>1, <1>2, <1>3, <1>4, <1>5, <1>6, <1>7, <1>8, <1>9, <1>10, <1>11, <1>12, <1>13,
     <1>14, <1>15, <1>16, <1>17, <1>18, <1>19, <1>20, <1>21, <1>22, <1>23, <1>24, <1>25,
     <1>26, <1>27, <1>28 DEF Next, Step, RulesNeedReload, LoadRulesWithCustomRules,
     ReloadWAF, ChangeRule, CreateRule, UpdateRule, ToggleRuleStatus, DeleteRule

(* Every step keeps instances behind files. *)
LEMMA NextApi == TypeOK /\ KindOK /\ DbMutexOK /\ WmMutexOK /\ FileOK /\ ApiOK /\
    [Next]_vars => ApiOK'
<1> SUFFICES ASSUME TypeOK /\ KindOK /\ DbMutexOK /\ WmMutexOK /\ FileOK /\ ApiOK,
    [Next]_vars PROVE ApiOK'
  OBVIOUS
<1> USE KindsDistinct, BoundsAssumption DEF TypeOK, WmMutexOK, FileOK, ApiOK, Manager,
    Managers, Content, NoCustom, KindOK, DbMutexOK, HoldsDb, Goto, Loading, Threads,
    Loaders, Reloaders, Checkers, Helpers, shared, locks, locals
<1>1. ASSUME NEW h \in Handlers, NEW s \in Sites, NEW x, ChangeRow(h, s, x) PROVE ApiOK'
  BY <1>1 DEF ChangeRow
<1>2. ASSUME NEW h \in Handlers, Reply(h) PROVE ApiOK'
  BY <1>2 DEF Reply
<1>3. ASSUME NEW r \in Requests, NEW s \in Sites, GetWAF(r, s) PROVE ApiOK'
  BY <1>3 DEF GetWAF
<1>4. ASSUME NEW t \in Requests \cup Checkers, RecentCheck(t) PROVE ApiOK'
  BY <1>4 DEF RecentCheck, NoReload
<1>5. ASSUME NEW t \in Requests \cup Checkers, VersionMissing(t) PROVE ApiOK'
  BY <1>5 DEF VersionMissing, NeedReload
<1>6. ASSUME NEW t \in Requests \cup Checkers, SpawnCheck(t) PROVE ApiOK'
  <2>1. UNCHANGED <<waf_rules, file, wafInstances, got>>
    BY <1>6 DEF SpawnCheck
  <2>2. NoReload(t) \in {"idle", "loop"}
    BY DEF NoReload
  <2>3. \A u \in Loaders : pc'[u] \in {"trunc", "write", "store"} =>
           pc'[u] = pc[u] /\ site'[u] = site[u] /\ Manager(u)' = Manager(u)
    <3>1. ASSUME NEW w \in Workers, pc[w] = "idle",
                 pc' = [pc EXCEPT ![t] = NoReload(t), ![w] = "count"],
                 site' = [site EXCEPT ![w] = site[t]],
                 mgr' = [mgr EXCEPT ![w] = Manager(t)],
                 NEW u \in Loaders, pc'[u] \in {"trunc", "write", "store"}
          PROVE  pc'[u] = pc[u] /\ site'[u] = site[u] /\ Manager(u)' = Manager(u)
      <4>1. u # w /\ u # t
        BY <2>2, <3>1
      <4> QED
        BY <3>1, <4>1
    <3>2. ASSUME Goto(t, NoReload(t)), UNCHANGED <<site, mgr>>,
                 NEW u \in Loaders, pc'[u] \in {"trunc", "write", "store"}
          PROVE  pc'[u] = pc[u] /\ site'[u] = site[u] /\ Manager(u)' = Manager(u)
      BY <2>2, <3>2
    <3> QED
      BY <1>6, <3>1, <3>2 DEF SpawnCheck
  <2> QED
    BY <2>1, <2>3
<1>7. ASSUME NEW w \in Workers, CountUpdates(w) PROVE ApiOK'
  <2>1. UNCHANGED <<waf_rules, file, wafInstances, got, site, mgr>>
    BY <1>7 DEF CountUpdates
  <2>2. \A u \in Loaders : pc'[u] = "store" => pc[u] = "store"
    BY <1>7 DEF CountUpdates
  <2> QED
    BY <2>1, <2>2
<1>8. ASSUME NEW t \in Reloaders, LockManager(t) PROVE ApiOK'
  BY <1>8 DEF LockManager
<1>9. ASSUME NEW t \in Loaders, QueryRules(t) PROVE ApiOK'
  BY <1>9 DEF QueryRules, Selected
<1>10. ASSUME NEW t \in Loaders, QueryFails(t) PROVE ApiOK'
  BY <1>10 DEF QueryFails
<1>11. ASSUME NEW t \in Loaders, TruncateFile(t) PROVE ApiOK'
  BY <1>11 DEF TruncateFile
<1>12. ASSUME NEW t \in Loaders, WriteFile(t) PROVE ApiOK'
  BY <1>12 DEF WriteFile
<1>13. ASSUME NEW t \in Loaders, WriteFails(t) PROVE ApiOK'
  BY <1>13 DEF WriteFails
<1>14. ASSUME NEW t \in Loaders, BuildWAF(t) PROVE ApiOK'
  BY <1>14 DEF BuildWAF
<1>15. ASSUME NEW t \in Loaders, BuildFails(t) PROVE ApiOK'
  BY <1>15 DEF BuildFails
<1>16. ASSUME NEW r \in Requests, StoreNewWAF(r) PROVE ApiOK'
  BY <1>16 DEF StoreNewWAF, Store
<1>17. ASSUME NEW t \in Reloaders, StoreReloaded(t) PROVE ApiOK'
  BY <1>17 DEF StoreReloaded, Store
<1>18. ASSUME NEW m \in Managers, Tick(m) PROVE ApiOK'
  BY <1>18 DEF Tick, CheckerOf, HelperOf
<1>19. ASSUME NEW t \in Checkers \cup Helpers, LockRuleDb(t) PROVE ApiOK'
  BY <1>19 DEF LockRuleDb
<1>20. ASSUME NEW h \in Helpers, HelperTryLock(h) PROVE ApiOK'
  BY <1>20 DEF HelperTryLock
<1>21. ASSUME NEW c \in Checkers, ReceiveLock(c) PROVE ApiOK'
  BY <1>21 DEF ReceiveLock, HelperOf
<1>22. ASSUME NEW c \in Checkers, LockTimeout(c) PROVE ApiOK'
  BY <1>22 DEF LockTimeout
<1>23. ASSUME NEW c \in Checkers, QuerySites(c) PROVE ApiOK'
  BY <1>23 DEF QuerySites
<1>24. ASSUME NEW c \in Checkers, NEW s \in Sites, NextSite(c, s) PROVE ApiOK'
  BY <1>24 DEF NextSite
<1>25. ASSUME NEW c \in Checkers, UnlockRuleDb(c) PROVE ApiOK'
  BY <1>25 DEF UnlockRuleDb
<1>26. ASSUME NEW c \in Checkers, PutToken(c) PROVE ApiOK'
  BY <1>26 DEF PutToken
<1>27. ASSUME NEW s \in Sites, MinutePasses(s) PROVE ApiOK'
  BY <1>27 DEF MinutePasses
<1>28. CASE UNCHANGED vars
  BY <1>28 DEF vars
<1> HIDE DEF TypeOK, WmMutexOK, FileOK, ApiOK, Manager, Managers, Content, NoCustom,
    KindOK, DbMutexOK, HoldsDb, Goto, Loading, Checkers, Helpers, shared, locks, locals
<1> QED
  BY <1>1, <1>2, <1>3, <1>4, <1>5, <1>6, <1>7, <1>8, <1>9, <1>10, <1>11, <1>12, <1>13,
     <1>14, <1>15, <1>16, <1>17, <1>18, <1>19, <1>20, <1>21, <1>22, <1>23, <1>24, <1>25,
     <1>26, <1>27, <1>28 DEF Next, Step, RulesNeedReload, LoadRulesWithCustomRules,
     ReloadWAF, ChangeRule, CreateRule, UpdateRule, ToggleRuleStatus, DeleteRule

(* Every step keeps a handler's own change in sight. *)
LEMMA NextRead == TypeOK /\ KindOK /\ DbMutexOK /\ WmMutexOK /\ FileOK /\ ApiOK /\
    ReadOwnOK /\ [Next]_vars => ReadOwnOK'
<1> SUFFICES ASSUME TypeOK /\ KindOK /\ DbMutexOK /\ WmMutexOK /\ FileOK /\ ApiOK /\
    ReadOwnOK, [Next]_vars PROVE ReadOwnOK'
  OBVIOUS
<1> USE KindsDistinct, BoundsAssumption DEF TypeOK, WmMutexOK, FileOK, ApiOK, ReadOwnOK,
    ReloadedSeesOwnChange, Manager, Managers, Content, NoCustom, KindOK, DbMutexOK,
    HoldsDb, Goto, Loading, Threads, Loaders, Reloaders, Checkers, Helpers, shared, locks,
    locals
<1>1. ASSUME NEW h \in Handlers, NEW s \in Sites, NEW x, ChangeRow(h, s, x) PROVE ReadOwnOK'
  BY <1>1 DEF ChangeRow
<1>2. ASSUME NEW h \in Handlers, Reply(h) PROVE ReadOwnOK'
  BY <1>2 DEF Reply
<1>3. ASSUME NEW r \in Requests, NEW s \in Sites, GetWAF(r, s) PROVE ReadOwnOK'
  BY <1>3 DEF GetWAF
<1>4. ASSUME NEW t \in Requests \cup Checkers, RecentCheck(t) PROVE ReadOwnOK'
  BY <1>4 DEF RecentCheck, NoReload
<1>5. ASSUME NEW t \in Requests \cup Checkers, VersionMissing(t) PROVE ReadOwnOK'
  BY <1>5 DEF VersionMissing, NeedReload
<1>6. ASSUME NEW t \in Requests \cup Checkers, SpawnCheck(t) PROVE ReadOwnOK'
  BY <1>6 DEF SpawnCheck, NoReload
<1>7. ASSUME NEW w \in Workers, CountUpdates(w) PROVE ReadOwnOK'
  BY <1>7 DEF CountUpdates
<1>8. ASSUME NEW t \in Reloaders, LockManager(t) PROVE ReadOwnOK'
  BY <1>8 DEF LockManager
<1>9. ASSUME NEW t \in Loaders, QueryRules(t) PROVE ReadOwnOK'
  <2> DEFINE s == site[t]
  <2>1. /\ pc' = [pc EXCEPT ![t] = "trunc"] /\ got'[t].rev = waf_rules[s].rev
        /\ \A u \in Loaders : u # t => got'[u] = got[u]
        /\ UNCHANGED <<waf_rules, file, wafInstances, site, mgr, mark>>
    BY <1>9 DEF QueryRules, Selected
  <2>2. ASSUME NEW h \in Handlers PROVE mark[h] \in Int /\ waf_rules[site[h]].rev \in Int
    BY <2>2
  <2>3. ReloadedSeesOwnChange'
    BY <2>1
  <2>4. \A h \in Handlers :
          /\ pc'[h] \notin {"idle", "failed"} => mark[h] <= waf_rules[site[h]].rev
          /\ pc'[h] \in {"trunc", "write"} => mark[h] <= got'[h].rev
          /\ pc'[h] = "build" => mark[h] <= file[site[h]].rules.rev
          /\ pc'[h] = "store" => got'[h] = NoCustom \/ mark[h] <= got'[h].rev
    BY <1>9, <2>1, <2>2 DEF QueryRules
  <2>5. ASSUME NEW h \in Handlers, NEW u \in Reloaders,
               pc'[h] = "done", Manager(u) = "api", site[u] = site[h]
        PROVE  /\ pc'[u] \in {"trunc", "write"} => mark[h] <= got'[u].rev
               /\ pc'[u] = "build" => mark[h] <= file[site[u]].rules.rev
               /\ pc'[u] = "store" => got'[u] = NoCustom \/ mark[h] <= got'[u].rev
    <3>1. h # t /\ pc[h] = "done" /\ mark[h] <= waf_rules[site[h]].rev
      BY <2>1, <2>5
    <3>2. CASE u = t
      BY <2>1, <2>5, <3>1, <3>2
    <3>3. CASE u # t
      <4>1. pc'[u] = pc[u] /\ got'[u] = got[u]
        BY <2>1, <3>3
      <4> QED
        BY <2>5, <3>1, <4>1
    <3> QED
      BY <3>2, <3>3
  <2> QED
    BY <2>1, <2>3, <2>4, <2>5
<1>10. ASSUME NEW t \in Loaders, QueryFails(t) PROVE ReadOwnOK'
  BY <1>10 DEF QueryFails
<1>11. ASSUME NEW t \in Loaders, TruncateFile(t) PROVE ReadOwnOK'
  BY <1>11 DEF TruncateFile
<1>12. ASSUME NEW t \in Loaders, WriteFile(t) PROVE ReadOwnOK'
  BY <1>12 DEF WriteFile
<1>13. ASSUME NEW t \in Loaders, WriteFails(t) PROVE ReadOwnOK'
  BY <1>13 DEF WriteFails
<1>14. ASSUME NEW t \in Loaders, BuildWAF(t) PROVE ReadOwnOK'
  <2>1. /\ pc' = [pc EXCEPT ![t] = "store"]
        /\ got'[t] = NoCustom \/ (pc[t] = "build" /\ got'[t] = file[site[t]].rules)
        /\ \A u \in Loaders : u # t => got'[u] = got[u] /\ pc'[u] = pc[u]
        /\ UNCHANGED <<waf_rules, file, wafInstances, site, mgr, mark>>
        /\ pc[t] \in {"build", "bare"}
    BY <1>14 DEF BuildWAF
  <2>2. ASSUME NEW h \in Handlers
        PROVE  /\ pc'[h] \notin {"idle", "failed"} => mark[h] <= waf_rules[site[h]].rev
               /\ pc'[h] \in {"trunc", "write"} => mark[h] <= got'[h].rev
               /\ pc'[h] = "build" => mark[h] <= file[site[h]].rules.rev
               /\ pc'[h] = "store" => got'[h] = NoCustom \/ mark[h] <= got'[h].rev
    <3>1. CASE h = t
      BY <2>1, <3>1
    <3>2. CASE h # t
      <4>1. pc'[h] = pc[h] /\ got'[h] = got[h]
        BY <2>1, <3>2
      <4> QED
        BY <4>1
    <3> QED
      BY <3>1, <3>2
  <2>3. ReloadedSeesOwnChange'
    BY <2>1
  <2>4. ASSUME NEW h \in Handlers, NEW u \in Reloaders,
               pc'[h] = "done", Manager(u) = "api", site[u] = site[h]
        PROVE  /\ pc'[u] \in {"trunc", "write"} => mark[h] <= got'[u].rev
               /\ pc'[u] = "build" => mark[h] <= file[site[u]].rules.rev
               /\ pc'[u] = "store" => got'[u] = NoCustom \/ mark[h] <= got'[u].rev
    <3>1. h # t /\ pc[h] = "done"
      BY <2>1, <2>4
    <3>2. CASE u = t
      <4>1. pc[t] = "build" => mark[h] <= file[site[t]].rules.rev
        BY <2>4, <3>1, <3>2
      <4> QED
        BY <2>1, <3>2, <4>1
    <3>3. CASE u # t
      <4>1. pc'[u] = pc[u] /\ got'[u] = got[u]
        BY <2>1, <3>3
      <4> QED
        BY <2>4, <3>1, <4>1
    <3> QED
      BY <3>2, <3>3
  <2> QED
    BY <2>1, <2>2, <2>3, <2>4
<1>15. ASSUME NEW t \in Loaders, BuildFails(t) PROVE ReadOwnOK'
  BY <1>15 DEF BuildFails
<1>16. ASSUME NEW r \in Requests, StoreNewWAF(r) PROVE ReadOwnOK'
  BY <1>16 DEF StoreNewWAF, Store
<1>17. ASSUME NEW t \in Reloaders, StoreReloaded(t) PROVE ReadOwnOK'
  <2> DEFINE m == Manager(t)
  <2>1. /\ pc[t] = "store" /\ wmMutex[m] = t
        /\ wafInstances'[m][site[t]] = got[t]
        /\ \A n \in Managers, s \in Sites : n # m \/ s # site[t]
                => wafInstances'[n][s] = wafInstances[n][s]
        /\ got'[t] = NoCustom
        /\ \A u \in Loaders : u # t => got'[u] = got[u] /\ pc'[u] = pc[u]
        /\ pc'[t] \in {"done", "idle", "loop"} /\ (t \notin Handlers => pc'[t] # "done")
        /\ UNCHANGED <<waf_rules, file, site, mgr, mark>>
    BY <1>17 DEF StoreReloaded, Store
  <2>2. ASSUME NEW h \in Handlers
        PROVE  /\ pc'[h] \notin {"idle", "failed"} => mark[h] <= waf_rules[site[h]].rev
               /\ pc'[h] \in {"trunc", "write"} => mark[h] <= got'[h].rev
               /\ pc'[h] = "build" => mark[h] <= file[site[h]].rules.rev
               /\ pc'[h] = "store" => got'[h] = NoCustom \/ mark[h] <= got'[h].rev
    <3>1. CASE h = t
      BY <2>1, <3>1
    <3>2. CASE h # t
      <4>1. pc'[h] = pc[h] /\ got'[h] = got[h]
        BY <2>1, <3>2
      <4> QED
        BY <4>1
    <3> QED
      BY <3>1, <3>2
  <2>3. ASSUME NEW h \in Handlers, pc'[h] = "done"
        PROVE  \/ wafInstances'["api"][site[h]].rev >= mark[h]
               \/ wafInstances'["api"][site[h]] = NoCustom
    <3>1. CASE h = t
      <4>1. m = "api" /\ (got[t] = NoCustom \/ mark[h] <= got[t].rev)
        BY <2>1, <3>1
      <4>2. wafInstances'["api"][site[h]] = got[t]
        BY <2>1, <3>1, <4>1
      <4> QED
        BY <4>1, <4>2
    <3>2. CASE h # t /\ m = "api" /\ site[h] = site[t]
      <4>1. pc[h] = "done"
        BY <2>1, <2>3, <3>2
      <4>2. got[t] = NoCustom \/ mark[h] <= got[t].rev
        BY <2>1, <3>2, <4>1
      <4>3. wafInstances'["api"][site[h]] = got[t]
        BY <2>1, <3>2
      <4> QED
        BY <4>2, <4>3
    <3>3. CASE h # t /\ (m # "api" \/ site[h] # site[t])
      <4>1. pc[h] = "done"
        BY <2>1, <2>3, <3>3
      <4>2. wafInstances'["api"][site[h]] = wafInstances["api"][site[h]]
        BY <2>1, <3>3
      <4> QED
        BY <4>1, <4>2
    <3> QED
      BY <3>1, <3>2, <3>3
  <2>4. ASSUME NEW h \in Handlers, NEW u \in Reloaders,
               pc'[h] = "done", Manager(u) = "api", site[u] = site[h]
        PROVE  /\ pc'[u] \in {"trunc", "write"} => mark[h] <= got'[u].rev
               /\ pc'[u] = "build" => mark[h] <= file[site[u]].rules.rev
               /\ pc'[u] = "store" => got'[u] = NoCustom \/ mark[h] <= got'[u].rev
    <3>1. CASE u = t
      BY <2>1, <3>1
    <3>2. CASE u # t
      <4>1. pc'[u] = pc[u] /\ got'[u] = got[u]
        BY <2>1, <3>2
      <4>2. CASE h = t
        <5>1. m = "api"
          BY <4>2
        <5>2. wmMutex[Manager(u)] # u
          BY <2>1, <2>4, <3>2, <5>1
        <5>3. pc[u] \notin Loading
          BY <5>2
        <5> QED
          BY <4>1, <5>3
      <4>3. CASE h # t
        BY <2>1, <2>4, <4>1, <4>3
      <4> QED
        BY <4>2, <4>3
    <3> QED
      BY <3>1, <3>2
  <2> QED
    BY <2>1, <2>2, <2>3, <2>4
<1>18. ASSUME NEW m \in Managers, Tick(m) PROVE ReadOwnOK'
  BY <1>18 DEF Tick, CheckerOf, HelperOf
<1>19. ASSUME NEW t \in Checkers \cup Helpers, LockRuleDb(t) PROVE ReadOwnOK'
  BY <1>19 DEF LockRuleDb
<1>20. ASSUME NEW h \in Helpers, HelperTryLock(h) PROVE ReadOwnOK'
  BY <1>20 DEF HelperTryLock
<1>21. ASSUME NEW c \in Checkers, ReceiveLock(c) PROVE ReadOwnOK'
  BY <1>21 DEF ReceiveLock, HelperOf
<1>22. ASSUME NEW c \in Checkers, LockTimeout(c) PROVE ReadOwnOK'
  BY <1>22 DEF LockTimeout
<1>23. ASSUME NEW c \in Checkers, QuerySites(c) PROVE ReadOwnOK'
  BY <1>23 DEF QuerySites
<1>24. ASSUME NEW c \in Checkers, NEW s \in Sites, NextSite(c, s) PROVE ReadOwnOK'
  BY <1>24 DEF NextSite
<1>25. ASSUME NEW c \in Checkers, UnlockRuleDb(c) PROVE ReadOwnOK'
  BY <1>25 DEF UnlockRuleDb
<1>26. ASSUME NEW c \in Checkers, PutToken(c) PROVE ReadOwnOK'
  BY <1>26 DEF PutToken
<1>27. ASSUME NEW s \in Sites, MinutePasses(s) PROVE ReadOwnOK'
  BY <1>27 DEF MinutePasses
<1>28. CASE UNCHANGED vars
  BY <1>28 DEF vars
<1> HIDE DEF TypeOK, WmMutexOK, FileOK, ApiOK, ReadOwnOK, ReloadedSeesOwnChange, Manager,
    Managers, Content, NoCustom, KindOK, DbMutexOK, HoldsDb, Goto, Loading, Checkers,
    Helpers, shared, locks, locals
<1> QED
  BY <1>1, <1>2, <1>3, <1>4, <1>5, <1>6, <1>7, <1>8, <1>9, <1>10, <1>11, <1>12, <1>13,
     <1>14, <1>15, <1>16, <1>17, <1>18, <1>19, <1>20, <1>21, <1>22, <1>23, <1>24, <1>25,
     <1>26, <1>27, <1>28 DEF Next, Step, RulesNeedReload, LoadRulesWithCustomRules,
     ReloadWAF, ChangeRule, CreateRule, UpdateRule, ToggleRuleStatus, DeleteRule

-----------------------------------------------------------------------------
(* IInv is an invariant. *)
THEOREM Invariance == Spec => []IInv
<1>1. Init => IInv
  BY InitIInv
<1>2. IInv /\ [Next]_vars => IInv'
  BY NextTypeOK, NextKindOK, NextDbMutexOK, NextToken, NextWm, NextFile, NextApi, NextRead
     DEF IInv
<1> QED
  BY <1>1, <1>2, PTL DEF Spec

(* Every variable has its type in every reachable state. *)
THEOREM TypeCorrect == Spec => []TypeOK
<1>1. IInv => TypeOK
  BY DEF IInv
<1> QED
  BY <1>1, Invariance, PTL

(* Two threads never write a custom_rules.conf at once, be they requests, reloads or *)
(* goroutines of RulesNeedReload, and even when a checker's lock has leaked.          *)
THEOREM GenerationIsExclusive == Spec => []GenerationExclusive
<1>1. IInv => GenerationExclusive
  BY DEF IInv, DbMutexOK, HoldsDb, GenerationExclusive, Generating
<1> QED
  BY <1>1, Invariance, PTL

(* The token of ruleDbTryLock is in the channel or with one thread. *)
THEOREM TokenIsNeverDuplicated == Spec => []TokenNeverDuplicated
<1>1. IInv => TokenNeverDuplicated
  BY DEF IInv
<1> QED
  BY <1>1, Invariance, PTL

(* After a handler's successful ReloadWAF the API's instance has the handler's change. *)
THEOREM ReloadSeesOwnChange == Spec => []ReloadedSeesOwnChange
<1>1. IInv => ReloadedSeesOwnChange
  BY DEF IInv, ReadOwnOK
<1> QED
  BY <1>1, Invariance, PTL

(* No step takes a rules file back to an older state of the table. *)
THEOREM FilesNeverGoBack == Spec => FileNeverGoesBack
<1>1. IInv /\ [Next]_vars => [\A s \in Sites : file'[s].rules.rev >= file[s].rules.rev]_vars
  <2> SUFFICES ASSUME IInv, Next, NEW s \in Sites
               PROVE  file'[s].rules.rev >= file[s].rules.rev
    OBVIOUS
  <2>1. file[s].rules.rev \in Int
    BY DEF IInv, TypeOK, Content
  <2>2. CASE UNCHANGED file
    BY <2>1, <2>2
  <2>3. ASSUME NEW t \in Loaders, TruncateFile(t)
        PROVE  file'[s].rules.rev >= file[s].rules.rev
    BY <2>1, <2>3 DEF TruncateFile, IInv, TypeOK
  <2>4. ASSUME NEW t \in Loaders, WriteFile(t)
        PROVE  file'[s].rules.rev >= file[s].rules.rev
    BY <2>1, <2>4 DEF WriteFile, IInv, TypeOK, FileOK, Content, Threads
  <2>5. UNCHANGED file \/ \E t \in Loaders : TruncateFile(t) \/ WriteFile(t)
    BY DEF Next, Step, RulesNeedReload, LoadRulesWithCustomRules, ReloadWAF, ChangeRule,
           CreateRule, UpdateRule, ToggleRuleStatus, DeleteRule, ChangeRow, Reply, GetWAF,
           RecentCheck, VersionMissing, SpawnCheck, CountUpdates, LockManager, QueryRules,
           QueryFails, WriteFails, BuildWAF, BuildFails, StoreNewWAF, StoreReloaded, Store,
           Tick, LockRuleDb, HelperTryLock, ReceiveLock, LockTimeout, QuerySites, NextSite,
           UnlockRuleDb, PutToken, MinutePasses, shared, Loaders, Reloaders
  <2> QED
    BY <2>2, <2>3, <2>4, <2>5
<1> QED
  BY <1>1, Invariance, PTL DEF Spec, FileNeverGoesBack

(* No step puts older rules in the API's manager than those it has. *)
THEOREM ApiInstancesNeverGoBack == Spec => ApiInstanceNeverGoesBack
<1> DEFINE Forward == \A s \in Sites :
                         \/ wafInstances'["api"][s].rev >= wafInstances["api"][s].rev
                         \/ wafInstances'["api"][s] = NoCustom
<1>1. IInv /\ [Next]_vars => [Forward]_vars
  <2> SUFFICES ASSUME IInv, Next PROVE Forward
    OBVIOUS
  <2>1. \A s \in Sites : wafInstances["api"][s].rev \in Int
    BY DEF IInv, TypeOK, Content, Managers
  <2>2. CASE UNCHANGED wafInstances
    BY <2>1, <2>2
  <2>3. ASSUME NEW r \in Requests, StoreNewWAF(r) PROVE Forward
    <3>1. Manager(r) = "proxy"
      BY KindsDistinct DEF Manager, Reloaders, Checkers, Helpers
    <3> QED
      BY <2>1, <2>3, <3>1 DEF StoreNewWAF, Store, IInv, TypeOK, Managers
  <2>4. ASSUME NEW t \in Reloaders, StoreReloaded(t) PROVE Forward
    BY <2>1, <2>4 DEF StoreReloaded, Store, IInv, TypeOK, ApiOK, Managers, Threads, Loaders
  <2>5. \/ UNCHANGED wafInstances
        \/ \E r \in Requests : StoreNewWAF(r)
        \/ \E t \in Reloaders : StoreReloaded(t)
    BY DEF Next, Step, RulesNeedReload, LoadRulesWithCustomRules, ReloadWAF, ChangeRule,
           CreateRule, UpdateRule, ToggleRuleStatus, DeleteRule, ChangeRow, Reply, GetWAF,
           RecentCheck, VersionMissing, SpawnCheck, CountUpdates, LockManager, QueryRules,
           QueryFails, TruncateFile, WriteFile, WriteFails, BuildWAF, BuildFails, Tick,
           LockRuleDb, HelperTryLock, ReceiveLock, LockTimeout, QuerySites, NextSite,
           UnlockRuleDb, PutToken, MinutePasses, shared
  <2> QED
    BY <2>2, <2>3, <2>4, <2>5
<1> QED
  BY <1>1, Invariance, PTL DEF Spec, ApiInstanceNeverGoesBack

-----------------------------------------------------------------------------
(* The refinement of RulePublication.                                       *)

(* What a thread has read or built is a state of the rules, or no custom rules. *)
GotOK == \A t \in Loaders : got[t].rev >= 0

(* Who takes which step. *)
LEMMA StepTakers == Next =>
    \/ \E h \in Handlers, s \in Sites, x \in Statuses \cup {"absent", "enabled", "disabled"} :
          ChangeRow(h, s, x)
    \/ \E h \in Handlers : Reply(h)
    \/ \E r \in Requests : (\E s \in Sites : GetWAF(r, s)) \/ StoreNewWAF(r)
    \/ \E t \in Requests \cup Checkers :
          RecentCheck(t) \/ VersionMissing(t) \/ SpawnCheck(t)
    \/ \E w \in Workers : CountUpdates(w)
    \/ \E t \in Reloaders : LockManager(t) \/ StoreReloaded(t)
    \/ \E t \in Loaders : QueryRules(t) \/ QueryFails(t) \/ TruncateFile(t) \/ WriteFile(t)
                          \/ WriteFails(t) \/ BuildWAF(t) \/ BuildFails(t)
    \/ \E m \in Managers : Tick(m)
    \/ \E t \in Checkers \cup Helpers : LockRuleDb(t)
    \/ \E h \in Helpers : HelperTryLock(h)
    \/ \E c \in Checkers : \/ ReceiveLock(c) \/ LockTimeout(c) \/ QuerySites(c)
                           \/ \E s \in Sites : NextSite(c, s)
                           \/ UnlockRuleDb(c) \/ PutToken(c)
    \/ \E s \in Sites : MinutePasses(s)
BY DEF Next, Step, RulesNeedReload, LoadRulesWithCustomRules, ReloadWAF, ChangeRule,
       CreateRule, UpdateRule, ToggleRuleStatus, DeleteRule, Loaders, Reloaders

(* GotOK is an invariant. *)
LEMMA GotInvariant == Spec => []GotOK
<1>1. Init => GotOK
  BY DEF Init, GotOK, NoCustom
<1>2. IInv /\ GotOK /\ [Next]_vars => GotOK'
  <2> SUFFICES ASSUME IInv, GotOK, Next PROVE GotOK'
    BY DEF GotOK, vars, locals
  <2>1. ASSUME NEW t \in Loaders, QueryRules(t) PROVE GotOK'
    <3>1. site[t] \in Sites /\ got \in [Loaders -> Content]
      BY DEF IInv, TypeOK, Threads
    <3>2. waf_rules[site[t]].rev \in Nat
      BY <3>1, BoundsAssumption DEF IInv, TypeOK
    <3> QED
      BY <2>1, <3>1, <3>2 DEF QueryRules, Selected, GotOK
  <2>2. ASSUME NEW t \in Loaders, BuildWAF(t) PROVE GotOK'
    <3>1. site[t] \in Sites /\ got \in [Loaders -> Content]
      BY DEF IInv, TypeOK, Threads
    <3>2. file[site[t]].rules.rev >= 0 /\ NoCustom.rev >= 0
      BY <3>1 DEF IInv, FileOK, TypeOK, Content, NoCustom
    <3> QED
      BY <2>2, <3>1, <3>2 DEF BuildWAF, GotOK
  <2>3. ASSUME NEW t \in Loaders, Store(t) PROVE GotOK'
    BY <2>3 DEF Store, GotOK, NoCustom, IInv, TypeOK
  <2>4. \/ UNCHANGED got
        \/ \E t \in Loaders : QueryRules(t) \/ BuildWAF(t) \/ Store(t)
    BY StepTakers
       DEF ChangeRow, Reply, GetWAF, RecentCheck, VersionMissing, SpawnCheck, CountUpdates,
           LockManager, QueryFails, TruncateFile, WriteFile, WriteFails, BuildFails,
           StoreNewWAF, StoreReloaded, Tick, LockRuleDb, HelperTryLock, ReceiveLock,
           LockTimeout, QuerySites, NextSite, UnlockRuleDb, PutToken, MinutePasses, shared,
           locals, Loaders
  <2> QED
    BY <2>1, <2>2, <2>3, <2>4 DEF GotOK
<1> QED
  BY <1>1, <1>2, Invariance, PTL DEF Spec

(* A step that does not move h's request from one phase to another. *)
SamePhase(h) ==
    /\ \/ pc'[h] = pc[h]
       \/ pc[h] \notin {"idle", "done", "failed"} /\ pc'[h] \notin {"idle", "done", "failed"}
    /\ site'[h] = site[h] /\ mark'[h] = mark[h]

(* Such a step leaves the request as RulePublication sees it. *)
LEMMA SameRequest ==
  ASSUME NEW h, SamePhase(h)
  PROVE  RequestOf(h)' = RequestOf(h)
<1>1. CASE pc'[h] = pc[h]
  BY <1>1 DEF SamePhase, RequestOf
<1>2. CASE pc[h] \notin {"idle", "done", "failed"} /\ pc'[h] \notin {"idle", "done", "failed"}
  BY <1>2 DEF SamePhase, RequestOf
<1> QED
  BY <1>1, <1>2 DEF SamePhase

(* A step that touches no row, no file's rules and no instance, and moves no request *)
(* on, is none of RulePublication's.                                                 *)
LEMMA Unpublished ==
  ASSUME UNCHANGED <<waf_rules, wafInstances>>,
         \A s \in Sites : file'[s].rules = file[s].rules,
         \A h \in Handlers : SamePhase(h)
  PROVE  UNCHANGED Publication!vars
<1>1. \A h \in Handlers : RequestOf(h)' = RequestOf(h)
  BY SameRequest
<1> QED
  BY <1>1 DEF Publication!vars

(* ChangeRow is a change, and the handler's request begins. *)
LEMMA ChangeRowChanges ==
  ASSUME TypeOK, NEW h \in Handlers, NEW s \in Sites, NEW x, ChangeRow(h, s, x)
  PROVE  Publication!Change(h, s)
<1>1. /\ pc[h] = "idle" /\ h \in Threads
      /\ waf_rules'[s].rev = waf_rules[s].rev + 1
      /\ \A r \in Sites : r # s => waf_rules'[r] = waf_rules[r]
      /\ pc'[h] = "lockwm" /\ site'[h] = s /\ mark'[h] = waf_rules[s].rev + 1
      /\ \A g \in Handlers : g # h => pc'[g] = pc[g] /\ site'[g] = site[g] /\ mark'[g] = mark[g]
      /\ UNCHANGED <<file, wafInstances>>
  BY DEF ChangeRow, Goto, TypeOK, Threads, Loaders, Reloaders
<1>2. RequestOf(h)' = [phase |-> "waiting", site |-> s, rev |-> waf_rules[s].rev + 1]
  BY <1>1 DEF RequestOf
<1>3. \A g \in Handlers : g # h => RequestOf(g)' = RequestOf(g)
  BY <1>1, SameRequest DEF SamePhase
<1>4. RequestOf(h).phase = "idle"
  BY <1>1 DEF RequestOf
<1> QED
  BY <1>1, <1>2, <1>3, <1>4
     DEF Publication!Change, Publication!Become, Publication!Changed

(* Reply ends a request that is confirmed or refused. *)
LEMMA ReplyReplies ==
  ASSUME TypeOK, NEW h \in Handlers, Reply(h)
  PROVE  Publication!Reply(h)
<1>1. /\ pc[h] \in {"done", "failed"} /\ pc'[h] = "idle"
      /\ \A g \in Handlers : g # h => SamePhase(g)
      /\ UNCHANGED <<waf_rules, file, wafInstances>>
  BY DEF Reply, Goto, TypeOK, Threads, Loaders, Reloaders, SamePhase, shared
<1>2. RequestOf(h).phase \in {"confirmed", "refused"}
  BY <1>1 DEF RequestOf
<1>3. RequestOf(h)' = [phase |-> "idle"]
  BY <1>1 DEF RequestOf
<1>4. \A g \in Handlers : g # h => RequestOf(g)' = RequestOf(g)
  BY <1>1, SameRequest
<1> QED
  BY <1>1, <1>2, <1>3, <1>4
     DEF Publication!Reply, Publication!Become, Publication!Idle

(* WriteFile publishes what was read under the same lock. *)
LEMMA WriteFilePublishes ==
  ASSUME IInv, NEW t \in Loaders, WriteFile(t), NEW s, s = site[t]
  PROVE  Publication!Publish(s)
<1>1. /\ s \in Sites /\ t \in Threads
      /\ \A r \in Sites : r # s => file'[r] = file[r]
      /\ file'[s].rules = got[t]
      /\ UNCHANGED <<waf_rules, wafInstances>>
  BY DEF WriteFile, IInv, TypeOK, Threads
<1>2. got[t].rev \in file[s].rules.rev..waf_rules[s].rev
  BY DEF WriteFile, IInv, TypeOK, FileOK, Content, Threads
<1>3. \A h \in Handlers : SamePhase(h)
  BY DEF WriteFile, Goto, IInv, TypeOK, SamePhase, Threads, Loaders, Reloaders, locals
<1>4. \A h \in Handlers : RequestOf(h)' = RequestOf(h)
  BY <1>3, SameRequest
<1> QED
  BY <1>1, <1>2, <1>4 DEF Publication!Publish

(* What Store puts into a manager may be loaded into it. *)
LEMMA StoreLoads ==
  ASSUME IInv, GotOK, NEW t \in Loaders, Store(t),
         NEW m, m = Manager(t), NEW s, s = site[t], NEW rev, rev = got[t].rev,
         t \in Reloaders \/ m = "proxy"
  PROVE  /\ s \in Sites /\ m \in Managers
         /\ rev \in Publication!Loadable(m, s)
         /\ Publication!Put(m, s, rev)
<1>1. s \in Sites /\ m \in Managers /\ t \in Threads
  BY DEF IInv, TypeOK, Managers, Manager, Threads
<1>2. rev \in 0..file[s].rules.rev
  BY DEF Store, IInv, ApiOK, FileOK, GotOK, TypeOK, Content, Threads
<1>3. rev = 0 \/ m = "proxy" \/ rev >= wafInstances["api"][s].rev
  <2>1. CASE m = "proxy"
    BY <2>1
  <2>2. CASE m # "proxy"
    <3>1. t \in Reloaders /\ m = "api"
      BY <1>1, <2>2 DEF Managers
    <3>2. got[t] = NoCustom \/ got[t].rev >= wafInstances["api"][s].rev
      BY <3>1 DEF Store, IInv, ApiOK
    <3> QED
      BY <3>2 DEF NoCustom
  <2> QED
    BY <2>1, <2>2
<1>4. rev \in Publication!Loadable(m, s)
  BY <1>1, <1>2, <1>3 DEF Publication!Loadable, Publication!None, Managers
<1>5. Publication!Put(m, s, rev)
  <2>1. /\ wafInstances'[m][s] = got[t]
        /\ \A n \in Managers, r \in Sites : n # m \/ r # s
              => wafInstances'[n][r] = wafInstances[n][r]
    BY <1>1 DEF Store, IInv, TypeOK
  <2> DEFINE Revs(i) == [r \in Sites |-> i[r].rev]
             Before == [n \in Managers |-> Revs(wafInstances[n])]
             After  == [n \in Managers |-> Revs(wafInstances'[n])]
  <2>2. Revs(wafInstances'[m]) = [Revs(wafInstances[m]) EXCEPT ![s] = rev]
    BY <1>1, <2>1
  <2>3. \A n \in Managers : n # m => Revs(wafInstances'[n]) = Revs(wafInstances[n])
    BY <2>1
  <2>4. After = [Before EXCEPT ![m] = [Before[m] EXCEPT ![s] = rev]]
    <3> HIDE DEF Revs
    <3>1. Before[m] = Revs(wafInstances[m])
      BY <1>1
    <3> QED
      BY <1>1, <2>2, <2>3, <3>1
  <2> QED
    BY <2>4 DEF Publication!Put
<1> QED
  BY <1>1, <1>4, <1>5

(* StoreNewWAF loads an instance into the proxy's manager. *)
LEMMA StoreNewWAFLoads ==
  ASSUME IInv, GotOK, NEW r \in Requests, StoreNewWAF(r)
  PROVE  \E m \in Managers, s \in Sites : Publication!Load(m, s)
<1>1. PICK m, s, rev : m = Manager(r) /\ s = site[r] /\ rev = got[r].rev
  OBVIOUS
<1>2. m = "proxy"
  BY <1>1, KindsDistinct DEF Manager, Reloaders, Checkers, Helpers
<1>3. r \in Loaders /\ Store(r) /\ UNCHANGED <<waf_rules, file>>
  BY DEF StoreNewWAF, Store, Loaders
<1>4. /\ s \in Sites /\ m \in Managers
      /\ rev \in Publication!Loadable(m, s)
      /\ Publication!Put(m, s, rev)
  BY <1>1, <1>2, <1>3, StoreLoads
<1>5. \A h \in Handlers : RequestOf(h)' = RequestOf(h)
  <2>1. \A h \in Handlers : SamePhase(h)
    BY KindsDistinct
       DEF StoreNewWAF, Store, Goto, IInv, TypeOK, SamePhase, Threads, Loaders, Reloaders
  <2> QED
    BY <2>1, SameRequest
<1>6. Publication!Load(m, s)
  BY <1>3, <1>4, <1>5 DEF Publication!Load
<1> QED
  BY <1>4, <1>6

(* StoreReloaded confirms the handler's change, or loads an instance for a worker. *)
LEMMA StoreReloadedConfirms ==
  ASSUME IInv, GotOK, NEW t \in Reloaders, StoreReloaded(t)
  PROVE  \/ t \in Handlers /\ Publication!Confirm(t)
         \/ \E m \in Managers, s \in Sites : Publication!Load(m, s)
<1>1. PICK m, s, rev : m = Manager(t) /\ s = site[t] /\ rev = got[t].rev
  OBVIOUS
<1>2. /\ t \in Loaders /\ t \in Threads /\ Store(t) /\ UNCHANGED <<waf_rules, file, site, mark>>
      /\ pc[t] = "store"
      /\ pc' = [pc EXCEPT ![t] = IF t \in Handlers THEN "done"
                                 ELSE IF t \in Checkers THEN "loop" ELSE "idle"]
  BY DEF StoreReloaded, Store, Loaders, Threads, Goto
<1>3. /\ s \in Sites /\ m \in Managers
      /\ rev \in Publication!Loadable(m, s)
      /\ Publication!Put(m, s, rev)
  BY <1>1, <1>2, StoreLoads
<1>4. \A h \in Handlers : h # t => RequestOf(h)' = RequestOf(h)
  <2>1. \A h \in Handlers : h # t => SamePhase(h)
    BY <1>2 DEF SamePhase, IInv, TypeOK, Threads, Loaders, Reloaders
  <2> QED
    BY <2>1, SameRequest
<1>5. CASE t \in Handlers
  <2>1. m = "api"
    BY <1>1, <1>5, KindsDistinct DEF Manager
  <2>2. RequestOf(t) = [phase |-> "waiting", site |-> s, rev |-> mark[t]]
    BY <1>1, <1>2 DEF RequestOf
  <2>3. RequestOf(t)' = [phase |-> "confirmed", site |-> s, rev |-> mark[t]]
    <3>1. pc'[t] = "done"
      BY <1>2, <1>5 DEF IInv, TypeOK
    <3> QED
      BY <1>1, <1>2, <3>1 DEF RequestOf
  <2>4. rev = 0 \/ rev >= mark[t]
    <3>1. got[t] = NoCustom \/ mark[t] <= got[t].rev
      BY <1>2, <1>5 DEF IInv, ReadOwnOK
    <3> QED
      BY <1>1, <1>2, <1>5, <3>1 DEF NoCustom, IInv, TypeOK, Content
  <2>5. Publication!Become(t, [RequestOf(t) EXCEPT !.phase = "confirmed"])
    <3>1. RequestOf(t)' = [RequestOf(t) EXCEPT !.phase = "confirmed"]
      BY <2>2, <2>3
    <3> QED
      BY <1>4, <3>1 DEF Publication!Become
  <2>6. Publication!Confirm(t)
    BY <1>2, <1>3, <1>5, <2>1, <2>2, <2>4, <2>5
       DEF Publication!Confirm, Publication!None
  <2> QED
    BY <1>5, <2>6
<1>6. CASE t \notin Handlers
  <2>1. Publication!Load(m, s)
    BY <1>2, <1>3, <1>4, <1>6 DEF Publication!Load
  <2> QED
    BY <1>3, <2>1
<1> QED
  BY <1>5, <1>6

(* BuildFails refuses the request of a handler, and is nobody's step of another thread. *)
LEMMA BuildFailsRefuses ==
  ASSUME IInv, NEW t \in Loaders, BuildFails(t)
  PROVE  \/ t \in Handlers /\ Publication!Refuse(t)
         \/ UNCHANGED Publication!vars
<1>1. /\ t \in Threads /\ pc[t] \in {"build", "bare"}
      /\ pc' = [pc EXCEPT ![t] = IF t \in Handlers THEN "failed"
                                 ELSE IF t \in Checkers THEN "loop" ELSE "idle"]
      /\ UNCHANGED <<waf_rules, file, wafInstances, site, mark>>
  BY DEF BuildFails, Goto, Threads, shared, locals
<1>2. \A h \in Handlers : h # t => SamePhase(h)
  BY <1>1 DEF SamePhase, IInv, TypeOK, Threads, Loaders, Reloaders
<1>3. CASE t \in Handlers
  <2>1. RequestOf(t) = [phase |-> "waiting", site |-> site[t], rev |-> mark[t]]
    BY <1>1 DEF RequestOf
  <2>2. RequestOf(t)' = [phase |-> "refused", site |-> site[t], rev |-> mark[t]]
    <3>1. pc'[t] = "failed"
      BY <1>1, <1>3 DEF IInv, TypeOK
    <3> QED
      BY <1>1, <3>1 DEF RequestOf
  <2>3. RequestOf(t)' = [RequestOf(t) EXCEPT !.phase = "refused"]
    BY <2>1, <2>2
  <2>4. \A h \in Handlers : h # t => RequestOf(h)' = RequestOf(h)
    BY <1>2, SameRequest
  <2>5. Publication!Become(t, [RequestOf(t) EXCEPT !.phase = "refused"])
    BY <2>3, <2>4 DEF Publication!Become
  <2>6. Publication!Refuse(t)
    BY <1>1, <1>3, <2>1, <2>5 DEF Publication!Refuse
  <2> QED
    BY <1>3, <2>6
<1>4. CASE t \notin Handlers
  BY <1>1, <1>2, <1>4, Unpublished
<1> QED
  BY <1>3, <1>4

(* Every step is a step of RulePublication or none. *)
LEMMA PublicationStep ==
  IInv /\ GotOK /\ [Next]_vars => [Publication!Next]_(Publication!vars)
<1> SUFFICES ASSUME IInv, GotOK, [Next]_vars
             PROVE  [Publication!Next]_(Publication!vars)
  OBVIOUS
<1> DEFINE Stutter == /\ UNCHANGED <<waf_rules, wafInstances>>
                      /\ \A s \in Sites : file'[s].rules = file[s].rules
                      /\ \A h \in Handlers : SamePhase(h)
<1>1. ASSUME NEW h \in Handlers, Reply(h) PROVE Publication!Next
  BY <1>1, ReplyReplies DEF Publication!Next, IInv
<1>2. ASSUME NEW h \in Handlers, NEW s \in Sites, NEW x, ChangeRow(h, s, x)
      PROVE  Publication!Next
  BY <1>2, ChangeRowChanges DEF Publication!Next, IInv
<1>3. ASSUME NEW t \in Loaders, WriteFile(t) PROVE Publication!Next
  <2>1. PICK s : s = site[t]
    OBVIOUS
  <2>2. s \in Sites
    BY <2>1 DEF IInv, TypeOK, Threads
  <2> QED
    BY <1>3, <2>1, <2>2, WriteFilePublishes DEF Publication!Next
<1>4. ASSUME NEW r \in Requests, StoreNewWAF(r) PROVE Publication!Next
  BY <1>4, StoreNewWAFLoads DEF Publication!Next, Publication!Managers, Managers
<1>5. ASSUME NEW t \in Reloaders, StoreReloaded(t) PROVE Publication!Next
  BY <1>5, StoreReloadedConfirms DEF Publication!Next, Publication!Managers, Managers
<1>6. ASSUME NEW t \in Loaders, BuildFails(t)
      PROVE  Publication!Next \/ UNCHANGED Publication!vars
  BY <1>6, BuildFailsRefuses DEF Publication!Next
<1> USE KindsDistinct DEF IInv, TypeOK, KindOK, SamePhase, Goto, shared, locks, locals,
    Threads, Loaders, Reloaders
<1>7. ASSUME NEW r \in Requests, NEW s \in Sites, GetWAF(r, s) PROVE Stutter
  BY <1>7 DEF GetWAF
<1>8. ASSUME NEW t \in Requests \cup Checkers, RecentCheck(t) PROVE Stutter
  BY <1>8 DEF RecentCheck
<1>9. ASSUME NEW t \in Requests \cup Checkers, VersionMissing(t) PROVE Stutter
  BY <1>9 DEF VersionMissing
<1>10. ASSUME NEW t \in Requests \cup Checkers, SpawnCheck(t) PROVE Stutter
  BY <1>10 DEF SpawnCheck
<1>11. ASSUME NEW w \in Workers, CountUpdates(w) PROVE Stutter
  BY <1>11 DEF CountUpdates
<1>12. ASSUME NEW t \in Reloaders, LockManager(t) PROVE Stutter
  BY <1>12 DEF LockManager
<1>13. ASSUME NEW t \in Loaders, QueryRules(t) PROVE Stutter
  BY <1>13 DEF QueryRules
<1>14. ASSUME NEW t \in Loaders, QueryFails(t) PROVE Stutter
  BY <1>14 DEF QueryFails
<1>15. ASSUME NEW t \in Loaders, TruncateFile(t) PROVE Stutter
  BY <1>15 DEF TruncateFile
<1>16. ASSUME NEW t \in Loaders, WriteFails(t) PROVE Stutter
  BY <1>16 DEF WriteFails
<1>17. ASSUME NEW t \in Loaders, BuildWAF(t) PROVE Stutter
  BY <1>17 DEF BuildWAF
<1>18. ASSUME NEW m \in Managers, Tick(m) PROVE Stutter
  BY <1>18 DEF Tick, CheckerOf, HelperOf, Checkers, Helpers
<1>19. ASSUME NEW t \in Checkers \cup Helpers, LockRuleDb(t) PROVE Stutter
  BY <1>19 DEF LockRuleDb
<1>20. ASSUME NEW h \in Helpers, HelperTryLock(h) PROVE Stutter
  BY <1>20 DEF HelperTryLock
<1>21. ASSUME NEW c \in Checkers, ReceiveLock(c) PROVE Stutter
  BY <1>21 DEF ReceiveLock, HelperOf, Checkers, Helpers
<1>22. ASSUME NEW c \in Checkers, LockTimeout(c) PROVE Stutter
  BY <1>22 DEF LockTimeout
<1>23. ASSUME NEW c \in Checkers, QuerySites(c) PROVE Stutter
  BY <1>23 DEF QuerySites
<1>24. ASSUME NEW c \in Checkers, NEW s \in Sites, NextSite(c, s) PROVE Stutter
  BY <1>24 DEF NextSite
<1>25. ASSUME NEW c \in Checkers, UnlockRuleDb(c) PROVE Stutter
  BY <1>25 DEF UnlockRuleDb
<1>26. ASSUME NEW c \in Checkers, PutToken(c) PROVE Stutter
  BY <1>26 DEF PutToken
<1>27. ASSUME NEW s \in Sites, MinutePasses(s) PROVE Stutter
  BY <1>27 DEF MinutePasses
<1>28. ASSUME UNCHANGED vars PROVE Stutter
  BY <1>28 DEF vars
<1> HIDE DEF IInv, TypeOK, KindOK, SamePhase, Goto, shared, locks, locals, Threads, Loaders,
    Reloaders, Stutter
<1>29. Stutter => UNCHANGED Publication!vars
  BY Unpublished DEF Stutter
<1> QED
  BY <1>1, <1>2, <1>3, <1>4, <1>5, <1>6, <1>7, <1>8, <1>9, <1>10, <1>11, <1>12, <1>13,
     <1>14, <1>15, <1>16, <1>17, <1>18, <1>19, <1>20, <1>21, <1>22, <1>23, <1>24, <1>25,
     <1>26, <1>27, <1>28, <1>29, StepTakers

(* Whatever the threads do to the files and to each other's locks, what they do is to *)
(* publish the rules forward and to load what is published; a reload that reports     *)
(* success leaves the handler's change, or nothing, in the instance of its manager.   *)
THEOREM RulesArePublished == Spec => ImplementsPublication
<1>1. Init => Publication!Init
  BY DEF Init, Publication!Init, Publication!Idle, Publication!None, Publication!NotLoaded,
         Publication!Managers, Managers, NoCustom, NotLoaded, RequestOf, Threads, Loaders,
         Reloaders
<1> QED
  BY <1>1, PublicationStep, Invariance, GotInvariant, PTL
     DEF Spec, ImplementsPublication, Publication!Spec

-----------------------------------------------------------------------------
(* Waiting.  Who has a mutex is inside its critical section: the converse of *)
(* DbMutexOK and WmMutexOK.                                                  *)
DbHolderOK == ruleDbMutex # NoThread => HoldsDb(ruleDbMutex)
WmHolderOK ==
    \A m \in Managers : wmMutex[m] # NoThread =>
        Manager(wmMutex[m]) = m /\ pc[wmMutex[m]] \in Loading

LEMMA NextDbHolder ==
  ASSUME IInv, DbHolderOK, Next
  PROVE  DbHolderOK'
<1> USE KindsDistinct, BoundsAssumption DEF IInv, TypeOK, KindOK, DbMutexOK, DbHolderOK, HoldsDb,
    Goto, Loading, Threads, Loaders, Reloaders, Checkers, Helpers, shared, locks, locals
<1>1. ASSUME NEW h \in Handlers, NEW s \in Sites, NEW x, ChangeRow(h, s, x) PROVE DbHolderOK'
  BY <1>1 DEF ChangeRow
<1>2. ASSUME NEW h \in Handlers, Reply(h) PROVE DbHolderOK'
  BY <1>2 DEF Reply
<1>3. ASSUME NEW r \in Requests, NEW s \in Sites, GetWAF(r, s) PROVE DbHolderOK'
  BY <1>3 DEF GetWAF
<1>4. ASSUME NEW t \in Requests \cup Checkers, RecentCheck(t) PROVE DbHolderOK'
  BY <1>4 DEF RecentCheck, NoReload
<1>5. ASSUME NEW t \in Requests \cup Checkers, VersionMissing(t) PROVE DbHolderOK'
  BY <1>5 DEF VersionMissing, NeedReload
<1>6. ASSUME NEW t \in Requests \cup Checkers, SpawnCheck(t) PROVE DbHolderOK'
  BY <1>6 DEF SpawnCheck, NoReload
<1>7. ASSUME NEW w \in Workers, CountUpdates(w) PROVE DbHolderOK'
  BY <1>7 DEF CountUpdates
<1>8. ASSUME NEW t \in Reloaders, LockManager(t) PROVE DbHolderOK'
  BY <1>8 DEF LockManager
<1>9. ASSUME NEW t \in Loaders, QueryRules(t) PROVE DbHolderOK'
  BY <1>9 DEF QueryRules
<1>10. ASSUME NEW t \in Loaders, QueryFails(t) PROVE DbHolderOK'
  BY <1>10 DEF QueryFails
<1>11. ASSUME NEW t \in Loaders, TruncateFile(t) PROVE DbHolderOK'
  BY <1>11 DEF TruncateFile
<1>12. ASSUME NEW t \in Loaders, WriteFile(t) \/ WriteFails(t) PROVE DbHolderOK'
  BY <1>12 DEF WriteFile, WriteFails
<1>13. ASSUME NEW t \in Loaders, BuildWAF(t) PROVE DbHolderOK'
  BY <1>13 DEF BuildWAF
<1>14. ASSUME NEW t \in Loaders, BuildFails(t) PROVE DbHolderOK'
  BY <1>14 DEF BuildFails
<1>15. ASSUME NEW r \in Requests, StoreNewWAF(r) PROVE DbHolderOK'
  BY <1>15 DEF StoreNewWAF, Store
<1>16. ASSUME NEW t \in Reloaders, StoreReloaded(t) PROVE DbHolderOK'
  BY <1>16 DEF StoreReloaded, Store
<1>17. ASSUME NEW m \in Managers, Tick(m) PROVE DbHolderOK'
  BY <1>17 DEF Tick, CheckerOf, HelperOf
<1>18. ASSUME NEW t \in Checkers \cup Helpers, LockRuleDb(t) PROVE DbHolderOK'
  BY <1>18 DEF LockRuleDb
<1>19. ASSUME NEW h \in Helpers, HelperTryLock(h) PROVE DbHolderOK'
  BY <1>19 DEF HelperTryLock
<1>20. ASSUME NEW c \in Checkers, ReceiveLock(c) PROVE DbHolderOK'
  BY <1>20 DEF ReceiveLock, HelperOf
<1>21. ASSUME NEW c \in Checkers, LockTimeout(c) PROVE DbHolderOK'
  BY <1>21 DEF LockTimeout
<1>22. ASSUME NEW c \in Checkers, QuerySites(c) PROVE DbHolderOK'
  BY <1>22 DEF QuerySites
<1>23. ASSUME NEW c \in Checkers, NEW s \in Sites, NextSite(c, s) PROVE DbHolderOK'
  BY <1>23 DEF NextSite
<1>24. ASSUME NEW c \in Checkers, UnlockRuleDb(c) \/ PutToken(c) PROVE DbHolderOK'
  BY <1>24 DEF UnlockRuleDb, PutToken
<1>25. ASSUME NEW s \in Sites, MinutePasses(s) PROVE DbHolderOK'
  BY <1>25 DEF MinutePasses
<1> HIDE DEF IInv, TypeOK, KindOK, DbMutexOK, DbHolderOK, HoldsDb, Goto, Loading, Threads,
    Loaders, Reloaders, Checkers, Helpers, shared, locks, locals
<1> QED
  BY <1>1, <1>2, <1>3, <1>4, <1>5, <1>6, <1>7, <1>8, <1>9, <1>10, <1>11, <1>12, <1>13, <1>14,
     <1>15, <1>16, <1>17, <1>18, <1>19, <1>20, <1>21, <1>22, <1>23, <1>24, <1>25, StepTakers

(* While wm.mutex of a manager is not touched, its holder stays where it is. *)
LEMMA WmHolderStays ==
  ASSUME TypeOK, NoThread \notin Reloaders, WmHolderOK, UNCHANGED wmMutex,
         \A t \in Reloaders : pc[t] \in Loading =>
             pc'[t] \in Loading /\ Manager(t)' = Manager(t)
  PROVE  WmHolderOK'
BY DEF WmHolderOK, TypeOK

LEMMA NextWmHolder ==
  ASSUME IInv, WmHolderOK, Next
  PROVE  WmHolderOK'
<1> USE KindsDistinct, BoundsAssumption DEF IInv, TypeOK, KindOK, WmMutexOK, WmHolderOK, Manager,
    Goto, Loading, Threads, Loaders, Reloaders, Checkers, Helpers, shared, locks, locals
<1>1. ASSUME NEW h \in Handlers, NEW s \in Sites, NEW x, ChangeRow(h, s, x) PROVE WmHolderOK'
  BY <1>1 DEF ChangeRow
<1>2. ASSUME NEW h \in Handlers, Reply(h) PROVE WmHolderOK'
  BY <1>2 DEF Reply
<1>3. ASSUME NEW r \in Requests, NEW s \in Sites, GetWAF(r, s) PROVE WmHolderOK'
  BY <1>3 DEF GetWAF
<1>4. ASSUME NEW t \in Requests \cup Checkers,
             RecentCheck(t) \/ VersionMissing(t) \/ SpawnCheck(t)
      PROVE  WmHolderOK'
  <2>1. UNCHANGED wmMutex /\ pc[t] \in {"check", "version"}
    BY <1>4 DEF RecentCheck, VersionMissing, SpawnCheck
  <2>2. ASSUME NEW u \in Reloaders, pc[u] \in Loading
        PROVE  pc'[u] \in Loading /\ Manager(u)' = Manager(u)
    <3>1. u # t /\ u \in Threads
      BY <2>1, <2>2
    <3>2. CASE RecentCheck(t) \/ VersionMissing(t)
      BY <2>2, <3>1, <3>2 DEF RecentCheck, VersionMissing
    <3>3. CASE SpawnCheck(t)
      <4>1. CASE UNCHANGED <<site, mgr, mark>> /\ Goto(t, NoReload(t))
        BY <2>2, <3>1, <4>1
      <4>2. ASSUME NEW w \in Workers, pc[w] = "idle",
                   pc' = [pc EXCEPT ![t] = NoReload(t), ![w] = "count"],
                   mgr' = [mgr EXCEPT ![w] = Manager(t)]
            PROVE  pc'[u] \in Loading /\ Manager(u)' = Manager(u)
        <5>1. u # w
          BY <2>2, <4>2
        <5> QED
          BY <2>2, <3>1, <4>2, <5>1
      <4> QED
        BY <3>3, <4>1, <4>2 DEF SpawnCheck
    <3> QED
      BY <1>4, <3>2, <3>3
  <2>3. NoThread \notin Reloaders
    OBVIOUS
  <2> HIDE DEF TypeOK, KindOK, WmMutexOK, WmHolderOK, Manager, Loading, Reloaders
  <2> QED
    BY <2>1, <2>2, <2>3, WmHolderStays DEF IInv
<1>5. ASSUME NEW w \in Workers, CountUpdates(w) PROVE WmHolderOK'
  BY <1>5 DEF CountUpdates
<1>6. ASSUME NEW t \in Reloaders, LockManager(t) PROVE WmHolderOK'
  BY <1>6 DEF LockManager
<1>7. ASSUME NEW t \in Loaders, QueryRules(t) PROVE WmHolderOK'
  BY <1>7 DEF QueryRules
<1>8. ASSUME NEW t \in Loaders, QueryFails(t) PROVE WmHolderOK'
  BY <1>8 DEF QueryFails
<1>9. ASSUME NEW t \in Loaders, TruncateFile(t) PROVE WmHolderOK'
  BY <1>9 DEF TruncateFile
<1>10. ASSUME NEW t \in Loaders, WriteFile(t) \/ WriteFails(t) PROVE WmHolderOK'
  BY <1>10 DEF WriteFile, WriteFails
<1>11. ASSUME NEW t \in Loaders, BuildWAF(t) PROVE WmHolderOK'
  BY <1>11 DEF BuildWAF
<1>12. ASSUME NEW t \in Loaders, BuildFails(t) PROVE WmHolderOK'
  BY <1>12 DEF BuildFails
<1>13. ASSUME NEW r \in Requests, StoreNewWAF(r) PROVE WmHolderOK'
  BY <1>13 DEF StoreNewWAF, Store
<1>14. ASSUME NEW t \in Reloaders, StoreReloaded(t) PROVE WmHolderOK'
  BY <1>14 DEF StoreReloaded, Store
<1>15. ASSUME NEW m \in Managers, Tick(m) PROVE WmHolderOK'
  BY <1>15 DEF Tick, CheckerOf, HelperOf
<1>16. ASSUME NEW t \in Checkers \cup Helpers, LockRuleDb(t) PROVE WmHolderOK'
  BY <1>16 DEF LockRuleDb
<1>17. ASSUME NEW h \in Helpers, HelperTryLock(h) PROVE WmHolderOK'
  BY <1>17 DEF HelperTryLock
<1>18. ASSUME NEW c \in Checkers, ReceiveLock(c) PROVE WmHolderOK'
  <2>1. UNCHANGED <<wmMutex, mgr>> /\ pc[c] = "select" /\ pc[HelperOf(c)] = "sent"
        /\ HelperOf(c) \in Helpers
        /\ pc' = [pc EXCEPT ![c] = "sites", ![HelperOf(c)] = "idle"]
    BY <1>18 DEF ReceiveLock, HelperOf
  <2>2. ASSUME NEW u \in Reloaders, pc[u] \in Loading
        PROVE  pc'[u] \in Loading /\ Manager(u)' = Manager(u)
    <3>1. u # c /\ u # HelperOf(c) /\ u \in Threads
      BY <2>1, <2>2
    <3> QED
      BY <2>1, <2>2, <3>1
  <2>3. NoThread \notin Reloaders
    OBVIOUS
  <2> HIDE DEF TypeOK, KindOK, WmMutexOK, WmHolderOK, Manager, Loading, Reloaders
  <2> QED
    BY <2>1, <2>2, <2>3, WmHolderStays DEF IInv
<1>19. ASSUME NEW c \in Checkers, LockTimeout(c) PROVE WmHolderOK'
  BY <1>19 DEF LockTimeout
<1>20. ASSUME NEW c \in Checkers, QuerySites(c) PROVE WmHolderOK'
  BY <1>20 DEF QuerySites
<1>21. ASSUME NEW c \in Checkers, NEW s \in Sites, NextSite(c, s) PROVE WmHolderOK'
  BY <1>21 DEF NextSite
<1>22. ASSUME NEW c \in Checkers, UnlockRuleDb(c) \/ PutToken(c) PROVE WmHolderOK'
  BY <1>22 DEF UnlockRuleDb, PutToken
<1>23. ASSUME NEW s \in Sites, MinutePasses(s) PROVE WmHolderOK'
  BY <1>23 DEF MinutePasses
<1> HIDE DEF IInv, TypeOK, KindOK, WmMutexOK, WmHolderOK, Manager, Goto, Loading, Threads,
    Loaders, Reloaders, Checkers, Helpers, shared, locks, locals
<1> QED
  BY <1>1, <1>2, <1>3, <1>4, <1>5, <1>6, <1>7, <1>8, <1>9, <1>10, <1>11, <1>12, <1>13, <1>14,
     <1>15, <1>16, <1>17, <1>18, <1>19, <1>20, <1>21, <1>22, <1>23, StepTakers

(* Threads wait for each other in a circle only around a periodic checker that calls *)
(* ReloadWAF while it has ruleDbMutex; requests, handlers, workers and helpers by     *)
(* themselves never deadlock, whatever fails and however many there are.              *)
THEOREM DeadlocksHaveAChecker == Spec => []OnlyCheckersDeadlock
<1>1. Init => DbHolderOK /\ WmHolderOK
  BY DEF Init, DbHolderOK, WmHolderOK
<1>2. IInv /\ DbHolderOK /\ WmHolderOK /\ [Next]_vars => DbHolderOK' /\ WmHolderOK'
  <2>1. DbHolderOK /\ WmHolderOK /\ UNCHANGED vars => DbHolderOK' /\ WmHolderOK'
    BY DEF DbHolderOK, WmHolderOK, HoldsDb, Manager, vars, locks, locals
  <2> QED
    BY <2>1, NextDbHolder, NextWmHolder
<1>3. IInv /\ DbHolderOK /\ WmHolderOK => OnlyCheckersDeadlock
  <2> SUFFICES ASSUME IInv, DbHolderOK, WmHolderOK, NEW S \in SUBSET Threads, Circle(S)
               PROVE  ruleDbMutex \in S \cap Checkers /\ pc[ruleDbMutex] \in {"lockwm", "gen"}
    BY DEF OnlyCheckersDeadlock, Waiting
  <2> USE DEF Circle
  <2>1. NoThread \notin S
    BY KindsDistinct
  <2>2. ASSUME NEW m \in Managers, wmMutex[m] \in S PROVE WaitsFor(wmMutex[m]) = ruleDbMutex
    <3>1. wmMutex[m] \in Reloaders /\ pc[wmMutex[m]] \in Loading
      BY <2>1, <2>2 DEF IInv, TypeOK, WmHolderOK
    <3>2. wmMutex[m] \notin Requests
      BY <3>1, KindsDistinct
    <3> QED
      BY <2>1, <2>2, <3>1, <3>2 DEF WaitsFor, Loading
  <2>3. ruleDbMutex \in S
    <3>1. PICK t \in S : TRUE
      OBVIOUS
    <3>2. Manager(t) \in Managers /\ "proxy" \in Managers
      BY DEF Manager, Managers, IInv, TypeOK
    <3> QED
      BY <2>1, <2>2, <3>2 DEF WaitsFor
  <2>4. HoldsDb(ruleDbMutex) /\ WaitsFor(ruleDbMutex) # NoThread
    BY <2>1, <2>3 DEF DbHolderOK
  <2>5. CASE pc[ruleDbMutex] \in {"trunc", "write", "sent"}
    BY <2>4, <2>5 DEF WaitsFor
  <2>6. CASE ruleDbMutex \in Checkers
    <3>1. ruleDbMutex \notin Requests
      BY <2>6, KindsDistinct DEF Reloaders
    <3> QED
      BY <2>3, <2>4, <2>6, <3>1 DEF WaitsFor, HoldsDb
  <2> QED
    BY <2>4, <2>5, <2>6 DEF HoldsDb
<1> QED
  BY <1>1, <1>2, <1>3, Invariance, PTL DEF Spec
=============================================================================
