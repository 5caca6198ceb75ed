# SeproWAF in TLA+

SeproWAF is a Go program (Beego, MySQL, Coraza) that is two things in one process: an HTTP API
and UI with which users manage sites, certificates and WAF rules, and a reverse proxy that serves
the sites and inspects their requests. This directory holds TLA+ modules that model the parts of it
that run concurrently, the TLC configurations that check them, and TLAPS proofs about them.
`src/` below is the root of the repository.

    tlc -config WAFManager_files.cfg MCWAFManager     # one of the runs
    tlapm WAFManagerProofs.tla                        # the proofs of one module

## 1. Inventory

| component | state | operations | talks to | module |
|---|---|---|---|---|
| custom rule loading: `WAFManager` (`proxy/waf.go`) | per process `ruleVersions`, `lastRuleCheck`, `ruleDbMutex`, `ruleDbTryLock`, the files `rules/site_<id>/custom_rules.conf`; per manager `wafInstances`, `mutex` | `GetWAF`, `RulesNeedReload`, `ReloadWAF`, `GenerateCustomRulesFile`, `CheckForRuleUpdates` | the request handler calls `GetWAF` on the proxy's manager; the rule API calls `ReloadWAF` on another one | `WAFManager` |
| rule API (`controllers/wafrule.go`, `models/wafrule.go`) and rule generator (`services/rule_generator.go`) | table `waf_rules` | create, update, delete, toggle a rule; permission, validation, texts | `ReloadWAF` | `WAFRules` |
| served sites: `ProxyServer` (`proxy/proxy.go`, `proxy/manager.go`), site and certificate API | tables `sites`, `certificates`; `domainMap`, the certificates map, `proxyMutex` | site create/update/delete/toggles, certificate upload/delete, `AddOrUpdateSite`, `RemoveSite`, `LoadActiveSites`, `MonitorSiteChanges` | API handlers call `RefreshSite`, `RemoveSiteFromProxy`; the request path reads the maps | `SiteProxy`, `SiteServing` |
| start-up, listeners and routing of the proxy (`proxy/proxy.go`) | the ports that are open, `httpsStarted` | `Start`, `MonitorCertificates`, `GetCertificate`, `ServeHTTP` up to the WAF | the maps, the counters, the WAF handler | `ServingPath` |
| request counters (`proxy/proxy.go`) | `requestCounters`, the ticker, `request_count` | `ServeHTTP` counts, `updateRequestCounters` writes | | `RequestCounters` |
| tokens: `controllers/auth.go`, `middleware/auth_middleware.go`, `models/token.go` | `users` (whether they exist), `blacklisted_tokens` | register, login, logout, the check of each request, the cleanup | every API request | `AuthTokens` |
| WAF handler and decision cache (`proxy/waf.go`) | `wafDecisionCache`, the transaction and wrapper of each request | `WAFHandler`, the cache's cleanup | `GetWAF`, the backend, `LogWAFEvent` | `WAFHandler` |
| WAF event log (`services/waf_log_service.go`) | `logBatch`, the workers' batches, `waf_log`, `waf_log_detail` | `LogWAFEvent`, `flushBatch`, `processBatchInWorker`, `cleanupOldLogs` | reads Coraza's transaction objects | `WAFLogs` |
| log queries, dashboard, statistics, AI report | none | SQL reads; one external call | the log tables | not modelled |
| users beyond their existence, settings, pages, routing, database set-up | one row per operation | single statements, templates | | not modelled |

What is hard in this code:

* two `WAFManager`s with a mutex each share versions, a lock and the rules files; a second lock of
  `ruleDbMutex` stops a checker; a token channel, a timeout and a helper goroutine race each other;
* the monitor works on copies of rows, without the mutex the handlers use;
* handlers check, read and write rows in separate statements without transactions;
* two goroutines start one listener, each with a notion of its own whether it runs;
* a token is looked up, and its expiry checked, at different times, while a cleanup deletes rows;
* counters and log batches are handed over between goroutines, and statements fail in the middle;
* decisions are cached across changes of the rules;
* the process ends, and what is in memory is gone.

`PROJECT.json` lists each of these at its line, with the properties that cover it.

## 2. Modules

Each component has a module (state, `Init`, one action per step, `Next`, `Spec`, properties), an `MC`
module for TLC and a module of proofs. A step is what the code does without another goroutine in between:
one database statement, or one section of a mutex. Definitions named as mutations, next to the action they
change, are the slips each property is tested with; `Next` does not use them.

Four components have an abstract specification, a small module that says what they promise in terms a user
of them could understand, and a refinement mapping under which the detailed one implements it, checked by TLC
and proved:

| detailed | abstract | mapping |
|---|---|---|
| `WAFManager` | `RulePublication`: the states of a site's rules are published in its file, never backwards, and loaded into the managers' instances, in the API's never backwards; a request of the rule API is confirmed with an instance that has its change, or with no custom rules | rules = the revision of the site's row; file and instances = the revision their query saw, none for a truncated file; a request is `waiting` from the change of the table on, and confirmed or refused with the end of its reload |
| `AuthTokens` | `RevocableTokens`: a set of revoked tokens that only grows; a request is served with a token nobody had revoked when it came | revoked = tokens whose logout answered 200, though their rows go away when they expire |
| `RequestCounters` | `LossyCounters`: a count waits until it is written, once, or lost | waiting = in the map or in the round's copy |
| `WAFLogs` | `EventStore`: an event is stored or dropped, and leaves the store only when it is old | waiting = in the batch or with a worker; stored = it has a row |

`ServingPath` composes: it `EXTENDS RequestCounters`, takes its actions as they are (`Count` is its `ServeHTTP`,
`CountersStep` its `Round`) and inherits its properties, since each of its steps is a step of the counters or
leaves them alone (theorem `PathRunsCounters`).

`SiteServing` composes `SiteProxy` and `ServingPath`, which see one `ProxyServer` from its two sides: what the
handlers and the monitor do to the maps is what `ServingPath` lets its surroundings and its `Start` do. A site of
`ServingPath` is a domain of `SiteProxy`; its entry is `absent`, `http` or `https`; a call of `AddOrUpdateSite` is
a thread between its two halves; `Start` loads sites in the first round of the monitor goroutine (`LoadActiveSites` is
one function, called by both), and the rounds after it are `MonitorSiteChanges`. Requests, listeners and counters stand
still under the mapping. Where `Start` is, and what it owes, the mapping takes from `started` and `owed` of `SiteProxy`.

### WAFManager
Threads: `Requests` (inside `GetWAF`), `Handlers` of the rule API (the change of the table, then
`ReloadWAF`), `Workers` (the goroutines of `RulesNeedReload`), the two `Checkers` (`CheckForRuleUpdates`)
and their `Helpers`. `pc` says which step is next, `site` which site the thread works for, `got` which
rules it has read or built. A row is its status and a revision `rev` that every change increases; file
and instance carry the revision their query saw. Mapping: `LockManager` = `wm.mutex.Lock()` of
`ReloadWAF`; `QueryRules`, `TruncateFile`, `WriteFile` = `GenerateCustomRulesFile` with `ruleDbMutex` held;
`BuildWAF` = the rest of `LoadRulesWithCustomRules`, which reads the file after that mutex was released;
`StoreNewWAF`, `StoreReloaded` = the two callers' stores. `Tick`, `HelperTryLock`, `LockRuleDb`,
`ReceiveLock`, `LockTimeout`, `UnlockRuleDb`, `PutToken` = the lock with a timeout. `wm.mutex` has
readers for one map read only, so the model waits for its writer and holds no read lock.
A change within the second of a version may not be counted (`sameSecond`), because `updated_at` has whole
seconds. Beego sets an `auto_now` column in a partial `Update` too, so a toggle counts as a change.

### WAFRules
The handlers of the rule API, statement by statement: `CreateRule` (site, permission, validation, text) and
`InsertWAFRule`; `FindRule`, `CheckSiteThenUpdate` or `CheckSiteThenChange`, then `UpdateWAFRule`,
`DeleteWAFRule` or `ReadStatus`, `SetStatus`, `GetUpdatedRule`; at the end `ReloadWAF` in two steps under
`wm.mutex` (the module above has all of its steps; here many rules matter, there many threads). `Refuse` and
`StatementFails` are the ways out. A rule text is the set of its SecRule ids and whether Coraza accepts it by
itself; an instance builds when all texts are accepted and no id occurs twice. `ValidateRuleParameters` and
`GenerateRule` are operators on request bodies. The bodies of the instance are of every kind that leads a
different way: a text of its own, a text among the parameters, a template, a custom rule without a text.
`DeleteSite` takes a site's row away and leaves its rules. `leftOut` is history: sites with a toggle that could
not read its rule back, and therefore answered an error without a reload.

### SiteProxy
`sites` and `certRows` are the tables; `domainMap` and `certificates` the proxy's maps. A handler's
request starts with its first statement (`CreateSite`, `UpdateSite`, ...) and continues with the writes
(`InsertSite`, `SaveSite`, `SetStatus`, ...) and `RefreshSite` or `RemoveSiteFromProxy`. The monitor copies
the active rows (`QueryActiveSites`) and takes them one by one. `AddCertificate` and `AddToMap` are the
two halves of `AddOrUpdateSite`. Reads may fail (`"read"` in `Faults`): `Exist()` then finds nothing, so the handlers'
checks of a domain or of a certificate in use let the request pass, and a certificate that `AddOrUpdateSite` cannot read
counts as missing, so the site is served on plain HTTP. A failure of any other read leaves the state as it is.
History variables: `quiet` (no handler has worked since the current round began), `started` (the monitor goroutine's
first round, that of `Start`, is over), `owed` (the domains that round found and nobody has removed since), `owned`
(the domains each row has had in the table), `unread` (in a quiet round, the domains whose certificate could not be read)
and `overtaken` (the domains removed while the monitor was adding them, without a certificate since).
`Init` allows any tables, so that a restart after a crash is an initial state.

### ServingPath
`start` says where `Start` is: the query of the active sites, the loop over them (`LoadSite`, `SkipSite`), the
goroutines (`StartListeners`), the look at the certificates (`CheckCertificates`). `MonitorTick` is the tick of
`MonitorCertificates` that finds certificates. `binding` holds the goroutines about to listen, `listening` the open
ports; another process may hold the HTTPS port for a while (`busy`), and of two servers on one port the second
fails. A client's request goes `Lookup`, then 404, redirect or `Count` and `Forward`, and the map may change in
between. `GetCertificate` answers by exact name, and with any certificate to a client that sends no name. `AddOrUpdateSite`
has three callers: `Start`, the API's handlers, which hold `proxyMutex`, and `MonitorSiteChanges`, which does not. Each
makes one call at a time and their calls overlap; that the calls of `SiteProxy` are among these is what `SiteServing`
shows.
`owed` and `forwarded` are history.

### RequestCounters
`ServeHTTP` counts, `TakeCounters` is the critical section of a round, then the check of the table, `Begin`,
one `Update` per site, `Commit`; each may fail as the code handles it. `SiteTable` says whether a table named
`site` exists. With `TRUE` and a check that may fail, a behaviour may go either way at the check, so the
behaviours of `FALSE` are among those checked. `served` and `lost` are history.

### AuthTokens
A token is its user and expiry. `CheckBlacklist` and `ParseToken` are separate steps with the clock in
between. `issued`, `loggedOut` and `late` are history: `late[r]` says that the request came after a
successful logout of its token. Pages (`kind = "ui"`) skip the blacklist as `GetUserFromJWT` does. A user id is
given once (`Register`), and its row may go (`DeleteUser`) while its tokens stay valid.

### WAFHandler
A request has a cache key and a content; an instance maps both to a verdict. Steps follow the handler:
`Hit`/`Miss`, `GetWAF`, the phases, `Forward` on the wrapper, the response phases, `CacheDecision`, `Allow`,
`Close`. `ReloadRules` changes the rules at any time. Failures: no instance (the request is not inspected),
a body that cannot be read (the body phase is skipped), a backend that breaks off (the panic of
`ReverseProxy` leaves the handler). `allowing[k]` is history: the last time rules that let key `k` pass were loaded.

### WAFLogs
Entries hold references to transaction objects, which `Close` returns to Coraza's pool. `FlushBatch` hands the
batch to a worker; `InsertLogs`, `InsertDetails`, `Commit` are its statements with their failures, and
`CreateLogObjects` is what the worker reads off the objects. Two services delete old rows: that of `init()`, whose
retention is the buffer size (the arguments are swapped), and that of the log pages. `Crash` empties the memory.
`dropped` and `leftover` are history: events of a failed batch or a crash, and details whose own deletion failed.

## 3. Runs

| run | question | bounds | states |
|---|---|---|---|
| `WAFManager_files` | are files and the API's instances consistent under races and failures, and do they implement the publication of rules? | 1 site, 1 request, 2 handlers, 1 worker, 3 revisions | 1.7 M |
| `WAFManager_checkers` | do token and lock survive both checkers, helpers and timeouts, and who closes a circle of waiting? | 1 site, both tickers, 1 handler, 2 revisions | 0.90 M |
| `WAFManager_blocked` | does every request return? No | 1 site, 1 request, 1 ticker | |
| `WAFManager_unlearned` | does a change of a rule reach the proxy? No | 1 site, 1 request, 1 handler, 2 revisions | |
| `WAFRules_handlers` | do handlers, table and instance agree, whoever interleaves? | 2 sites, 2 users, 2 handlers, 3 requests, 2 rules, 4 bodies | 0.89 M |
| `SiteProxy_handlers` | are tables and maps consistent, with all operations, and are the maps' steps those `ServingPath` allows? | 2 rows, 2 domains, 2 requests, 1 certificate, reads and writes that fail, WAF off and nothing pending in the first tables | 1.8 M |
| `SiteProxy_answer` | do handlers answer and active sites come to be served? | 2 rows, 2 domains, 2 targets, no certificates, delete and status toggles, reads succeed | 0.92 M |
| `SiteProxy_readded` | are only active sites served in the end? No | 1 site, 1 request | |
| `ServingPath_requests` | is what is counted what was passed on, does HTTPS come up, is there a gap at start? | 1 site with a certificate, 1 client, 2 requests, a call of each caller | 0.96 M |
| `AuthTokens_logout` | do the tables implement revocation, are they emptied? | 1 user, 2 requests, clock to 4 | 95 k |
| `WAFHandler_requests` | do events, answers, cache and rules agree? | 1 key, 2 requests, 4 verdicts, clock to 3 | 0.90 M |
| `WAFLogs_events` | do batches and tables implement an event store, are events written? | 2 events, 2 workers, days 0 to 3, crashes at any time | 0.46 M |

Why the bounds are enough: every property is about two actors that meet on one site, row, key or token, and
about one actor that meets the periodic goroutine. The bounds give two of the actors, the periodic one and
(where a history matters) one more change than the actors can have in hand. Two sites are used where the
loop over sites, or the owner of a site, is what could go wrong. Sites of `WAFManager` interact only through
`ruleDbMutex` and `wm.mutex`; for two and more of them the proofs speak. In `ServingPath` one client suffices for
the listeners and the redirect (the client comes twice) and a request meets the API, the monitors and a round of
the counters; that two clients count right is a matter of `countersMutex` and is proved for any number.
Two rules with `MaxRule = 2` are enough for two texts that clash; the third request of `WAFRules` is one more than
the two handlers can have in hand.

Bounds are named: `MaxRev`, `MaxRule`, `MaxRequests`, `MaxTime`, `MaxDay`. `MaxServe` and the guard of
`NextDay` are assumptions on time: a request lasts at most `MaxServe` units, and no batch lasts a day.
`WAFOffSpec` starts `SiteProxy_handlers` on tables whose sites have the WAF switched off and are not pending;
requests switch it on and bring pending sites.
`CHECK_DEADLOCK FALSE` stands where the system may stop: all handlers or clients have used up `MaxRequests`, the
counter goroutine has returned, a checker has locked itself out, or the clock is at its end.

### Fairness
Where liveness is checked, goroutines that can run do (weak fairness), and one that waits for a `sync.Mutex` gets
it, since the mutex hands itself to a starving waiter (strong fairness per thread: `WAFManager`, `SiteProxy`).
Tickers fire as long as the process runs: monitors, cleanups, counters, batches. Nobody has to send a request, a
logout or a login, and nothing has to fail or to succeed: a failing statement is not excluded by fairness except that
in `WAFLogs` a batch that fails is dropped, which its property allows. `ServingPath` asks fairness of `Start`, of the
round of the counters, of the tick of `MonitorCertificates` and of each goroutine that is about to listen, and none of
clients, API calls or the process that holds the port. One specification assumes more, and only to make a violation
stronger: `RequestedFairSpec` has every site requested again and again over more than a minute, so that the proxy's
check for changes does run, and the change still does not arrive.

## 4. What the runs show

Holds:
* a rules file is written by one thread at a time and never goes back to older rules, and neither does an
  instance of the API's manager; a handler whose reload reports success finds its own change there
  (or no custom rules, as the code goes on without them when the file cannot be generated);
* the token of `ruleDbTryLock` is never in two places, so `unlockRuleDb` does not block;
* once the handlers that changed rules of a site are done, the instance of the API's manager has the rules that the
  table selects, if the last reload succeeded; a deleted rule is not brought back by an update that had found it;
  rules do not change hands; a toggle takes back nothing of an update but, possibly, the status;
* a domain is routed only to a site that the table had given it to, whatever the handlers' checks found: the column's
  constraint decides, and a refused update is not published. The exception is a site deleted during its own update;
* a monitor round that no request overlaps repairs the maps, but for the certificates it could not read: their sites
  are on plain HTTP until a later round. An entry for HTTPS has its certificate, except when a removal overtook the
  monitor between the certificate and the entry. A refresh leaves no gap;
* the HTTP port opens after the active sites are loaded; HTTPS comes up once there are certificates for good, also if
  `Start` found its port taken, as long as it is free when `MonitorCertificates` tries (it tries once);
* a token that was logged out opens the API to no later request, although its row is deleted when it expires
  and expiry is checked after the look-up, as long as the database answers the look-up;
* what is counted are the requests passed on to WAF or backend, each at most once, and a count is lost only with a
  failed round; counts do not pile up in memory while the goroutine lives;
* the event of a request agrees with what its client got; skipped inspections rest on rules that let the key
  pass less than the entry's life plus one request ago;
* handlers, `Start` and the monitor together do nothing to the maps that the request path, `Start` and the listeners
  were not checked against: `Start` skips no site it found unless it cannot be parsed or somebody removed it;
* requests, handlers, workers and helpers never wait for each other in a circle over the mutexes: whenever threads do,
  one of them is a periodic checker that has locked itself out (`WAFManager_blocked`); `proxyMutex` is in no circle;
* events are stored at most once, and kept for the shorter of the two retentions; details have their log.

Does not hold (each has a run that exhibits it, see `findings`):
* `WAFManager_blocked`: a periodic checker that finds a site without a version calls `ReloadWAF` with
  `ruleDbMutex` held, locks it a second time and stops; requests then wait for ever (`waf.go:680`, `:706`, `:104`).
* `WAFManager_unlearned`: the rule API reloads the manager of `GetWAFManager`, and the proxy serves with one of its own,
  which is to notice changes by itself. The API's reload stamps the version both share, after the change, and the
  proxy's check for rows newer than the version finds none (`waf.go:263`, `:230`, `wafrule.go:232`).
* `SiteProxy_readded`: the monitor adds back a site that was deactivated during its round, for good (`proxy.go:282`).

Seen while modelling, without a run of its own:
* Rules are selected by `status = 1`; the API's toggle and the pages store `enabled` and `disabled`, and toggling a rule
  of status `1` stores `enabled`, which unloads it (`waf.go:128`, `models/wafrule.go:193`).
* The counters look for a table `site` and update it, the sites are in `sites`; when the check finds no table, the ticker
  is stopped for good (`proxy.go:511`).
* `GenerateRule` numbers a SecRule by `rule.ID + 100000` before the row has an id: generated rules of one kind all get the same
  number, and an instance with two of them does not build; the handlers log that and answer success (`rule_generator.go:139`).
* `UpdateRule` decodes the body over an empty rule and saves every column: an update of a templated rule that sends no text
  blanks it. The pages send `custom` in lower case, which is no type the validation knows.
* `DeleteSite` leaves the site's rules, which nobody can manage afterwards; an update or deletion of no row is no error;
  `TestRule` accepts a rule that fails in combination with another.
* A toggle that cannot read its rule back answers an error after the change, and the instance lags behind (`wafrule.go:455`).
* A deleted rule counts for nothing in the check for newer rows (`waf.go:228`).
* The checker's helper keeps `ruleDbMutex` for good when the checker has timed out before (`waf.go:635-648`).
* `init()` swaps retention and buffer size (`waf.go:54`): with the example settings old events stay 100 days until
  the log pages are opened once, and a buffer size below the retention would delete too early.
* Entries refer to transactions that are closed before a worker reads them: the rows may describe another request.
* `DELETE` of old details and of old logs are not one transaction: a failure of the first leaves details behind.
* Requests answered from the cache, or let through because no instance could be built, leave no event; the cache key
  has neither headers nor body.
* An update of a site that is deleted meanwhile changes no row, reports success and brings the site back into the proxy,
  under a domain that may be another site's by then (`controllers/site.go`; `SaveSite` in the model).
* A query that fails makes `Exist()` false: the check of a domain, and that of a certificate in use, then let the request
  pass. A certificate read that fails serves a site on plain HTTP until the next round of the monitor (`proxy.go:440`).
* A certificate may be deleted between its "in use" check and a site's update; a renamed site stays served under its
  old domain; `UpdateSite` writes back toggles it read before; `DeleteSite` may remove a domain created anew.
* `MonitorCertificates` starts an HTTPS server that `Start` may have started already; the second fails to listen and
  only logs it. Nothing is ever stored under `_default`, the name `GetCertificate` falls back to.
* Pages do not look at the blacklist; a user deleted keeps using the API until the token expires; a login in the second
  of an earlier one yields the same token, blacklisted or not.
* `UpdateUser` reads a row and writes back every column: of two concurrent updates one may be undone.
* `dashboard.go:104` counts the action `block`, the handler logs `blocked`; log pages order by `created_at` alone, so a page
  boundary between equal times may repeat or skip a row.

## 5. Proofs

All theorems hold for any values of the constants that satisfy the named assumptions (`ThreadsAssumption`,
`BoundsAssumption`, `DataAssumption`, `SiteAssumption`, `AuthAssumption`, `CountersAssumption`, `PathAssumption`,
`HandlerAssumption`, `LogsAssumption`): kinds of threads are disjoint, bounds are naturals, faults are among those
the module knows. Each module of proofs defines an inductive invariant (`IInv`, in `ServingPathProofs` `PathInv`, for `SiteServing` `ServingInv`),
shows that `Init` implies it and that each action keeps it, one step per action, and draws the properties from it.
Why the properties alone are not inductive:

* `WAFManagerProofs`: `KindOK` (a thread is only at steps of its kind), `DbMutexOK` and `WmMutexOK` (who is inside a
  critical section holds its mutex), `TokenNeverDuplicated`, `FileOK` (inside the section, what was read is as new
  as the file), `ApiOK` (what a reload has read or will read is as new as the instance it replaces), `ReadOwnOK`
  (the handler's change is in whatever its reload, or a later one, has in hand). From it follow
  `GenerationExclusive`, `ReloadedSeesOwnChange` and the action properties
  `FileNeverGoesBack`, `ApiInstanceNeverGoesBack`. With `GotOK` (what a thread has in hand is a revision the file has or
  had) they give the refinement `ImplementsPublication`, which contains them: a step of the detailed module is one of
  the abstract one or a stutter, one lemma per kind of step. `DbHolderOK` and `WmHolderOK` are the converse of
  `DbMutexOK` and `WmMutexOK`: a mutex that is taken belongs to a thread inside its critical section. With them,
  `OnlyCheckersDeadlock` (theorem `DeadlocksHaveAChecker`): of threads that all wait for one of themselves (`WaitsFor`
  says whom each step that locks waits for), one is the holder of `ruleDbMutex`, a checker on its way into the second lock.
* `WAFRulesProofs`: `Held` (what a handler has in hand at each step: a permitted site, the row's own site and
  creator, a text that was validated) and `Reloads` (who builds holds `wm.mutex`, and what it has read, or the
  instance has, is what the table selects unless a reload of the site is still to come). From it
  `CustomRulesHaveText`, `InstanceFollowsTable`, and the three action properties.
* `SiteProxyProofs`: `ProxyMutexOK`; `DomainsUnique` (the column's constraint, a part of the invariant only); `OwnedOK`
  (rows own their domains, and so does every site that a goroutine is about to publish); `CertificatesOK` (a certificate
  added is there until its entry is, and as long as the entry, unless a removal overtook the monitor); `RoundOK` (in a
  quiet round, what the monitor has in hand are rows of the table, over HTTPS unless unread) and `ServedOK` (every other
  active row is served already). From it `RoutedToOwner`, `HTTPSEntriesHaveCertificates`, `MonitorRepairs`, `NoGapInService`.
  For the composition, `ServingInv` adds `RowsOK` (of the rows a round has in hand, no two have one domain, so no site
  is loaded twice) and `StartedOK` (where the monitor goroutine is before and after the first round). From it
  `ImplementsServingPath`, the refinement, and, with `OwedOK`, `StartLeavesNoGap`: when `Start` goes on to open its port,
  each site it found has an entry, if nobody removed it and it could be parsed. `HolderOK` (`proxyMutex`, when taken, belongs
  to a handler inside its section) gives `ProxyNeverDeadlocks`: no set of handlers and monitor waits only for itself.
* `ServingPathProofs`: the counters' invariant, `StartOK` (a site owed is in the map, in `Start`'s hands, or left in
  its list) and `VisitsOK` (requests counted are those forwarded and those about to be). From it `VisitsCountedOnce`
  (a count of clients changes by one with each step: cardinalities), `NoStartupGap`, and the counters' own theorems
  for the proxy at work.
* `AuthTokensProofs`: `RequestOK`, `RowKept` (a logged-out token has its row until it expires), `LateOK` (a late
  request that got past the look-up holds an expired token), and for the refinement `ClockOK`. From it
  `LoggedOutRefused` and `ImplementsRevocation`.
* `RequestCountersProofs`: `CopyOK` (between rounds the goroutine holds no counts) and `CountsAddUp` itself; from it
  `ImplementsLossyCounters`.
* `WAFHandlerProofs`: `EventOK`, `PhaseOK` (who passed a phase was not interrupted in it), `BasisOK` (how old the
  rules of a request in flight are), `AllowingOK`, `CacheOK` (an entry is at most `MaxServe` younger than rules that
  justify it). From it `EventMatchesAnswer`, `InterruptedNotServed`, `RulesTakeEffect`.
* `WAFLogsProofs`: `Finite`, `Batches` (what each step of a worker holds, and that an event is in a batch only once
  logged), `EventsOnce`, `Rows` (ids and a batch's rows are unique, a row has the day of its event), `Today` (a
  transaction object in use, or a batch's row, shares its id with rows of today only), `Details` (a detail about to
  be written is of a log of today, and a policy between its statements has no details of old logs left). Retention
  needs that no detail's log is deleted between the read and the commit: a batch lasts less than a day. From it
  `EventsOnce`, `DetailsHaveLogs`, `ImplementsEventStore`.

Only model-checked: all liveness (`HandlersAnswered`, `ActiveSitesServed`, `BlacklistCleaned`,
`ExpiredEntriesRemoved`, `EventsStored`, `CountsLeaveMemory`, `ListenerComesUp`), which is beyond the proof system.

## 6. Not modelled

* Not reachable: `processLogs`/`flushLogs` (nothing sends to `logChan`), `Shutdown` and `ProxyServer.Stop` (only
  `StopProxyServer` calls them, and nothing calls that), `IncrementRequestCount`/`IncrementBlockedCount` and
  `createValuePlaceholders` (no caller), `models/settings.go`.
* Reads without state of their own: log queries, dashboard, statistics, the AI report, lists and profiles, pages. They
  show what the modelled tables hold at the moment; a query's count and its rows are two statements and may differ, and
  no text of the repository promises otherwise.
* `UpdateUser`: single row, two statements; its lost update is listed as a hazard.
* Abstracted: texts of pages, logs and rules, passwords, Coraza itself (a function from requests to verdicts; which
  rule sets build), MySQL beyond atomic statements, unique constraints and commits, and in `SiteProxy` permissions
  (they decide whether a request arrives; `WAFRules` has them).
* Set-up: schema, seeding of the first user, routing, the main function.

## 7. Plan

Done, in order of importance: `WAFManager`, `SiteProxy`, `AuthTokens`, `RequestCounters`, `WAFHandler`, `WAFLogs`, `ServingPath`
(composed with the counters), `WAFRules`, four refinements of abstract specifications, `SiteServing` (which joins
`SiteProxy` and `ServingPath`), and proofs of all of them. What could still be added:

1. Composition of `WAFHandler` with the instances of `WAFManager`: how late a request sees a change of a rule, once the
   proxy learns of changes at all (`WAFManager_unlearned`). `RulePublication` is what such a module would rest on.
2. `users` with `UpdateUser`, should the handlers come to promise something about concurrent updates.
