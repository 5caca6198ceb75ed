------------------------------- MODULE WAFLogs -------------------------------
(***************************************************************************)
(* The WAF's event log: the transactions of inspected requests             *)
(* (proxy/waf.go), the batch that LogWAFEvent collects, the workers that   *)
(* write a batch to the tables waf_log and waf_log_detail, and the         *)
(* retention policy that deletes old rows (services/waf_log_service.go).   *)
(*                                                                         *)
(* There are two services in the process.  init() of proxy/waf.go makes    *)
(* the one that is given the events; GetWAFLogService makes one for the    *)
(* log pages when the first of them is opened.  Both delete old rows.      *)
(* Coraza takes transaction objects from a pool and Close gives them back. *)
(***************************************************************************)
EXTENDS Integers, FiniteSets

CONSTANTS
    Requests,          \* the requests the WAF inspects
    Transactions,      \* the objects of Coraza's pool
    Workers,           \* goroutines that run processBatchInWorker
    WAFLogBufferSize,  \* conf/app.conf
    WAFLogRetention,   \* conf/app.conf, days
    MaxDay,            \* bound on the clock
    Faults,            \* what may fail: "insert", "query", "commit", "clean", "crash"
    None

ASSUME LogsAssumption ==
    /\ WAFLogBufferSize \in Nat \ {0}
    /\ WAFLogRetention \in Nat \ {0}
    /\ MaxDay \in Nat
    /\ Faults \subseteq {"insert", "query", "commit", "clean", "crash"}
    /\ None \notin Requests

VARIABLES
    day,
    pc, tx,          \* of a request: "new", "inspected", "logged", "closed", and its object
    holder,          \* the request whose data an object holds
    loggedOn,        \* the day in the entry of a request
    logBatch,        \* the entries that wait for a flush
    step, entries,   \* of a worker, with its batch
    logs, details,   \* the rows of its transaction
    waf_log, waf_log_detail,  \* the committed rows
    nextId,          \* AUTO_INCREMENT of waf_log
    services,        \* the services made so far
    cleaning,        \* those between the two statements of cleanupOldLogs
    cleaned,         \* when each last ran it
    dropped,         \* history: events lost with a failed batch or a crash
    leftover         \* history: details that a failed cleanup left behind

requests  == <<pc, tx, holder, loggedOn>>
workers   == <<step, entries, logs, details>>
tables    == <<waf_log, waf_log_detail>>
retention == <<services, cleaning, cleaned>>
history   == <<dropped, leftover>>
vars      == <<day, requests, logBatch, workers, tables, nextId, retention, history>>

Services == {"proxy", "ui"}

(* NewWAFLogService takes (retentionDays, logDetails, bufferSize).  init() *)
(* gives it (bufferSize, logDetails, retention).                           *)
RetentionDays(s) == IF s = "proxy" THEN WAFLogBufferSize ELSE WAFLogRetention

Init ==
    /\ day = 0
    /\ pc = [r \in Requests |-> "new"]
    /\ tx \in [Requests -> Transactions]
    /\ holder = [t \in Transactions |-> None]
    /\ loggedOn = [r \in Requests |-> 0]
    /\ logBatch = {}
    /\ step = [w \in Workers |-> "idle"]
    /\ entries = [w \in Workers |-> {}]
    /\ logs = [w \in Workers |-> {}]
    /\ details = [w \in Workers |-> {}]
    /\ waf_log = {}
    /\ waf_log_detail = {}
    /\ nextId = 1
    /\ services = {"proxy"}
    /\ cleaning = {}
    /\ cleaned = [s \in Services |-> 0]
    /\ dropped = {}
    /\ leftover = {}

-----------------------------------------------------------------------------
(* The requests. *)

Free(t) == \A r \in Requests : tx[r] = t => pc[r] \notin {"inspected", "logged"}

(* NewTransaction: an object of the pool holds the request from now on. *)
Inspect(r) ==
    /\ pc[r] = "new"
    /\ Free(tx[r])
    /\ pc' = [pc EXCEPT ![r] = "inspected"]
    /\ holder' = [holder EXCEPT ![tx[r]] = r]
    /\ UNCHANGED <<day, tx, loggedOn, logBatch, workers, tables, nextId, retention, history>>

(* The entry refers to the transaction, it does not copy it.  A full batch *)
(* starts one more flushBatch: FlushBatch may happen at any time.          *)
LogWAFEvent(r) ==
    /\ pc[r] = "inspected"
    /\ pc' = [pc EXCEPT ![r] = "logged"]
    /\ loggedOn' = [loggedOn EXCEPT ![r] = day]
    /\ logBatch' = logBatch \cup {r}
    /\ UNCHANGED <<day, tx, holder, workers, tables, nextId, retention, history>>

(* The deferred tx.Close() of the handler. *)
Close(r) ==
    /\ pc[r] = "logged"
    /\ pc' = [pc EXCEPT ![r] = "closed"]
    /\ UNCHANGED <<day, tx, holder, loggedOn, logBatch, workers, tables, nextId, retention,
                   history>>

-----------------------------------------------------------------------------
(* The workers. *)

(* Mutation: the mutex is released between taking the batch and replacing  *)
(* it: an entry appended in between is lost.                               *)
FlushBatchUnlocked(w) ==
    /\ step[w] = "idle"
    /\ logBatch # {}
    /\ \E taken \in (SUBSET logBatch) \ {{}} :
           entries' = [entries EXCEPT ![w] = taken]
    /\ logBatch' = {}
    /\ step' = [step EXCEPT ![w] = "begin"]
    /\ UNCHANGED <<day, requests, logs, details, tables, nextId, retention, history>>

(* flushBatch, of the ticker or of LogWAFEvent. *)
FlushBatch(w) ==
    /\ step[w] = "idle"
    /\ logBatch # {}
    /\ entries' = [entries EXCEPT ![w] = logBatch]
    /\ logBatch' = {}
    /\ step' = [step EXCEPT ![w] = "begin"]
    /\ UNCHANGED <<day, requests, logs, details, tables, nextId, retention, history>>

(* The row of an entry: the time is the entry's, transaction id, rules and *)
(* messages are read off the object it refers to, whosever it is by now.   *)
CreateLogObjects(r, id) ==
    [id |-> id, req |-> r, transaction_id |-> holder[tx[r]], day |-> loggedOn[r]]

(* InsertMulti gives the rows the next ids, in the order of the batch (a   *)
(* set here, so in any order).                                             *)
InsertLogs(w) ==
    LET ids == nextId .. nextId + Cardinality(entries[w]) - 1
    IN  /\ step[w] = "begin"
        /\ \E id \in [entries[w] -> ids] :
               /\ \A r, q \in entries[w] : id[r] = id[q] => r = q
               /\ logs' = [logs EXCEPT ![w] = {CreateLogObjects(r, id[r]) : r \in entries[w]}]
        /\ nextId' = nextId + Cardinality(entries[w])
        /\ step' = [step EXCEPT ![w] = "details"]
        /\ UNCHANGED <<day, requests, logBatch, entries, details, tables, retention, history>>

EndBatch(w) ==
    /\ step' = [step EXCEPT ![w] = "idle"]
    /\ entries' = [entries EXCEPT ![w] = {}]
    /\ logs' = [logs EXCEPT ![w] = {}]
    /\ details' = [details EXCEPT ![w] = {}]
    /\ UNCHANGED <<day, requests, logBatch, nextId, retention, leftover>>

(* Begin or InsertMulti fails: the batch is dropped. *)
InsertFails(w) ==
    /\ step[w] = "begin"
    /\ "insert" \in Faults
    /\ dropped' = dropped \cup entries[w]
    /\ EndBatch(w)
    /\ UNCHANGED tables

(* The rows are read back by transaction id, own and committed ones, and   *)
(* each detail is given the id that the map has for its own.               *)
InsertDetails(w) ==
    LET visible == waf_log \cup logs[w]
    IN  /\ step[w] = "details"
        /\ \E row \in [{l.transaction_id : l \in logs[w]} -> visible] :
               /\ \A x \in DOMAIN row : row[x].transaction_id = x
               /\ details' = [details EXCEPT ![w] =
                      {[waf_log_id |-> row[l.transaction_id].id, req |-> l.req] : l \in logs[w]}]
        /\ step' = [step EXCEPT ![w] = "commit"]
        /\ UNCHANGED <<day, requests, logBatch, entries, logs, tables, nextId, retention, history>>

(* Mutation: a failed query ends the batch. *)
QueryFailsReturns(w) ==
    /\ step[w] = "details"
    /\ "query" \in Faults
    /\ EndBatch(w)
    /\ UNCHANGED <<tables, dropped>>

(* The query or the second InsertMulti fails: the logs are kept, without details. *)
QueryFails(w) ==
    /\ step[w] = "details"
    /\ "query" \in Faults
    /\ step' = [step EXCEPT ![w] = "commit"]
    /\ UNCHANGED <<day, requests, logBatch, entries, logs, details, tables, nextId, retention, history>>

Commit(w) ==
    /\ step[w] = "commit"
    /\ waf_log' = waf_log \cup logs[w]
    /\ waf_log_detail' = waf_log_detail \cup details[w]
    /\ EndBatch(w)
    /\ UNCHANGED dropped

(* Mutation: after an error of COMMIT the entries go back into the batch. *)
CommitFailsRetries(w) ==
    /\ step[w] = "commit"
    /\ "commit" \in Faults
    /\ \/ UNCHANGED tables
       \/ waf_log' = waf_log \cup logs[w] /\ waf_log_detail' = waf_log_detail \cup details[w]
    /\ logBatch' = logBatch \cup entries[w]
    /\ step' = [step EXCEPT ![w] = "idle"]
    /\ entries' = [entries EXCEPT ![w] = {}]
    /\ logs' = [logs EXCEPT ![w] = {}]
    /\ details' = [details EXCEPT ![w] = {}]
    /\ UNCHANGED <<day, requests, nextId, retention, history>>

(* An error of COMMIT: the database has committed or it has not. *)
CommitFails(w) ==
    /\ step[w] = "commit"
    /\ "commit" \in Faults
    /\ \/ dropped' = dropped \cup entries[w] /\ UNCHANGED tables
       \/ /\ waf_log' = waf_log \cup logs[w]
          /\ waf_log_detail' = waf_log_detail \cup details[w]
          /\ UNCHANGED dropped
    /\ EndBatch(w)

-----------------------------------------------------------------------------
(* The retention policy. *)

(* The first log page is opened. *)
GetWAFLogService ==
    /\ "ui" \notin services
    /\ services' = Services
    /\ cleaned' = [cleaned EXCEPT !["ui"] = day]
    /\ UNCHANGED <<day, requests, logBatch, workers, tables, nextId, cleaning, history>>

Old(s) == {l \in waf_log : l.day < day - RetentionDays(s)}

DetailsOf(rows) == {d \in waf_log_detail : \E l \in rows : l.id = d.waf_log_id}

(* The first statement of cleanupOldLogs, once a day. *)
DeleteOldDetails(s) ==
    /\ s \in services \ cleaning
    /\ cleaned[s] < day
    /\ waf_log_detail' = waf_log_detail \ DetailsOf(Old(s))
    /\ cleaning' = cleaning \cup {s}
    /\ UNCHANGED <<day, requests, logBatch, workers, waf_log, nextId, services, cleaned, history>>

(* Its error is logged and the second statement is executed all the same. *)
DeleteOldDetailsFails(s) ==
    /\ s \in services \ cleaning
    /\ cleaned[s] < day
    /\ "clean" \in Faults
    /\ leftover' = leftover \cup DetailsOf(Old(s))
    /\ cleaning' = cleaning \cup {s}
    /\ UNCHANGED <<day, requests, logBatch, workers, tables, nextId, services, cleaned, dropped>>

(* Mutation: the cutoffs of the two statements differ by a day. *)
DeleteOldLogsEarly(s) ==
    /\ s \in cleaning
    /\ waf_log' = {l \in waf_log : l.day >= day - RetentionDays(s) + 1}
    /\ cleaning' = cleaning \ {s}
    /\ cleaned' = [cleaned EXCEPT ![s] = day]
    /\ UNCHANGED <<day, requests, logBatch, workers, waf_log_detail, nextId, services, history>>

(* Mutation: a run counts for the next day too. *)
DeleteOldLogsSkipsDay(s) ==
    /\ s \in cleaning
    /\ waf_log' = waf_log \ Old(s)
    /\ cleaning' = cleaning \ {s}
    /\ cleaned' = [cleaned EXCEPT ![s] = day + 1]
    /\ UNCHANGED <<day, requests, logBatch, workers, waf_log_detail, nextId, services, history>>

DeleteOldLogs(s) ==
    /\ s \in cleaning
    /\ waf_log' = waf_log \ Old(s)
    /\ cleaning' = cleaning \ {s}
    /\ cleaned' = [cleaned EXCEPT ![s] = day]
    /\ UNCHANGED <<day, requests, logBatch, workers, waf_log_detail, nextId, services, history>>

DeleteOldLogsFails(s) ==
    /\ s \in cleaning
    /\ "clean" \in Faults
    /\ cleaning' = cleaning \ {s}
    /\ cleaned' = [cleaned EXCEPT ![s] = day]
    /\ UNCHANGED <<day, requests, logBatch, workers, tables, nextId, services, history>>

(* A day passes: every policy has run, and no request or batch takes that  *)
(* long.                                                                   *)
NextDay ==
    /\ day < MaxDay
    /\ \A s \in services : cleaned[s] = day
    /\ \A r \in Requests : pc[r] \in {"new", "closed"}
    /\ logBatch = {} /\ \A w \in Workers : step[w] = "idle"
    /\ day' = day + 1
    /\ UNCHANGED <<requests, logBatch, workers, tables, nextId, retention, history>>

(* The process ends and is started again: what is in memory is gone, and   *)
(* the daily tickers start anew.                                           *)
Crash ==
    /\ "crash" \in Faults
    /\ pc' = [r \in Requests |-> IF pc[r] = "new" THEN "new" ELSE "closed"]
    /\ holder' = [t \in Transactions |-> None]
    /\ logBatch' = {}
    /\ step' = [w \in Workers |-> "idle"]
    /\ entries' = [w \in Workers |-> {}]
    /\ logs' = [w \in Workers |-> {}]
    /\ details' = [w \in Workers |-> {}]
    /\ services' = {"proxy"}
    /\ cleaning' = {}
    /\ cleaned' = [s \in Services |-> day]
    /\ dropped' = dropped \cup {r \in Requests : pc[r] = "inspected"} \cup logBatch
                          \cup UNION {entries[w] : w \in Workers}
    /\ UNCHANGED <<day, tx, loggedOn, tables, nextId, leftover>>

-----------------------------------------------------------------------------
Work(w) ==
    \/ InsertLogs(w) \/ InsertFails(w)
    \/ InsertDetails(w) \/ QueryFails(w)
    \/ Commit(w) \/ CommitFails(w)

Clean(s) ==
    \/ DeleteOldDetails(s) \/ DeleteOldDetailsFails(s)
    \/ DeleteOldLogs(s) \/ DeleteOldLogsFails(s)

Next ==
    \/ \E r \in Requests : Inspect(r) \/ LogWAFEvent(r) \/ Close(r)
    \/ \E w \in Workers : FlushBatch(w) \/ Work(w)
    \/ GetWAFLogService
    \/ \E s \in Services : Clean(s)
    \/ NextDay
    \/ Crash

Spec == Init /\ [][Next]_vars

(* The batch ticker fires, goroutines run and the database answers. *)
FairSpec ==
    /\ Spec
    /\ WF_vars(\E w \in Workers : FlushBatch(w))
    /\ \A w \in Workers : WF_vars(Work(w))

-----------------------------------------------------------------------------
Ids(rows) == {l.id : l \in rows}

LogRow    == [id : Nat, req : Requests, transaction_id : Requests \cup {None}, day : Nat]
DetailRow == [waf_log_id : Nat, req : Requests]

(* The values the variables take: every row has an id that was handed out, *)
(* and no policy has run on a day still to come.                           *)
TypeOK ==
    /\ day \in 0..MaxDay
    /\ pc \in [Requests -> {"new", "inspected", "logged", "closed"}]
    /\ tx \in [Requests -> Transactions]
    /\ holder \in [Transactions -> Requests \cup {None}]
    /\ loggedOn \in [Requests -> 0..day]
    /\ logBatch \subseteq Requests
    /\ step \in [Workers -> {"idle", "begin", "details", "commit"}]
    /\ entries \in [Workers -> SUBSET Requests]
    /\ logs \in [Workers -> SUBSET LogRow]
    /\ details \in [Workers -> SUBSET DetailRow]
    /\ waf_log \subseteq LogRow
    /\ waf_log_detail \cup leftover \subseteq DetailRow
    /\ nextId \in Nat \ {0}
    /\ \A l \in waf_log \cup UNION {logs[w] : w \in Workers} :
           l.id \in 1 .. nextId - 1 /\ l.day \in 0..day
    /\ services \subseteq Services
    /\ cleaning \subseteq services
    /\ cleaned \in [Services -> 0..day]
    /\ dropped \subseteq Requests

(* An event is stored at most once, and it is never stored and still in a  *)
(* batch or with a worker that may store it: no sequence of flushes and    *)
(* failures writes an event twice.                                         *)
EventsOnce ==
    /\ \A l, m \in waf_log : l.req = m.req => l = m
    /\ \A w, u \in Workers : entries[w] \cap entries[u] # {} => w = u
    /\ \A l \in waf_log : l.req \notin logBatch
    /\ \A w \in Workers : entries[w] \cap logBatch = {}
    /\ \A w \in Workers, l \in waf_log : l.req \notin entries[w]

(* What has become of an event.                                            *)
Fate(r) ==
    IF r \in dropped THEN "dropped"
    ELSE IF \E l \in waf_log : l.req = r THEN "stored"
    ELSE IF pc[r] \in {"new", "inspected"} THEN "new"
    ELSE IF r \in logBatch \/ \E w \in Workers : r \in entries[w] THEN "waiting"
    ELSE "expired"

(* The batch, the workers, the tables and the two retention policies       *)
(* together keep the promise of EventStore: an event is lost only with a   *)
(* batch whose INSERT or COMMIT fails or in a crash, it is stored once,    *)
(* and it leaves the table only when it is older than the shorter of the   *)
(* two retention times (see RetentionDays).                                *)
Store == INSTANCE EventStore WITH
    Events <- Requests,
    Retention <- IF WAFLogBufferSize < WAFLogRetention THEN WAFLogBufferSize
                 ELSE WAFLogRetention,
    today <- day,
    fate <- [r \in Requests |-> Fate(r)]

ImplementsEventStore == Store!Spec

(* A detail belongs to a log that is in the table, unless its own deletion *)
(* failed: they are committed together and deleted one after the other, by *)
(* two policies with different cutoffs, while other batches commit and     *)
(* the process may crash between the two deletions.                        *)
DetailsHaveLogs == \A d \in waf_log_detail \ leftover : d.waf_log_id \in Ids(waf_log)

(* An event that was logged is written or dropped, whatever happens to its *)
(* details.                                                                *)
EventsStored ==
    \A r \in Requests : pc[r] = "logged" ~> (r \in dropped \/ \E l \in waf_log : l.req = r)
=============================================================================
