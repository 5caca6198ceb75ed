---------------------------- MODULE WAFLogsProofs ----------------------------
(***************************************************************************)
(* Proofs about WAFLogs, for any requests, transactions, workers, faults   *)
(* and retention times.                                                    *)
(*                                                                         *)
(* The argument.  An event is in one place at a time: not logged yet, in   *)
(* the batch, with one worker, or in the table (Batches).  Ids are not     *)
(* handed out twice (Rows).  A batch is written on the day its events were *)
(* logged, and rows with the transaction id of one of them are of that day *)
(* too, so a detail refers to a row of today (Today), which no retention   *)
(* policy deletes; and between the two deletions of a policy no detail of  *)
(* an old row comes back (Details).                                        *)
(***************************************************************************)
EXTENDS WAFLogs, FiniteSetTheorems, TLAPS

Busy(r) == r \in logBatch \/ \E w \in Workers : r \in entries[w]
Active(r) == pc[r] \in {"inspected", "logged"} \/ Busy(r)
AllRows == waf_log \cup UNION {logs[w] : w \in Workers}

Finite == IsFiniteSet(logBatch) /\ \A w \in Workers : IsFiniteSet(entries[w])

Batches ==
    /\ \A r \in Requests : Busy(r) => pc[r] \in {"logged", "closed"}
    /\ \A r \in Requests : Active(r) /\ pc[r] # "inspected" => loggedOn[r] = day
    /\ \A l \in waf_log : pc[l.req] \in {"logged", "closed"}
    /\ \A r \in dropped : pc[r] = "closed" \/ pc[r] = "logged"
    /\ \A w \in Workers :
        /\ step[w] = "idle" => entries[w] = {}
        /\ step[w] \in {"idle", "begin"} => logs[w] = {}
        /\ step[w] # "commit" => details[w] = {}
        /\ step[w] \in {"details", "commit"} =>
            \A r \in entries[w] : \E l \in logs[w] : l.req = r

Rows ==
    /\ \A l, m \in AllRows : l.id = m.id => l = m
    /\ \A l \in AllRows : l.day = loggedOn[l.req]
    /\ \A w \in Workers : \A l \in logs[w] : l.req \in entries[w]
    /\ \A w \in Workers : \A l, m \in logs[w] : l.req = m.req => l = m

OfToday(q) == \A l \in AllRows : l.transaction_id = q => l.day = day
Today ==
    /\ \A r \in Requests : Active(r) => OfToday(holder[tx[r]])
    /\ \A w \in Workers : \A l \in logs[w] : OfToday(l.transaction_id)
    /\ \A r \in Requests : pc[r] = "new" =>
        /\ \A t \in Transactions : holder[t] # r
        /\ \A l \in AllRows : l.transaction_id # r

Details ==
    /\ \A w \in Workers : \A d \in details[w] :
        \E l \in waf_log \cup logs[w] : l.id = d.waf_log_id /\ l.day = day
    /\ \A s \in cleaning :
        /\ cleaned[s] < day
        /\ \A d \in waf_log_detail \ leftover, l \in waf_log :
              l.id = d.waf_log_id => l \notin Old(s)

IInv == TypeOK /\ Finite /\ Batches /\ EventsOnce /\ Rows /\ Today /\ Details /\ DetailsHaveLogs

-----------------------------------------------------------------------------
LEMMA InitIInv == Init => IInv
<1> SUFFICES ASSUME Init PROVE IInv
  OBVIOUS
<1>1. TypeOK
  BY LogsAssumption DEF Init, TypeOK, Services
<1>2. Finite
  BY FS_EmptySet DEF Init, Finite
<1>3. Batches /\ EventsOnce
  BY DEF Init, Batches, EventsOnce, Busy, Active
<1>4. AllRows = {}
  BY DEF Init, AllRows
<1>5. Rows /\ Today
  BY <1>4, LogsAssumption DEF Init, Rows, Today, Active, Busy, OfToday
<1>6. Details /\ DetailsHaveLogs
  BY DEF Init, Details, DetailsHaveLogs
<1> QED
  BY <1>1, <1>2, <1>3, <1>5, <1>6 DEF IInv

LEMMA RetentionType ==
  ASSUME NEW s \in Services
  PROVE  RetentionDays(s) \in Nat \ {0}
  BY LogsAssumption DEF RetentionDays

\* The rows of a batch: one per entry, each with an id of its own.
NewRows(w, rows) ==
    /\ rows \subseteq LogRow
    /\ \A l \in rows :
        /\ l.req \in entries[w]
        /\ l.id \in nextId .. nextId + Cardinality(entries[w]) - 1
        /\ l.transaction_id = holder[tx[l.req]]
        /\ l.day = loggedOn[l.req]
    /\ \A l, m \in rows : l.id = m.id => l = m
    /\ \A l, m \in rows : l.req = m.req => l = m
    /\ \A r \in entries[w] : \E l \in rows : l.req = r

LEMMA InsertLogsRows ==
  ASSUME TypeOK, Finite, NEW w \in Workers, InsertLogs(w)
  PROVE  \E rows : NewRows(w, rows) /\ logs' = [logs EXCEPT ![w] = rows]
<1> DEFINE ids == nextId .. nextId + Cardinality(entries[w]) - 1
<1>1. Cardinality(entries[w]) \in Nat /\ nextId \in Nat /\ ids \subseteq Nat
  BY FS_CardinalityType DEF Finite, TypeOK
<1> HIDE DEF ids
<1>2. PICK id \in [entries[w] -> ids] :
         /\ \A r, q \in entries[w] : id[r] = id[q] => r = q
         /\ logs' = [logs EXCEPT ![w] =
               {[id |-> id[r], req |-> r, transaction_id |-> holder[tx[r]],
                 day |-> loggedOn[r]] : r \in entries[w]}]
  BY DEF InsertLogs, CreateLogObjects, ids
<1> DEFINE row(r) == [id |-> id[r], req |-> r, transaction_id |-> holder[tx[r]],
                      day |-> loggedOn[r]]
           rows == {row(r) : r \in entries[w]}
<1>3. \A r \in entries[w] : /\ r \in Requests /\ holder[tx[r]] \in Requests \cup {None}
                            /\ loggedOn[r] \in Nat
  BY DEF TypeOK
<1>4. \A r \in entries[w] : row(r) \in LogRow /\ id[r] \in ids
  BY <1>1, <1>2, <1>3 DEF LogRow
<1>5. \A l \in rows : l.req \in entries[w] /\ l = row(l.req)
  OBVIOUS
<1>6. \A r \in entries[w] : row(r) \in rows /\ row(r).req = r
  OBVIOUS
<1>7. \A l \in rows : /\ l.id = id[l.req]
                     /\ l.transaction_id = holder[tx[l.req]]
                     /\ l.day = loggedOn[l.req]
  BY <1>5
<1> HIDE DEF row, rows
<1>8. NewRows(w, rows)
  BY <1>2, <1>4, <1>5, <1>6, <1>7 DEF NewRows, ids
<1> QED
  BY <1>2, <1>8 DEF rows, row


-----------------------------------------------------------------------------
(* The steps. *)

LEMMA TypeStep ==
  ASSUME IInv, [Next]_vars
  PROVE  TypeOK'
<1> USE DEF IInv
<1>0. TypeOK /\ 1 \in Nat /\ Services = {"proxy", "ui"}
  BY DEF Services
<1>1. ASSUME NEW r \in Requests, Inspect(r) PROVE TypeOK'
  BY <1>0, <1>1 DEF TypeOK, Inspect, workers, tables, retention, history
<1>2. ASSUME NEW r \in Requests, LogWAFEvent(r) PROVE TypeOK'
  BY <1>0, <1>2 DEF TypeOK, LogWAFEvent, workers, tables, retention, history
<1>3. ASSUME NEW r \in Requests, Close(r) PROVE TypeOK'
  BY <1>0, <1>3 DEF TypeOK, Close, workers, tables, retention, history
<1>4. ASSUME NEW w \in Workers, FlushBatch(w) PROVE TypeOK'
  BY <1>0, <1>4 DEF TypeOK, FlushBatch, requests, tables, retention, history
<1>5. ASSUME NEW w \in Workers, InsertLogs(w) PROVE TypeOK'
  <2>1. PICK rows : NewRows(w, rows) /\ logs' = [logs EXCEPT ![w] = rows]
    BY <1>0, <1>5, InsertLogsRows
  <2>2. Cardinality(entries[w]) \in Nat /\ nextId \in Nat
    BY FS_CardinalityType DEF Finite, TypeOK
  <2>3. nextId' = nextId + Cardinality(entries[w]) /\ nextId' \in Nat /\ nextId' >= nextId
    BY <1>5, <2>2 DEF InsertLogs
  <2>4. ASSUME NEW l \in waf_log' \cup UNION {logs[u] : u \in Workers}'
        PROVE  l.id \in 1 .. nextId' - 1 /\ l.day \in 0..day'
    <3>1. waf_log' = waf_log /\ day' = day
      BY <1>5 DEF InsertLogs, tables
    <3>2. CASE l \in rows
      <4>1. /\ l.day = loggedOn[l.req] /\ l.req \in entries[w]
            /\ l.id \in nextId .. nextId + Cardinality(entries[w]) - 1
        BY <2>1, <3>2 DEF NewRows
      <4>2. l.req \in Requests /\ loggedOn[l.req] \in 0..day
        BY <4>1 DEF TypeOK
      <4>3. nextId \in Nat /\ nextId >= 1
        BY DEF TypeOK
      <4> QED
        BY <2>2, <2>3, <3>1, <4>1, <4>2, <4>3
    <3>3. CASE l \notin rows
      <4>1. l \in waf_log \cup UNION {logs[u] : u \in Workers}
        BY <2>1, <2>4, <3>1, <3>3 DEF TypeOK
      <4>2. l.id \in 1 .. nextId - 1 /\ l.day \in 0..day
        BY <4>1 DEF TypeOK
      <4> QED
        BY <2>2, <2>3, <3>1, <4>2
    <3> QED
      BY <3>2, <3>3
  <2>5. logs' \in [Workers -> SUBSET LogRow]
    BY <2>1 DEF TypeOK, NewRows
  <2> QED
    BY <1>5, <2>3, <2>4, <2>5 DEF TypeOK, InsertLogs, requests, tables, retention, history
<1>6. ASSUME NEW w \in Workers, InsertFails(w) PROVE TypeOK'
  BY <1>0, <1>6 DEF TypeOK, InsertFails, EndBatch, requests, tables, retention
<1>7. ASSUME NEW w \in Workers, InsertDetails(w) PROVE TypeOK'
  <2>1. PICK row \in [{l.transaction_id : l \in logs[w]} -> waf_log \cup logs[w]] :
          details' = [details EXCEPT ![w] =
              {[waf_log_id |-> row[l.transaction_id].id, req |-> l.req] : l \in logs[w]}]
    BY <1>7 DEF InsertDetails
  <2>2. \A l \in logs[w] : row[l.transaction_id] \in LogRow /\ l \in LogRow
    BY <2>1 DEF TypeOK
  <2>3. details' \in [Workers -> SUBSET DetailRow]
    BY <2>1, <2>2 DEF TypeOK, DetailRow, LogRow
  <2> QED
    BY <1>7, <2>3 DEF TypeOK, InsertDetails, requests, tables, retention, history
<1>8. ASSUME NEW w \in Workers, QueryFails(w) PROVE TypeOK'
  BY <1>0, <1>8 DEF TypeOK, QueryFails, requests, tables, retention, history
<1>9. ASSUME NEW w \in Workers, Commit(w) \/ CommitFails(w) PROVE TypeOK'
  BY <1>0, <1>9 DEF TypeOK, Commit, CommitFails, EndBatch, requests, tables, retention
<1>10. ASSUME GetWAFLogService PROVE TypeOK'
  BY <1>0, <1>10 DEF TypeOK, GetWAFLogService, requests, workers, tables, history
<1>11. ASSUME NEW s \in Services, DeleteOldDetails(s) \/ DeleteOldDetailsFails(s)
       PROVE  TypeOK'
  BY <1>0, <1>11 DEF TypeOK, DeleteOldDetails, DeleteOldDetailsFails, DetailsOf, requests,
                     workers, tables, history
<1>12. ASSUME NEW s \in Services, DeleteOldLogs(s) \/ DeleteOldLogsFails(s) PROVE TypeOK'
  BY <1>0, <1>12 DEF TypeOK, DeleteOldLogs, DeleteOldLogsFails, requests, workers, tables,
                     history
<1>13. ASSUME NextDay PROVE TypeOK'
  BY <1>0, <1>13, LogsAssumption DEF TypeOK, NextDay, requests, workers, tables, retention, history
<1>14. ASSUME Crash PROVE TypeOK'
  BY <1>0, <1>14 DEF TypeOK, Crash, tables
<1>15. ASSUME UNCHANGED vars PROVE TypeOK'
  BY <1>0, <1>15 DEF TypeOK, vars, requests, workers, tables, retention, history
<1> QED
  BY <1>1, <1>2, <1>3, <1>4, <1>5, <1>6, <1>7, <1>8, <1>9, <1>10, <1>11, <1>12, <1>13, <1>14,
     <1>15 DEF Next, Work, Clean

LEMMA FiniteStep ==
  ASSUME IInv, [Next]_vars
  PROVE  Finite'
<1> USE DEF IInv, Finite
<1>1. ASSUME NEW r \in Requests, Inspect(r) \/ Close(r) PROVE Finite'
  BY <1>1 DEF Inspect, Close, workers
<1>2. ASSUME NEW r \in Requests, LogWAFEvent(r) PROVE Finite'
  BY <1>2, FS_AddElement DEF LogWAFEvent, workers
<1>3. ASSUME NEW w \in Workers, FlushBatch(w) PROVE Finite'
  BY <1>3, FS_EmptySet DEF FlushBatch, TypeOK
<1>4. ASSUME NEW w \in Workers, Work(w) PROVE Finite'
  BY <1>4, FS_EmptySet DEF Work, InsertLogs, InsertFails, InsertDetails, QueryFails, Commit,
     CommitFails, EndBatch, TypeOK
<1>5. ASSUME NEW s \in Services, Clean(s) \/ GetWAFLogService PROVE Finite'
  BY <1>5 DEF Clean, DeleteOldDetails, DeleteOldDetailsFails, DeleteOldLogs,
     DeleteOldLogsFails, GetWAFLogService, workers
<1>6. ASSUME Crash PROVE Finite'
  BY <1>6, FS_EmptySet DEF Crash
<1>7. ASSUME NextDay \/ UNCHANGED vars PROVE Finite'
  BY <1>7 DEF NextDay, vars, workers
<1> QED
  BY <1>1, <1>2, <1>3, <1>4, <1>5, <1>6, <1>7 DEF Next, Services


\* An event is in the batch, with one worker or in the table.
LEMMA BatchesStep ==
  ASSUME IInv, [Next]_vars
  PROVE  Batches' /\ EventsOnce'
<1> USE DEF IInv
<1>0. TypeOK /\ Batches /\ EventsOnce
  OBVIOUS
<1>1. ASSUME NEW r \in Requests, Inspect(r) PROVE Batches' /\ EventsOnce'
  <2>1. ~Busy(r) /\ (\A l \in waf_log : l.req # r) /\ r \notin dropped
    BY <1>1 DEF Inspect, Batches
  <2>2. /\ pc' = [pc EXCEPT ![r] = "inspected"]
        /\ UNCHANGED <<day, loggedOn, logBatch, step, entries, logs, details, waf_log, dropped>>
    BY <1>1 DEF Inspect, workers, tables, history
  <2>3. \A q \in Requests : /\ Busy(q)' = Busy(q)
                            /\ q # r => pc'[q] = pc[q] /\ Active(q)' = Active(q)
    BY <2>2 DEF Busy, Active, TypeOK
  <2> QED
    BY <1>0, <2>1, <2>2, <2>3 DEF Batches, EventsOnce, TypeOK, Busy, LogRow
<1>2. ASSUME NEW r \in Requests, LogWAFEvent(r) PROVE Batches' /\ EventsOnce'
  <2>1. ~Busy(r) /\ (\A l \in waf_log : l.req # r) /\ r \notin dropped
    BY <1>2 DEF LogWAFEvent, Batches
  <2>2. /\ pc' = [pc EXCEPT ![r] = "logged"]
        /\ loggedOn' = [loggedOn EXCEPT ![r] = day]
        /\ logBatch' = logBatch \cup {r}
        /\ UNCHANGED <<day, step, entries, logs, details, waf_log, dropped>>
    BY <1>2 DEF LogWAFEvent, workers, tables, history
  <2>3. \A q \in Requests : q # r => /\ pc'[q] = pc[q] /\ loggedOn'[q] = loggedOn[q]
                                     /\ Busy(q)' = Busy(q) /\ Active(q)' = Active(q)
    BY <2>2 DEF Busy, Active, TypeOK
  <2>4. pc'[r] = "logged" /\ loggedOn'[r] = day
    BY <2>2 DEF TypeOK
  <2>5. Batches'
    BY <1>0, <2>1, <2>2, <2>3, <2>4 DEF Batches, TypeOK, LogRow
  <2>6. EventsOnce'
    BY <1>0, <2>1, <2>2 DEF EventsOnce, Busy
  <2> QED
    BY <2>5, <2>6
<1>3. ASSUME NEW r \in Requests, Close(r) PROVE Batches' /\ EventsOnce'
  <2>1. /\ pc[r] = "logged" /\ pc' = [pc EXCEPT ![r] = "closed"]
        /\ UNCHANGED <<day, loggedOn, logBatch, step, entries, logs, details, waf_log, dropped>>
    BY <1>3 DEF Close, workers, tables, history
  <2>2. \A q \in Requests : /\ Busy(q)' = Busy(q)
                            /\ q # r => pc'[q] = pc[q] /\ Active(q)' = Active(q)
    BY <2>1 DEF Busy, Active, TypeOK
  <2>3. pc'[r] = "closed" /\ (Active(r)' => Active(r))
    BY <2>1 DEF Busy, Active, TypeOK
  <2> QED
    BY <1>0, <2>1, <2>2, <2>3 DEF Batches, EventsOnce, TypeOK, LogRow
<1>4. ASSUME NEW w \in Workers, FlushBatch(w) PROVE Batches' /\ EventsOnce'
  <2>1. /\ step[w] = "idle" /\ step' = [step EXCEPT ![w] = "begin"]
        /\ entries[w] = {} /\ entries' = [entries EXCEPT ![w] = logBatch]
        /\ logBatch' = {}
        /\ UNCHANGED <<pc, loggedOn, day, logs, details, waf_log, dropped>>
    BY <1>4 DEF FlushBatch, requests, tables, history, Batches
  <2>2. \A q \in Requests : Busy(q)' = Busy(q) /\ Active(q)' = Active(q)
    BY <2>1 DEF Busy, Active, TypeOK
  <2>3. Batches'
    BY <1>0, <2>1, <2>2 DEF Batches, TypeOK
  <2>4. \A u \in Workers : entries'[u] = IF u = w THEN logBatch ELSE entries[u]
    BY <2>1 DEF TypeOK
  <2>5. EventsOnce'
    BY <1>0, <2>1, <2>4 DEF EventsOnce
  <2> QED
    BY <2>3, <2>5
<1>5. ASSUME NEW w \in Workers, InsertLogs(w) PROVE Batches' /\ EventsOnce'
  <2>1. PICK rows : NewRows(w, rows) /\ logs' = [logs EXCEPT ![w] = rows]
    BY <1>0, <1>5, InsertLogsRows
  <2>2. /\ step[w] = "begin" /\ step' = [step EXCEPT ![w] = "details"]
        /\ UNCHANGED <<pc, loggedOn, day, logBatch, entries, details, waf_log, dropped>>
    BY <1>5 DEF InsertLogs, requests, tables, history
  <2>3. \A q \in Requests : Busy(q)' = Busy(q) /\ Active(q)' = Active(q)
    BY <2>2 DEF Busy, Active
  <2>4. Batches'
    BY <1>0, <2>1, <2>2, <2>3 DEF Batches, TypeOK, NewRows
  <2> QED
    BY <1>0, <2>2, <2>4 DEF EventsOnce
<1>6. ASSUME NEW w \in Workers, InsertFails(w) \/ Commit(w) \/ CommitFails(w)
      PROVE  Batches' /\ EventsOnce'
  <2>1. /\ step' = [step EXCEPT ![w] = "idle"]
        /\ entries' = [entries EXCEPT ![w] = {}]
        /\ logs' = [logs EXCEPT ![w] = {}]
        /\ details' = [details EXCEPT ![w] = {}]
        /\ UNCHANGED <<pc, loggedOn, day, logBatch>>
    BY <1>6 DEF InsertFails, Commit, CommitFails, EndBatch, requests
  <2>2. waf_log' = waf_log \/ waf_log' = waf_log \cup logs[w]
    BY <1>6 DEF InsertFails, Commit, CommitFails, tables
  <2>3. dropped' = dropped \/ dropped' = dropped \cup entries[w]
    BY <1>6 DEF InsertFails, Commit, CommitFails
  <2>4. \A q \in Requests : (Busy(q)' => Busy(q)) /\ (Active(q)' => Active(q))
    BY <2>1 DEF Busy, Active, TypeOK
  <2>5. \A r \in entries[w] : r \in Requests /\ Busy(r) /\ pc[r] \in {"logged", "closed"}
    BY <1>0 DEF Batches, TypeOK, Busy
  <2>6. \A l \in logs[w] : l.req \in entries[w]
    BY DEF Rows
  <2>7. Batches'
    BY <1>0, <2>1, <2>2, <2>3, <2>4, <2>5, <2>6 DEF Batches, TypeOK
  <2>8. \A u \in Workers : entries'[u] = IF u = w THEN {} ELSE entries[u]
    BY <2>1 DEF TypeOK
  <2>9. \A l, m \in waf_log' : l.req = m.req => l = m
    BY <1>0, <2>2, <2>6 DEF EventsOnce, Rows
  <2>10. \A l \in waf_log' : l \in waf_log \/ l.req \in entries[w]
    BY <2>2, <2>6
  <2>11. EventsOnce'
    BY <1>0, <2>1, <2>8, <2>9, <2>10 DEF EventsOnce
  <2> QED
    BY <2>7, <2>11
<1>7. ASSUME NEW w \in Workers, InsertDetails(w) \/ QueryFails(w) PROVE Batches' /\ EventsOnce'
  <2>1. /\ step[w] = "details" /\ step' = [step EXCEPT ![w] = "commit"]
        /\ UNCHANGED <<pc, loggedOn, day, logBatch, entries, logs, waf_log, dropped>>
        /\ \A u \in Workers : u # w => details'[u] = details[u]
    BY <1>7 DEF InsertDetails, QueryFails, requests, tables, history, TypeOK
  <2>2. \A q \in Requests : Busy(q)' = Busy(q) /\ Active(q)' = Active(q)
    BY <2>1 DEF Busy, Active
  <2> QED
    BY <1>0, <2>1, <2>2 DEF Batches, EventsOnce, TypeOK
<1>8. ASSUME NEW s \in Services, Clean(s) \/ GetWAFLogService PROVE Batches' /\ EventsOnce'
  <2>1. /\ waf_log' \subseteq waf_log
        /\ UNCHANGED <<pc, loggedOn, day, logBatch, step, entries, logs, details, dropped>>
    BY <1>8 DEF Clean, DeleteOldDetails, DeleteOldDetailsFails, DeleteOldLogs, DeleteOldLogsFails,
       GetWAFLogService, requests, workers, tables, history
  <2>2. \A q \in Requests : Busy(q)' = Busy(q) /\ Active(q)' = Active(q)
    BY <2>1 DEF Busy, Active
  <2> QED
    BY <1>0, <2>1, <2>2 DEF Batches, EventsOnce
<1>9. ASSUME NextDay PROVE Batches' /\ EventsOnce'
  <2>1. /\ UNCHANGED <<pc, loggedOn, logBatch, step, entries, logs, details, waf_log, dropped>>
        /\ logBatch = {} /\ \A w \in Workers : step[w] = "idle"
        /\ \A r \in Requests : pc[r] \in {"new", "closed"}
    BY <1>9 DEF NextDay, requests, workers, tables, history
  <2>2. \A q \in Requests : ~Busy(q)' /\ ~Active(q)'
    BY <1>0, <2>1 DEF Batches, Busy, Active
  <2> QED
    BY <1>0, <2>1, <2>2 DEF Batches, EventsOnce
<1>10. ASSUME Crash PROVE Batches' /\ EventsOnce'
  <2>1. /\ pc' = [r \in Requests |-> IF pc[r] = "new" THEN "new" ELSE "closed"]
        /\ logBatch' = {} /\ step' = [w \in Workers |-> "idle"]
        /\ entries' = [w \in Workers |-> {}] /\ logs' = [w \in Workers |-> {}]
        /\ details' = [w \in Workers |-> {}]
        /\ UNCHANGED <<day, loggedOn, waf_log>>
    BY <1>10 DEF Crash, tables
  <2>2. \A r \in dropped' : r \in Requests /\ pc[r] # "new"
    BY <1>0, <1>10 DEF Crash, Batches, Busy, TypeOK
  <2>3. \A q \in Requests : ~Busy(q)' /\ ~Active(q)'
    BY <2>1 DEF Busy, Active
  <2>4. \A l \in waf_log' : pc'[l.req] = "closed"
    BY <1>0, <2>1 DEF Batches, TypeOK, LogRow
  <2> QED
    BY <1>0, <2>1, <2>2, <2>3, <2>4 DEF Batches, EventsOnce
<1>11. ASSUME UNCHANGED vars PROVE Batches' /\ EventsOnce'
  BY <1>0, <1>11 DEF vars, requests, workers, tables, history, Batches, EventsOnce, Busy, Active
<1> QED
  BY <1>1, <1>2, <1>3, <1>4, <1>5, <1>6, <1>7, <1>8, <1>9, <1>10, <1>11 DEF Next, Work, Services


\* Ids are not handed out twice, and rows keep the day of their event.
LEMMA RowsStep ==
  ASSUME IInv, [Next]_vars
  PROVE  Rows'
<1> USE DEF IInv
<1>0. TypeOK /\ Rows
  OBVIOUS
<1>1. ASSUME AllRows' \subseteq AllRows, loggedOn' = loggedOn,
             \A w \in Workers : \/ logs'[w] = {}
                                \/ logs'[w] = logs[w] /\ entries'[w] = entries[w]
      PROVE  Rows'
  BY <1>0, <1>1 DEF Rows
<1>2. ASSUME NEW r \in Requests, Inspect(r) \/ Close(r) PROVE Rows'
  BY <1>1, <1>2 DEF Inspect, Close, workers, tables, AllRows
<1>3. ASSUME NEW r \in Requests, LogWAFEvent(r) PROVE Rows'
  <2>1. UNCHANGED <<waf_log, logs, entries>> /\ loggedOn' = [loggedOn EXCEPT ![r] = day]
    BY <1>3 DEF LogWAFEvent, workers, tables
  <2>2. \A l \in AllRows : l.req # r
    BY <1>3 DEF LogWAFEvent, AllRows, Batches, Busy, Rows
  <2>3. \A l \in AllRows : loggedOn'[l.req] = loggedOn[l.req]
    BY <2>1, <2>2 DEF TypeOK
  <2> QED
    BY <1>0, <2>1, <2>3 DEF Rows, AllRows
<1>4. ASSUME NEW w \in Workers, FlushBatch(w) PROVE Rows'
  <2>1. logs[w] = {} /\ UNCHANGED <<waf_log, logs, loggedOn>>
    BY <1>4 DEF FlushBatch, requests, tables, Batches
  <2>2. \A u \in Workers : u # w => entries'[u] = entries[u]
    BY <1>4 DEF FlushBatch, TypeOK
  <2> QED
    BY <1>1, <2>1, <2>2 DEF AllRows
<1>5. ASSUME NEW w \in Workers, InsertLogs(w) PROVE Rows'
  <2>1. PICK rows : NewRows(w, rows) /\ logs' = [logs EXCEPT ![w] = rows]
    BY <1>0, <1>5, InsertLogsRows
  <2>2. UNCHANGED <<waf_log, entries, loggedOn>>
    BY <1>5 DEF InsertLogs, requests, tables
  <2>3. \A u \in Workers : logs'[u] = IF u = w THEN rows ELSE logs[u]
    BY <2>1 DEF TypeOK
  <2>4. \A l \in AllRows' : l \in AllRows \/ l \in rows
    BY <2>2, <2>3 DEF AllRows
  <2>5. \A l \in AllRows, m \in rows : l.id # m.id
    <3> SUFFICES ASSUME NEW l \in AllRows, NEW m \in rows, l.id = m.id PROVE FALSE
      OBVIOUS
    <3>1. l.id \in 1 .. nextId - 1 /\ nextId \in Nat
      BY DEF TypeOK, AllRows
    <3>2. m.id \in nextId .. nextId + Cardinality(entries[w]) - 1
      BY <2>1 DEF NewRows
    <3>3. Cardinality(entries[w]) \in Nat
      BY FS_CardinalityType DEF Finite
    <3> QED
      BY <3>1, <3>2, <3>3
  <2> QED
    BY <1>0, <2>1, <2>2, <2>3, <2>4, <2>5 DEF Rows, NewRows
<1>6. ASSUME NEW w \in Workers, InsertFails(w) \/ Commit(w) \/ CommitFails(w) PROVE Rows'
  <2>1. /\ waf_log' = waf_log \/ waf_log' = waf_log \cup logs[w]
        /\ entries' = [entries EXCEPT ![w] = {}]
        /\ logs' = [logs EXCEPT ![w] = {}]
        /\ loggedOn' = loggedOn
    BY <1>6 DEF InsertFails, Commit, CommitFails, EndBatch, requests, tables
  <2>2. \A u \in Workers : /\ logs'[u] = IF u = w THEN {} ELSE logs[u]
                           /\ u # w => entries'[u] = entries[u]
    BY <2>1 DEF TypeOK
  <2>3. AllRows' \subseteq AllRows
    BY <2>1, <2>2 DEF AllRows
  <2> QED
    BY <1>1, <2>1, <2>2, <2>3
<1>7. ASSUME NEW w \in Workers, InsertDetails(w) \/ QueryFails(w) PROVE Rows'
  BY <1>1, <1>7 DEF InsertDetails, QueryFails, requests, tables, AllRows
<1>8. ASSUME NEW s \in Services, Clean(s) \/ GetWAFLogService PROVE Rows'
  <2>1. waf_log' \subseteq waf_log /\ UNCHANGED <<entries, logs, loggedOn>>
    BY <1>8 DEF Clean, DeleteOldDetails, DeleteOldDetailsFails, DeleteOldLogs, DeleteOldLogsFails,
       GetWAFLogService, requests, workers, tables
  <2> QED
    BY <1>1, <2>1 DEF AllRows
<1>9. ASSUME Crash PROVE Rows'
  <2>1. waf_log' = waf_log /\ logs' = [w \in Workers |-> {}] /\ loggedOn' = loggedOn
    BY <1>9 DEF Crash, tables
  <2> QED
    BY <1>1, <2>1 DEF AllRows
<1>10. ASSUME NextDay \/ UNCHANGED vars PROVE Rows'
  BY <1>1, <1>10 DEF NextDay, vars, requests, workers, tables, AllRows
<1> QED
  BY <1>2, <1>3, <1>4, <1>5, <1>6, <1>7, <1>8, <1>9, <1>10 DEF Next, Work, Services

\* The rows that share a transaction id with an event in flight are of today.
LEMMA TodayStep ==
  ASSUME IInv, [Next]_vars
  PROVE  Today'
<1> USE DEF IInv
<1>0. TypeOK /\ Today
  OBVIOUS
<1>1. ASSUME AllRows' \subseteq AllRows, UNCHANGED <<day, tx, holder>>,
             \A w \in Workers : logs'[w] = {} \/ logs'[w] = logs[w],
             \A r \in Requests : /\ Active(r)' => Active(r)
                                 /\ pc'[r] = "new" => pc[r] = "new"
      PROVE  Today'
  BY <1>0, <1>1 DEF Today, OfToday
<1>2. ASSUME NEW r \in Requests, Inspect(r) PROVE Today'
  <2>1. /\ pc[r] = "new" /\ pc' = [pc EXCEPT ![r] = "inspected"]
        /\ holder' = [holder EXCEPT ![tx[r]] = r]
        /\ UNCHANGED <<day, tx, logs, waf_log, entries, logBatch>>
    BY <1>2 DEF Inspect, workers, tables
  <2>2. AllRows' = AllRows /\ \A q : OfToday(q)' = OfToday(q)
    BY <2>1 DEF AllRows, OfToday
  <2>3. OfToday(r)
    BY <2>1 DEF Today, OfToday
  <2>4. \A q \in Requests : q # r => Active(q)' = Active(q) /\ pc'[q] = pc[q]
    BY <2>1 DEF Active, Busy, TypeOK
  <2>5. pc'[r] = "inspected" /\ \A t \in Transactions : holder'[t] = IF t = tx[r] THEN r ELSE holder[t]
    BY <2>1 DEF TypeOK
  <2>6. \A q \in Requests : Active(q)' => OfToday(holder'[tx[q]])
    BY <1>0, <2>3, <2>4, <2>5 DEF Today, TypeOK
  <2> QED
    BY <1>0, <2>1, <2>2, <2>4, <2>5, <2>6 DEF Today
<1>3. ASSUME NEW r \in Requests, LogWAFEvent(r) \/ Close(r) PROVE Today'
  <2>1. /\ pc[r] # "new" /\ \A q \in Requests : q # r => pc'[q] = pc[q]
        /\ pc'[r] # "new"
        /\ Active(r)
        /\ logBatch' \subseteq logBatch \cup {r}
        /\ UNCHANGED <<day, tx, holder, logs, waf_log, entries>>
    BY <1>3 DEF LogWAFEvent, Close, workers, tables, TypeOK, Active
  <2>2. \A q \in Requests : Active(q)' => Active(q)
    BY <2>1 DEF Active, Busy
  <2> QED
    BY <1>1, <2>1, <2>2 DEF AllRows
<1>4. ASSUME NEW w \in Workers, FlushBatch(w) PROVE Today'
  <2>1. /\ entries' = [entries EXCEPT ![w] = logBatch]
        /\ UNCHANGED <<day, pc, tx, holder, logs, waf_log>>
        /\ logBatch' = {}
    BY <1>4 DEF FlushBatch, requests, tables
  <2>2. \A q \in Requests : Active(q)' => Active(q)
    BY <2>1 DEF Active, Busy, TypeOK
  <2> QED
    BY <1>1, <2>1, <2>2 DEF AllRows
<1>5. ASSUME NEW w \in Workers, InsertLogs(w) PROVE Today'
  <2>1. PICK rows : NewRows(w, rows) /\ logs' = [logs EXCEPT ![w] = rows]
    BY <1>0, <1>5, InsertLogsRows
  <2>2. UNCHANGED <<day, pc, tx, holder, waf_log, entries, logBatch>>
    BY <1>5 DEF InsertLogs, requests, tables
  <2>3. \A u \in Workers : logs'[u] = IF u = w THEN rows ELSE logs[u]
    BY <2>1 DEF TypeOK
  <2>4. \A l \in AllRows' : l \in AllRows \/ l \in rows
    BY <2>2, <2>3 DEF AllRows
  <2>5. \A l \in rows : /\ l.req \in Requests /\ Active(l.req) /\ l.day = day
                        /\ l.transaction_id = holder[tx[l.req]]
    BY <2>1 DEF NewRows, Active, Busy, Batches, TypeOK
  <2>6. \A q : OfToday(q) => OfToday(q)'
    BY <2>2, <2>4, <2>5 DEF OfToday
  <2>7. \A l \in rows : OfToday(l.transaction_id)
    BY <1>0, <2>5 DEF Today
  <2>8. \A q \in Requests : Active(q)' = Active(q)
    BY <2>2 DEF Active, Busy
  <2>9. \A q \in Requests : Active(q)' => OfToday(holder[tx[q]])'
    BY <1>0, <2>2, <2>6, <2>8 DEF Today
  <2>10. \A u \in Workers : \A l \in logs'[u] : OfToday(l.transaction_id)'
    BY <1>0, <2>3, <2>6, <2>7 DEF Today
  <2>11. \A q \in Requests : pc[q] = "new" => \A l \in rows : l.transaction_id # q
    BY <1>0, <2>5 DEF Today, TypeOK
  <2>12. \A q \in Requests : pc'[q] = "new" =>
            /\ \A t \in Transactions : holder'[t] # q
            /\ \A l \in AllRows' : l.transaction_id # q
    BY <1>0, <2>2, <2>4, <2>11 DEF Today
  <2> QED
    BY <2>2, <2>9, <2>10, <2>12 DEF Today
<1>6. ASSUME NEW w \in Workers, InsertFails(w) \/ Commit(w) \/ CommitFails(w) PROVE Today'
  <2>1. /\ waf_log' = waf_log \/ waf_log' = waf_log \cup logs[w]
        /\ entries' = [entries EXCEPT ![w] = {}]
        /\ logs' = [logs EXCEPT ![w] = {}]
        /\ UNCHANGED <<day, pc, tx, holder, logBatch>>
    BY <1>6 DEF InsertFails, Commit, CommitFails, EndBatch, requests, tables
  <2>2. \A u \in Workers : /\ logs'[u] = IF u = w THEN {} ELSE logs[u]
                           /\ entries'[u] = IF u = w THEN {} ELSE entries[u]
    BY <2>1 DEF TypeOK
  <2>3. AllRows' \subseteq AllRows
    BY <2>1, <2>2 DEF AllRows
  <2>4. \A q \in Requests : Active(q)' => Active(q)
    BY <2>1, <2>2 DEF Active, Busy
  <2> QED
    BY <1>1, <2>1, <2>2, <2>3, <2>4
<1>7. ASSUME NEW w \in Workers, InsertDetails(w) \/ QueryFails(w) PROVE Today'
  BY <1>1, <1>7 DEF InsertDetails, QueryFails, requests, tables, AllRows, Active, Busy
<1>8. ASSUME NEW s \in Services, Clean(s) \/ GetWAFLogService PROVE Today'
  <2>1. waf_log' \subseteq waf_log /\ UNCHANGED <<day, pc, tx, holder, logBatch, entries, logs>>
    BY <1>8 DEF Clean, DeleteOldDetails, DeleteOldDetailsFails, DeleteOldLogs, DeleteOldLogsFails,
       GetWAFLogService, requests, workers, tables
  <2> QED
    BY <1>1, <2>1 DEF AllRows, Active, Busy
<1>9. ASSUME NextDay PROVE Today'
  <2>1. /\ \A w \in Workers : logs[w] = {} /\ entries[w] = {}
        /\ UNCHANGED <<pc, tx, holder, logBatch, waf_log, logs, entries>>
        /\ logBatch = {}
        /\ \A r \in Requests : pc[r] \in {"new", "closed"}
    BY <1>9 DEF NextDay, requests, workers, tables, Batches
  <2>2. \A q \in Requests : ~Active(q)'
    BY <2>1 DEF Active, Busy
  <2>3. AllRows' = AllRows
    BY <2>1 DEF AllRows
  <2> QED
    BY <1>0, <2>1, <2>2, <2>3 DEF Today
<1>10. ASSUME Crash PROVE Today'
  <2>1. /\ pc' = [r \in Requests |-> IF pc[r] = "new" THEN "new" ELSE "closed"]
        /\ logBatch' = {}
        /\ entries' = [w \in Workers |-> {}] /\ logs' = [w \in Workers |-> {}]
        /\ holder' = [t \in Transactions |-> None] /\ waf_log' = waf_log
    BY <1>10 DEF Crash, tables
  <2>2. \A q \in Requests : ~Active(q)' /\ (pc'[q] = "new" => pc[q] = "new")
    BY <2>1 DEF Active, Busy
  <2>3. AllRows' \subseteq AllRows
    BY <2>1 DEF AllRows
  <2> QED
    BY <1>0, <2>1, <2>2, <2>3, LogsAssumption DEF Today
<1>11. ASSUME UNCHANGED vars PROVE Today'
  BY <1>1, <1>11 DEF vars, requests, workers, tables, AllRows, Active, Busy
<1> QED
  BY <1>2, <1>3, <1>4, <1>5, <1>6, <1>7, <1>8, <1>9, <1>10, <1>11 DEF Next, Work, Services


\* What a worker is about to commit is of today.
LEMMA BatchIsOfToday ==
  ASSUME IInv, NEW w \in Workers, NEW l \in logs[w]
  PROVE  l.day = day /\ OfToday(l.transaction_id)
<1>1. l.req \in entries[w] /\ l.day = loggedOn[l.req] /\ OfToday(l.transaction_id)
  BY DEF IInv, Rows, AllRows, Today
<1>2. l.req \in Requests /\ Active(l.req) /\ pc[l.req] # "inspected"
  BY <1>1 DEF IInv, TypeOK, Active, Busy, Batches
<1> QED
  BY <1>1, <1>2 DEF IInv, Batches

\* Details refer to rows that are there and that no deletion is about to take.
LEMMA DetailsStep ==
  ASSUME IInv, [Next]_vars
  PROVE  Details' /\ DetailsHaveLogs'
<1> USE DEF IInv
<1>0. TypeOK /\ Details /\ DetailsHaveLogs
  OBVIOUS
<1>a. ASSUME NEW s \in Services, NEW l \in AllRows, l.day = day PROVE l \notin Old(s)
  <2>1. RetentionDays(s) \in Nat \ {0} /\ day \in Nat
    BY RetentionType DEF TypeOK
  <2> QED
    BY <1>a, <2>1 DEF Old
<1>1. ASSUME UNCHANGED <<day, waf_log, waf_log_detail, cleaning, cleaned, leftover>>,
             \A w \in Workers : /\ logs[w] # {} => logs'[w] = logs[w]
                                /\ details'[w] = details[w] \/ details'[w] = {}
      PROVE  Details' /\ DetailsHaveLogs'
  <2>1. \A w \in Workers : logs[w] \subseteq logs'[w]
    BY <1>1
  <2>2. \A s \in Services : Old(s)' = Old(s)
    BY <1>1 DEF Old, RetentionDays
  <2> QED
    BY <1>0, <1>1, <2>1, <2>2 DEF Details, DetailsHaveLogs, TypeOK, Ids
<1>2. ASSUME NEW r \in Requests, Inspect(r) \/ LogWAFEvent(r) \/ Close(r)
      PROVE  Details' /\ DetailsHaveLogs'
  BY <1>1, <1>2 DEF Inspect, LogWAFEvent, Close, workers, tables, retention, history
<1>3. ASSUME NEW w \in Workers, FlushBatch(w) PROVE Details' /\ DetailsHaveLogs'
  BY <1>1, <1>3 DEF FlushBatch, tables, retention, history
<1>4. ASSUME NEW w \in Workers, InsertLogs(w) PROVE Details' /\ DetailsHaveLogs'
  <2>1. /\ logs[w] = {} /\ \A u \in Workers : u # w => logs'[u] = logs[u]
        /\ UNCHANGED <<day, waf_log, waf_log_detail, cleaning, cleaned, leftover, details>>
    BY <1>4 DEF InsertLogs, Batches, TypeOK, tables, retention, history
  <2> QED
    BY <1>1, <2>1
<1>5. ASSUME NEW w \in Workers, InsertFails(w) PROVE Details' /\ DetailsHaveLogs'
  <2>1. /\ logs[w] = {} /\ \A u \in Workers : u # w => logs'[u] = logs[u] /\ details'[u] = details[u]
        /\ details'[w] = {}
        /\ UNCHANGED <<day, waf_log, waf_log_detail, cleaning, cleaned, leftover>>
    BY <1>5 DEF InsertFails, EndBatch, Batches, TypeOK, tables, retention
  <2> QED
    BY <1>1, <2>1
<1>6. ASSUME NEW w \in Workers, InsertDetails(w) PROVE Details' /\ DetailsHaveLogs'
  <2>1. PICK row \in [{l.transaction_id : l \in logs[w]} -> waf_log \cup logs[w]] :
          /\ \A x \in DOMAIN row : row[x].transaction_id = x
          /\ details' = [details EXCEPT ![w] =
              {[waf_log_id |-> row[l.transaction_id].id, req |-> l.req] : l \in logs[w]}]
    BY <1>6 DEF InsertDetails
  <2>2. UNCHANGED <<day, waf_log, waf_log_detail, cleaning, cleaned, leftover, logs>>
    BY <1>6 DEF InsertDetails, tables, retention, history
  <2>3. ASSUME NEW d \in details'[w]
        PROVE  \E l \in waf_log \cup logs[w] : l.id = d.waf_log_id /\ l.day = day
    <3>1. PICK l \in logs[w] : d = [waf_log_id |-> row[l.transaction_id].id, req |-> l.req]
      BY <2>1, <2>3 DEF TypeOK
    <3> DEFINE m == row[l.transaction_id]
    <3>2. m \in waf_log \cup logs[w] /\ m.transaction_id = l.transaction_id
      BY <2>1
    <3>3. m \in AllRows /\ OfToday(l.transaction_id)
      BY <3>2, BatchIsOfToday DEF AllRows
    <3>4. m.day = day /\ m.id = d.waf_log_id
      BY <3>1, <3>2, <3>3 DEF OfToday
    <3> QED
      BY <3>2, <3>4
  <2>4. \A u \in Workers : u # w => details'[u] = details[u]
    BY <2>1 DEF TypeOK
  <2>5. \A s \in Services : Old(s)' = Old(s)
    BY <2>2 DEF Old, RetentionDays
  <2>6. \A u \in Workers : \A d \in details'[u] :
          \E l \in waf_log' \cup logs'[u] : l.id = d.waf_log_id /\ l.day = day'
    BY <1>0, <2>2, <2>3, <2>4 DEF Details
  <2>7. DetailsHaveLogs'
    BY <1>0, <2>2 DEF DetailsHaveLogs, Ids
  <2> QED
    BY <1>0, <2>2, <2>5, <2>6, <2>7 DEF Details, TypeOK
<1>7. ASSUME NEW w \in Workers, QueryFails(w) PROVE Details' /\ DetailsHaveLogs'
  BY <1>1, <1>7 DEF QueryFails, tables, retention, history
<1>8. ASSUME NEW w \in Workers, Commit(w) \/ CommitFails(w)
      PROVE  Details' /\ DetailsHaveLogs'
  <2>1. /\ \A u \in Workers : /\ logs'[u] = IF u = w THEN {} ELSE logs[u]
                              /\ details'[u] = IF u = w THEN {} ELSE details[u]
        /\ UNCHANGED <<day, cleaning, cleaned, leftover>>
    BY <1>8 DEF Commit, CommitFails, EndBatch, TypeOK, retention
  <2>2. \/ UNCHANGED <<waf_log, waf_log_detail>>
        \/ /\ waf_log' = waf_log \cup logs[w]
           /\ waf_log_detail' = waf_log_detail \cup details[w]
    BY <1>8 DEF Commit, CommitFails, tables
  <2>3. \A s \in Services : \A l \in waf_log' : l \in Old(s)' => l \in Old(s)
    <3> SUFFICES ASSUME NEW s \in Services, NEW l \in waf_log', l \in Old(s)'
                 PROVE  l \in Old(s)
      OBVIOUS
    <3>1. l.day < day - RetentionDays(s)
      BY <2>1 DEF Old, RetentionDays
    <3>2. l \in waf_log \/ l \in logs[w]
      BY <2>2
    <3>3. RetentionDays(s) \in Nat \ {0} /\ day \in Nat
      BY RetentionType DEF TypeOK
    <3>4. l \notin logs[w]
      BY <3>1, <3>3, BatchIsOfToday
    <3> QED
      BY <3>1, <3>2, <3>4 DEF Old
  <2>4. \A u \in Workers : \A d \in details'[u] :
          \E l \in waf_log' \cup logs'[u] : l.id = d.waf_log_id /\ l.day = day'
    BY <1>0, <2>1, <2>2 DEF Details
  <2>5. \A d \in details[w] : \E l \in waf_log \cup logs[w] : l.id = d.waf_log_id /\ l.day = day
    BY <1>0 DEF Details
  <2>6. DetailsHaveLogs'
    BY <1>0, <2>1, <2>2, <2>5 DEF DetailsHaveLogs, Ids
  <2>7. ASSUME NEW s \in cleaning', NEW d \in waf_log_detail' \ leftover', NEW l \in waf_log',
               l.id = d.waf_log_id
        PROVE  l \notin Old(s)'
    <3>1. s \in cleaning /\ s \in Services /\ l \in AllRows
      BY <2>1, <2>2 DEF TypeOK, AllRows
    <3>2. CASE d \in waf_log_detail
      <4>1. CASE l \in waf_log
        BY <1>0, <2>1, <2>3, <2>7, <3>1, <3>2, <4>1 DEF Details
      <4>2. CASE l \in logs[w]
        BY <1>a, <2>3, <3>1, <4>2, BatchIsOfToday
      <4> QED
        BY <2>2, <4>1, <4>2
    <3>3. CASE d \in details[w]
      <4>1. PICK m \in waf_log \cup logs[w] : m.id = d.waf_log_id /\ m.day = day
        BY <2>5, <3>3
      <4>2. m \in AllRows
        BY DEF AllRows
      <4>3. l = m
        BY <2>7, <3>1, <4>1, <4>2 DEF Rows
      <4> QED
        BY <1>a, <2>3, <3>1, <4>1, <4>3
    <3> QED
      BY <2>2, <3>2, <3>3
  <2> QED
    BY <1>0, <2>1, <2>4, <2>6, <2>7 DEF Details
<1>9. ASSUME GetWAFLogService PROVE Details' /\ DetailsHaveLogs'
  <2>1. /\ \A s \in cleaning : cleaned'[s] = cleaned[s]
        /\ UNCHANGED <<day, waf_log, waf_log_detail, cleaning, leftover, logs, details>>
    BY <1>9 DEF GetWAFLogService, workers, tables, history, TypeOK
  <2>2. \A s \in Services : Old(s)' = Old(s)
    BY <2>1 DEF Old, RetentionDays
  <2> QED
    BY <1>0, <2>1, <2>2 DEF Details, DetailsHaveLogs, TypeOK, Ids
<1>10. ASSUME NEW s \in Services, DeleteOldDetails(s) \/ DeleteOldDetailsFails(s)
       PROVE  Details' /\ DetailsHaveLogs'
  <2>1. /\ UNCHANGED <<day, waf_log, cleaned, logs, details>>
        /\ cleaning' = cleaning \cup {s} /\ cleaned[s] < day
        /\ waf_log_detail' \ leftover' = (waf_log_detail \ leftover) \ DetailsOf(Old(s))
    BY <1>10 DEF DeleteOldDetails, DeleteOldDetailsFails, workers, tables, history
  <2>2. \A u \in Services : Old(u)' = Old(u)
    BY <2>1 DEF Old, RetentionDays
  <2>3. \A d \in waf_log_detail' \ leftover', l \in waf_log' :
           l.id = d.waf_log_id => l \notin Old(s)'
    BY <2>1, <2>2 DEF DetailsOf
  <2>4. \A u \in Workers : \A d \in details'[u] :
          \E l \in waf_log' \cup logs'[u] : l.id = d.waf_log_id /\ l.day = day'
    BY <1>0, <2>1 DEF Details
  <2>5. \A u \in cleaning' : cleaned'[u] < day'
    BY <1>0, <2>1 DEF Details
  <2>6. \A u \in cleaning : \A d \in waf_log_detail' \ leftover', l \in waf_log' :
           l.id = d.waf_log_id => l \notin Old(u)'
    BY <1>0, <2>1, <2>2 DEF Details, TypeOK
  <2>7. DetailsHaveLogs'
    BY <1>0, <2>1 DEF DetailsHaveLogs, Ids
  <2> QED
    BY <2>1, <2>3, <2>4, <2>5, <2>6, <2>7 DEF Details
<1>11. ASSUME NEW s \in Services, DeleteOldLogs(s) \/ DeleteOldLogsFails(s)
       PROVE  Details' /\ DetailsHaveLogs'
  <2>1. /\ UNCHANGED <<day, waf_log_detail, leftover, logs, details>>
        /\ s \in cleaning /\ cleaning' = cleaning \ {s}
        /\ \A u \in cleaning' : cleaned'[u] = cleaned[u]
        /\ waf_log' = waf_log \/ waf_log' = waf_log \ Old(s)
    BY <1>11 DEF DeleteOldLogs, DeleteOldLogsFails, workers, tables, history, TypeOK
  <2>2. \A u \in Services : Old(u)' \subseteq Old(u)
    BY <2>1 DEF Old, RetentionDays
  <2>3. \A l \in waf_log : l.day = day => l \in waf_log'
    BY <1>a, <2>1 DEF AllRows
  <2>4. \A u \in Workers : \A d \in details'[u] :
          \E l \in waf_log' \cup logs'[u] : l.id = d.waf_log_id /\ l.day = day'
    <3> SUFFICES ASSUME NEW u \in Workers, NEW d \in details[u]
                 PROVE  \E l \in waf_log' \cup logs[u] : l.id = d.waf_log_id /\ l.day = day
      BY <2>1
    <3>1. PICK l \in waf_log \cup logs[u] : l.id = d.waf_log_id /\ l.day = day
      BY <1>0 DEF Details
    <3> QED
      BY <2>3, <3>1
  <2>5. \A d \in waf_log_detail \ leftover : \E l \in waf_log' : l.id = d.waf_log_id
    <3> SUFFICES ASSUME NEW d \in waf_log_detail \ leftover
                 PROVE  \E l \in waf_log' : l.id = d.waf_log_id
      OBVIOUS
    <3>1. PICK l \in waf_log : l.id = d.waf_log_id
      BY <1>0 DEF DetailsHaveLogs, Ids
    <3>2. l \notin Old(s)
      BY <1>0, <2>1, <3>1 DEF Details
    <3> QED
      BY <2>1, <3>1, <3>2
  <2>6. DetailsHaveLogs'
    BY <2>1, <2>5 DEF DetailsHaveLogs, Ids
  <2>7. \A u \in cleaning' : /\ cleaned'[u] < day'
                             /\ \A d \in waf_log_detail' \ leftover', l \in waf_log' :
                                   l.id = d.waf_log_id => l \notin Old(u)'
    BY <1>0, <2>1, <2>2 DEF Details, TypeOK
  <2> QED
    BY <2>4, <2>6, <2>7 DEF Details
<1>12. ASSUME NextDay PROVE Details' /\ DetailsHaveLogs'
  <2>1. /\ UNCHANGED <<waf_log, waf_log_detail, cleaning, leftover, details>>
        /\ \A w \in Workers : details[w] = {}
    BY <1>12 DEF NextDay, workers, tables, retention, history, Batches
  <2>2. cleaning = {}
    <3> SUFFICES ASSUME NEW s \in cleaning PROVE FALSE
      OBVIOUS
    <3>1. cleaned[s] < day /\ cleaned[s] = day /\ day \in Nat
      BY <1>0, <1>12 DEF Details, NextDay, TypeOK
    <3> QED
      BY <3>1
  <2> QED
    BY <1>0, <2>1, <2>2 DEF Details, DetailsHaveLogs, Ids
<1>13. ASSUME Crash PROVE Details' /\ DetailsHaveLogs'
  <2>1. /\ UNCHANGED <<waf_log, waf_log_detail, leftover>>
        /\ cleaning' = {} /\ details' = [w \in Workers |-> {}]
    BY <1>13 DEF Crash, tables
  <2> QED
    BY <1>0, <2>1 DEF Details, DetailsHaveLogs, Ids
<1>14. ASSUME UNCHANGED vars PROVE Details' /\ DetailsHaveLogs'
  BY <1>1, <1>14 DEF vars, workers, tables, retention, history
<1> QED
  BY <1>2, <1>3, <1>4, <1>5, <1>6, <1>7, <1>8, <1>9, <1>10, <1>11, <1>12, <1>13, <1>14
     DEF Next, Work, Clean, Services

(* The inductive invariant of WAFLogs holds in every reachable state. *)
THEOREM LogsInvariant == Spec => []IInv
<1>1. Init => IInv
  BY InitIInv
<1>2. IInv /\ [Next]_vars => IInv'
  BY TypeStep, FiniteStep, BatchesStep, RowsStep, TodayStep, DetailsStep DEF IInv
<1> QED
  BY <1>1, <1>2, PTL DEF Spec

(* Every variable has its type and every row an id and a day already       *)
(* given out.                                                              *)
THEOREM TypeCorrect == Spec => []TypeOK
<1>1. IInv => TypeOK
  BY DEF IInv
<1> QED
  BY LogsInvariant, <1>1, PTL

(* No sequence of flushes, failed transactions and restarts of             *)
(* processBatchInWorker writes an event to waf_log twice.                  *)
THEOREM EventsAreStoredOnce == Spec => []EventsOnce
<1>1. IInv => EventsOnce
  BY DEF IInv
<1> QED
  BY LogsInvariant, <1>1, PTL

(* A row of waf_log_detail refers to a row of waf_log, except what a       *)
(* failed DELETE of cleanupOldLogs left.                                   *)
THEOREM DetailsKeepTheirLogs == Spec => []DetailsHaveLogs
<1>1. IInv => DetailsHaveLogs
  BY DEF IInv
<1> QED
  BY LogsInvariant, <1>1, PTL


-----------------------------------------------------------------------------
(* The refinement of EventStore. *)

Stored(r) == \E l \in waf_log : l.req = r
NoFateChanges == \A r \in Requests : Fate(r)' = Fate(r)

LEMMA FateType == \A r : Fate(r) \in {"new", "waiting", "stored", "dropped", "expired"}
  BY DEF Fate

LEMMA SameFate ==
  ASSUME UNCHANGED <<day, loggedOn>>, NoFateChanges
  PROVE  UNCHANGED Store!vars
  BY DEF NoFateChanges, Store!vars

LEMMA FateMoves ==
  ASSUME NEW from, NEW to, UNCHANGED <<day, loggedOn>>,
         \A r \in Requests : Fate(r)' # Fate(r) => Fate(r) \in from /\ Fate(r)' = to
  PROVE  Store!Move(from, to)
<1>1. \A r \in Requests : Fate(r)' \in {"new", "waiting", "stored", "dropped", "expired"}
  BY DEF Fate
<1> QED
  BY <1>1 DEF Store!Move

LEMMA InitRefines == Init => Store!Init
  BY DEF Init, Store!Init, Fate

LEMMA StepRefines ==
  ASSUME IInv, [Next]_vars
  PROVE  [Store!Next]_(Store!vars)
<1> USE DEF IInv
<1>0. TypeOK /\ Batches /\ EventsOnce
  OBVIOUS
<1>1. ASSUME UNCHANGED <<day, loggedOn, waf_log, dropped>>,
             \A r \in Requests : /\ Busy(r)' = Busy(r)
                                 /\ pc'[r] \in {"new", "inspected"} <=> pc[r] \in {"new", "inspected"}
      PROVE  UNCHANGED Store!vars
  <2>1. NoFateChanges
    BY <1>1 DEF NoFateChanges, Fate, Busy
  <2> QED
    BY <1>1, <2>1, SameFate
<1>2. ASSUME NEW r \in Requests, Inspect(r) \/ Close(r) PROVE UNCHANGED Store!vars
  BY <1>1, <1>2 DEF Inspect, Close, workers, tables, history, Busy, TypeOK
<1>3. ASSUME NEW r \in Requests, LogWAFEvent(r) PROVE Store!Next
  <2>1. /\ pc[r] = "inspected" /\ pc' = [pc EXCEPT ![r] = "logged"]
        /\ loggedOn' = [loggedOn EXCEPT ![r] = day]
        /\ logBatch' = logBatch \cup {r}
        /\ UNCHANGED <<day, entries, waf_log, dropped>>
    BY <1>3 DEF LogWAFEvent, workers, tables, history
  <2>2. r \notin dropped /\ ~Stored(r)
    BY <1>0, <2>1 DEF Batches, Stored
  <2>3. Fate(r) = "new" /\ Fate(r)' = "waiting"
    BY <2>1, <2>2 DEF Fate, Stored, TypeOK
  <2>4. \A q \in Requests : q # r => Fate(q)' = Fate(q)
    BY <2>1 DEF Fate, TypeOK
  <2>5. Store!Log(r)
    BY <2>1, <2>3, <2>4 DEF Store!Log
  <2> QED
    BY <2>5 DEF Store!Next
<1>4. ASSUME NEW w \in Workers, FlushBatch(w) PROVE UNCHANGED Store!vars
  <2>1. /\ entries[w] = {} /\ entries' = [entries EXCEPT ![w] = logBatch]
        /\ logBatch' = {}
        /\ UNCHANGED <<pc, loggedOn, day, waf_log, dropped>>
    BY <1>4 DEF FlushBatch, requests, tables, history, Batches
  <2>2. \A q \in Requests : Busy(q)' = Busy(q)
    BY <2>1 DEF Busy, TypeOK
  <2> QED
    BY <1>1, <2>1, <2>2
<1>5. ASSUME NEW w \in Workers, InsertLogs(w) \/ InsertDetails(w) \/ QueryFails(w)
      PROVE  UNCHANGED Store!vars
  BY <1>1, <1>5 DEF InsertLogs, InsertDetails, QueryFails, requests, tables, history, Busy
<1>6. ASSUME NEW w \in Workers, InsertFails(w) \/ Commit(w) \/ CommitFails(w)
      PROVE  Store!Next
  <2>1. /\ entries' = [entries EXCEPT ![w] = {}]
        /\ UNCHANGED <<pc, loggedOn, day, logBatch>>
    BY <1>6 DEF InsertFails, Commit, CommitFails, EndBatch, requests
  <2>2. \A q \in Requests : q \notin entries[w] => Busy(q)' = Busy(q)
    BY <2>1 DEF Busy, TypeOK
  <2>3. \A q \in entries[w] : /\ q \in Requests /\ ~Stored(q)
                              /\ pc[q] \in {"logged", "closed"}
                              /\ q \notin dropped => Fate(q) = "waiting"
    BY <1>0 DEF EventsOnce, Stored, Batches, Busy, Fate, TypeOK
  <2>4. CASE dropped' = dropped \cup entries[w] /\ waf_log' = waf_log
    <3>1. \A q \in Requests : Fate(q)' # Fate(q) =>
             Fate(q) \in {"new", "waiting"} /\ Fate(q)' = "dropped"
      <4> SUFFICES ASSUME NEW q \in Requests, Fate(q)' # Fate(q)
                   PROVE  Fate(q) \in {"new", "waiting"} /\ Fate(q)' = "dropped"
        OBVIOUS
      <4>1. CASE q \in entries[w]
        BY <2>3, <2>4, <4>1 DEF Fate
      <4>2. CASE q \notin entries[w]
        BY <2>1, <2>2, <2>4, <4>2 DEF Fate, Busy
      <4> QED
        BY <4>1, <4>2
    <3>2. Store!Drop
      BY <2>1, <3>1, FateMoves DEF Store!Drop
    <3> QED
      BY <3>2 DEF Store!Next
  <2>5. CASE dropped' = dropped /\ waf_log' = waf_log \cup logs[w] /\ step[w] = "commit"
    <3>1. \A q \in Requests : q \in entries[w] <=> \E l \in logs[w] : l.req = q
      BY <1>0, <2>5 DEF Rows, Batches
    <3>2. \A q \in Requests : Fate(q)' # Fate(q) =>
             Fate(q) \in {"waiting"} /\ Fate(q)' = "stored"
      <4> SUFFICES ASSUME NEW q \in Requests, Fate(q)' # Fate(q)
                   PROVE  Fate(q) \in {"waiting"} /\ Fate(q)' = "stored"
        OBVIOUS
      <4>1. CASE q \in entries[w]
        <5>1. \E l \in waf_log' : l.req = q
          BY <2>5, <3>1, <4>1
        <5>2. q \notin dropped
          BY <2>5 DEF Fate
        <5> QED
          BY <2>3, <2>5, <4>1, <5>1, <5>2 DEF Fate
      <4>2. CASE q \notin entries[w]
        <5>1. (\E l \in waf_log' : l.req = q) <=> (\E l \in waf_log : l.req = q)
          BY <2>5, <3>1, <4>2
        <5> QED
          BY <2>1, <2>2, <2>5, <4>2, <5>1 DEF Fate, Busy
      <4> QED
        BY <4>1, <4>2
    <3>3. Store!Write
      BY <2>1, <3>2, FateMoves DEF Store!Write
    <3> QED
      BY <3>3 DEF Store!Next
  <2> QED
    BY <1>6, <2>4, <2>5 DEF InsertFails, Commit, CommitFails, tables
<1>7. ASSUME NEW s \in Services, DeleteOldLogs(s) PROVE Store!Next
  <2>1. /\ waf_log' = waf_log \ Old(s)
        /\ UNCHANGED <<day, pc, loggedOn, logBatch, entries, dropped>>
    BY <1>7 DEF DeleteOldLogs, requests, workers, history
  <2> DEFINE Retention == IF WAFLogBufferSize < WAFLogRetention THEN WAFLogBufferSize
                          ELSE WAFLogRetention
  <2>2. ASSUME NEW q \in Requests, Fate(q)' # Fate(q)
        PROVE  Fate(q) = "stored" /\ Fate(q)' = "expired" /\ day - loggedOn[q] > Retention
    <3>1. q \notin dropped /\ Stored(q) /\ ~Stored(q)'
      BY <2>1, <2>2 DEF Fate, Stored
    <3>2. PICK l \in waf_log : l.req = q
      BY <3>1 DEF Stored
    <3>3. l \in Old(s)
      BY <2>1, <3>1, <3>2 DEF Stored
    <3>4. pc[q] \in {"logged", "closed"} /\ ~Busy(q)
      BY <1>0, <3>2 DEF Batches, EventsOnce, Busy
    <3>5. Fate(q) = "stored" /\ Fate(q)' = "expired"
      BY <2>1, <3>1, <3>4 DEF Fate, Stored, Busy
    <3>6. loggedOn[q] < day - RetentionDays(s) /\ loggedOn[q] \in Nat /\ day \in Nat
      BY <3>2, <3>3 DEF Old, Rows, AllRows, TypeOK
    <3>7. RetentionDays(s) >= Retention /\ RetentionDays(s) \in Nat /\ Retention \in Nat
      BY LogsAssumption DEF RetentionDays
    <3>8. day - loggedOn[q] > Retention
      BY <3>6, <3>7
    <3> QED
      BY <3>5, <3>8
  <2>3. Store!Move({"stored"}, "expired")
    BY <2>1, <2>2, FateMoves
  <2>4. Store!Expire
    BY <2>2, <2>3 DEF Store!Expire
  <2> QED
    BY <2>4 DEF Store!Next
<1>8. ASSUME NEW s \in Services,
             \/ DeleteOldDetails(s) \/ DeleteOldDetailsFails(s) \/ DeleteOldLogsFails(s)
             \/ GetWAFLogService
      PROVE  UNCHANGED Store!vars
  BY <1>1, <1>8 DEF DeleteOldDetails, DeleteOldDetailsFails, DeleteOldLogsFails,
     GetWAFLogService, requests, workers, tables, history, Busy
<1>9. ASSUME NextDay PROVE Store!Next
  <2>1. /\ day' = day + 1
        /\ UNCHANGED <<pc, loggedOn, logBatch, entries, waf_log, dropped>>
    BY <1>9 DEF NextDay, requests, workers, tables, history
  <2>2. \A r \in Requests : Fate(r)' = Fate(r)
    BY <2>1 DEF Fate
  <2>3. Store!NextDay
    BY <2>1, <2>2 DEF Store!NextDay
  <2> QED
    BY <2>3 DEF Store!Next
<1>10. ASSUME Crash PROVE Store!Next
  <2>1. /\ pc' = [r \in Requests |-> IF pc[r] = "new" THEN "new" ELSE "closed"]
        /\ logBatch' = {} /\ entries' = [w \in Workers |-> {}]
        /\ \A q \in Requests : q \in dropped' <=>
              q \in dropped \/ pc[q] = "inspected" \/ Busy(q)
        /\ UNCHANGED <<day, loggedOn, waf_log>>
    BY <1>10 DEF Crash, tables, Busy
  <2>2. \A q \in Requests : pc[q] \in {"new", "inspected", "logged", "closed"}
    BY DEF TypeOK
  <2>3. \A q \in Requests : Busy(q) \/ pc[q] = "inspected" => ~Stored(q)
    BY <1>0 DEF Batches, EventsOnce, Busy, Stored
  <2>4. \A q \in Requests : Fate(q)' # Fate(q) =>
           Fate(q) \in {"new", "waiting"} /\ Fate(q)' = "dropped"
    <3> SUFFICES ASSUME NEW q \in Requests, Fate(q)' # Fate(q)
                 PROVE  Fate(q) \in {"new", "waiting"} /\ Fate(q)' = "dropped"
      OBVIOUS
    <3>1. q \notin dropped
      BY <2>1 DEF Fate
    <3>2. CASE pc[q] = "inspected" \/ Busy(q)
      BY <2>1, <2>3, <3>1, <3>2 DEF Fate, Stored, Busy
    <3>3. CASE ~(pc[q] = "inspected" \/ Busy(q))
      BY <2>1, <2>2, <3>1, <3>3 DEF Fate, Busy
    <3> QED
      BY <3>2, <3>3
  <2>5. Store!Drop
    BY <2>1, <2>4, FateMoves DEF Store!Drop
  <2> QED
    BY <2>5 DEF Store!Next
<1>11. ASSUME UNCHANGED vars PROVE UNCHANGED Store!vars
  BY <1>1, <1>11 DEF vars, requests, workers, tables, history, Busy
<1> QED
  BY <1>2, <1>3, <1>4, <1>5, <1>6, <1>7, <1>8, <1>9, <1>10, <1>11
     DEF Next, Work, Clean, Services

(* WAFLogs implements EventStore: LogWAFEvent, the flushes, the workers,   *)
(* both retention policies and restarts lose an event only with a failed   *)
(* transaction or a crash, store it once and keep it as long as the        *)
(* shorter of the two retention times.                                     *)
THEOREM EventsAreKept == Spec => ImplementsEventStore
<1>1. Init => Store!Init
  BY InitRefines
<1>2. IInv /\ [Next]_vars => [Store!Next]_(Store!vars)
  BY StepRefines
<1> QED
  BY <1>1, <1>2, LogsInvariant, PTL DEF Spec, Store!Spec, ImplementsEventStore
=============================================================================
