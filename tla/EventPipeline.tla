---------------------------- MODULE EventPipeline ----------------------------
(***************************************************************************)
(* The way of a user's event through the server: the handler of            *)
(* RECOVVO_LOG_EVENT puts it into the master queue; a flush of that queue  *)
(* groups its events by tenant, starts the INSERT of each group into       *)
(* event_logs and puts the group into the search report queue; when the    *)
(* INSERT has succeeded, the group goes into the usage report queue too.   *)
(* The flushes of those queues start the calls of pg_update_usage_report   *)
(* (one per user of a group, see UsageReport) and the INSERTs into         *)
(* search_report.  Nothing waits for them and nobody catches their errors, *)
(* which the server survives (src/index.ts).                               *)
(*                                                                         *)
(* An event is its number in log; a group is a set of events.              *)
(***************************************************************************)
EXTENDS BufferedQueueOps, FiniteSets, SequencesExt

CONSTANTS Accounts,     \* the users, each with his tenant
          MaxEvents,    \* bounds the events of a run
          MaxCrashes    \* bounds how often the server goes down

ASSUME EventAssumption ==
  /\ MaxEvents \in Nat /\ MaxCrashes \in Nat
  /\ \A a \in Accounts : DOMAIN a = {"tenant", "user"}

VARIABLES log,          \* the events that were logged
          queue, queueSearchReport, queueUsageReport,   \* see BufferedQueueOps
          creating,     \* the groups on their way into event_logs,
          inserting,    \* into search_report,
          calling,      \* and, by user, into usage_report
          eventLogs, searchReport, usageReport,    \* the events the tables hold
          searchLost, usageLost,    \* history: the events that got lost on the way
          crashes

queues == <<queue, queueSearchReport, queueUsageReport>>
tables == <<eventLogs, searchReport, usageReport>>
vars == <<log, queues, creating, inserting, calling, tables, searchLost, usageLost, crashes>>

Init ==
  /\ log = <<>>
  /\ queue = NewQueue /\ queueSearchReport = NewQueue /\ queueUsageReport = NewQueue
  /\ creating = {} /\ inserting = {} /\ calling = {}
  /\ eventLogs = {} /\ searchReport = {} /\ usageReport = {}
  /\ searchLost = {} /\ usageLost = {}
  /\ crashes = 0

(* Mutant: the events are not told apart by tenant. *)
ByTenant_AllInOne(batch) == IF batch = <<>> THEN {} ELSE {ToSet(batch)}

ByTenant(batch) ==
  { { f \in ToSet(batch) : log'[f].tenant = log'[e].tenant } : e \in ToSet(batch) }

(* Mutant: only the first user of a group is called for. *)
ByUser_First(group) ==
  LET e == CHOOSE e \in group : TRUE
  IN  {{ f \in group : log[f].user = log[e].user }}

ByUser(group) == { { f \in group : log[f].user = log[e].user } : e \in group }

(* One add, after others that left the queue and its output like acc.      *)
PushedNext(acc, g) ==
  [after |-> Pushed(acc.after, g), out |-> acc.out \o PushedBatch(acc.after, g)]

(* One add after the other, with what the flushes on the way emit.         *)
PushedAll(q, groups) ==
  LET order == SetToSeq(groups)
      run[n \in 0 .. Len(order)] ==
        IF n = 0 THEN [after |-> q, out |-> <<>>] ELSE PushedNext(run[n - 1], order[n])
  IN  run[Len(order)]

(* The listener of the master queue.  The order of the tenants' keys makes *)
(* no difference to what is claimed here.                                  *)
FlushMaster(batch) ==
  LET groups == ByTenant(batch)
      search == PushedAll(queueSearchReport, groups)
  IN  /\ creating' = creating \cup groups
      /\ queueSearchReport' = search.after
      /\ inserting' = inserting \cup ToSet(search.out)

(* The listener of the usage report queue.                                 *)
FlushUsage(batch) == calling' = calling \cup UNION { ByUser(g) : g \in ToSet(batch) }

LogEvent(a) ==
  LET e == Len(log) + 1
  IN  /\ Len(log) < MaxEvents
      /\ log' = Append(log, a)
      /\ queue' = Pushed(queue, e)
      /\ FlushMaster(PushedBatch(queue, e))
      /\ UNCHANGED <<queueUsageReport, calling, tables, searchLost, usageLost, crashes>>

MasterTimeout ==
  /\ queue.timeouts > 0
  /\ queue' = RecurringQueue(queue)
  /\ UNCHANGED log
  /\ FlushMaster(queue.items)
  /\ UNCHANGED <<queueUsageReport, calling, tables, searchLost, usageLost, crashes>>

CreateLands(g) ==
  /\ creating' = creating \ {g}
  /\ eventLogs' = eventLogs \cup g
  /\ queueUsageReport' = Pushed(queueUsageReport, g)
  /\ FlushUsage(PushedBatch(queueUsageReport, g))
  /\ UNCHANGED <<log, queue, queueSearchReport, inserting, searchReport, usageReport,
                 searchLost, usageLost, crashes>>

CreateFails(g) ==
  /\ creating' = creating \ {g}
  /\ usageLost' = usageLost \cup g
  /\ UNCHANGED <<log, queues, inserting, calling, tables, searchLost, crashes>>

UsageTimeout ==
  /\ queueUsageReport.timeouts > 0
  /\ queueUsageReport' = RecurringQueue(queueUsageReport)
  /\ FlushUsage(queueUsageReport.items)
  /\ UNCHANGED <<log, queue, queueSearchReport, creating, inserting, tables,
                 searchLost, usageLost, crashes>>

CallEnds(c) ==
  /\ calling' = calling \ {c}
  /\ \/ usageReport' = usageReport \cup c /\ UNCHANGED usageLost
     \/ usageLost' = usageLost \cup c /\ UNCHANGED usageReport
  /\ UNCHANGED <<log, queues, creating, inserting, eventLogs, searchReport, searchLost, crashes>>

SearchTimeout ==
  /\ queueSearchReport.timeouts > 0
  /\ queueSearchReport' = RecurringQueue(queueSearchReport)
  /\ inserting' = inserting \cup ToSet(queueSearchReport.items)
  /\ UNCHANGED <<log, queue, queueUsageReport, creating, calling, tables,
                 searchLost, usageLost, crashes>>

InsertEnds(g) ==
  /\ inserting' = inserting \ {g}
  /\ \/ searchReport' = searchReport \cup g /\ UNCHANGED searchLost
     \/ searchLost' = searchLost \cup g /\ UNCHANGED searchReport
  /\ UNCHANGED <<log, queues, creating, calling, eventLogs, usageReport, usageLost, crashes>>

Buffered(q) == UNION ToSet(q.items)

(* The server goes down and starts again: the queues are in memory only,   *)
(* and any of the statements under way may have been executed.             *)
Crash ==
  /\ crashes < MaxCrashes
  /\ crashes' = crashes + 1
  /\ queue' = NewQueue /\ queueSearchReport' = NewQueue /\ queueUsageReport' = NewQueue
  /\ creating' = {} /\ inserting' = {} /\ calling' = {}
  /\ \E done \in SUBSET creating : eventLogs' = eventLogs \cup UNION done
  /\ \E done \in SUBSET inserting :
       /\ searchReport' = searchReport \cup UNION done
       /\ searchLost' = searchLost \cup ToSet(queue.items) \cup Buffered(queueSearchReport)
                          \cup UNION (inserting \ done)
  /\ \E done \in SUBSET calling :
       /\ usageReport' = usageReport \cup UNION done
       /\ usageLost' = usageLost \cup ToSet(queue.items) \cup (UNION creating)
                         \cup Buffered(queueUsageReport) \cup UNION (calling \ done)
  /\ UNCHANGED log

Timeout == MasterTimeout \/ UsageTimeout \/ SearchTimeout

Database ==
  \/ \E g \in creating : CreateLands(g) \/ CreateFails(g)
  \/ \E c \in calling : CallEnds(c)
  \/ \E g \in inserting : InsertEnds(g)

Next ==
  \/ \E a \in Accounts : LogEvent(a)
  \/ Timeout \/ Database
  \/ Crash

(* Timers run and statements are answered while the server is up; as a run *)
(* has a bounded number of events, no statement can be put off forever.    *)
Spec ==
  /\ Init /\ [][Next]_vars
  /\ WF_vars(MasterTimeout) /\ WF_vars(UsageTimeout) /\ WF_vars(SearchTimeout)
  /\ WF_vars(Database)
-----------------------------------------------------------------------------
Events == DOMAIN log

TypeOK ==
  /\ log \in Seq(Accounts)
  /\ queue.items \in Seq(Events)
  /\ queueSearchReport.items \in Seq(SUBSET Events)
  /\ queueUsageReport.items \in Seq(SUBSET Events)
  /\ creating \cup inserting \cup calling \subseteq SUBSET Events
  /\ \A s \in {eventLogs, searchReport, usageReport, searchLost, usageLost} : s \subseteq Events
  /\ crashes \in 0 .. MaxCrashes

(* The places on the way to each report. *)
UsageWay ==
  <<ToSet(queue.items), UNION creating, Buffered(queueUsageReport), UNION calling,
    usageReport, usageLost>>
SearchWay ==
  <<ToSet(queue.items), Buffered(queueSearchReport), UNION inserting,
    searchReport, searchLost>>

AtOnePlace(e, way) == \E i \in DOMAIN way : \A j \in DOMAIN way : e \in way[j] <=> j = i

Apart(groups) == \A g, h \in groups : g = h \/ g \cap h = {}
ApartIn(seq) == \A i, j \in DOMAIN seq : i = j \/ seq[i] \cap seq[j] = {}

(* Whatever fails and whenever the server goes down, all is of its type    *)
(* and every event is at exactly one place of the way to the usage report, *)
(* and of the way to the search report (or known to be lost), and there    *)
(* only once: no report counts one twice and none disappears.  And the     *)
(* usage report only counts what the event log can account for.            *)
CountedOnce ==
  /\ TypeOK
  /\ \A e \in Events : AtOnePlace(e, UsageWay) /\ AtOnePlace(e, SearchWay)
  /\ IsInjective(queue.items)
  /\ Apart(creating) /\ Apart(inserting) /\ Apart(calling)
  /\ ApartIn(queueSearchReport.items) /\ ApartIn(queueUsageReport.items)
  /\ Buffered(queueUsageReport) \cup (UNION calling) \cup usageReport \subseteq eventLogs

(* Events of different tenants never share a statement, nor events of      *)
(* different users a call.                                                 *)
TenantsApart ==
  /\ \A g \in creating \cup inserting \cup calling
            \cup ToSet(queueSearchReport.items) \cup ToSet(queueUsageReport.items) :
       \A e, f \in g : log[e].tenant = log[f].tenant
  /\ \A c \in calling : \A e, f \in c : log[e].user = log[f].user

(* Every event gets to both reports, or is lost to a failure, without any  *)
(* event after it: from some time on all that were logged have.            *)
EveryEventSettles ==
  <>[](Events \subseteq (usageReport \cup usageLost) \cap (searchReport \cup searchLost))
=============================================================================
