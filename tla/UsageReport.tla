----------------------------- MODULE UsageReport -----------------------------
(***************************************************************************)
(* The table usage_report of one tenant and the stored procedure           *)
(* pg_update_usage_report, which the flush of the usage queue calls once   *)
(* per user and batch without waiting for the calls before (insertOr-      *)
(* UpdateUsageReport in src/client/usageReport/usageReport.service.ts).    *)
(*                                                                         *)
(* A call is one transaction of two statements.  Its SELECT ... LIMIT 1    *)
(* FOR UPDATE returns at most one of the committed rows of its user and    *)
(* day, which one is not said when there are several, and locks it until   *)
(* the transaction ends; its second statement sees every row committed by  *)
(* then and waits for the locks of others on the rows it updates.          *)
(*                                                                         *)
(* The four counters are handled alike; they are two here, searches, which *)
(* alone comes with a last_search, and other.  Every other column of a row *)
(* is filled by COALESCE or by a default, so last_search alone can be NULL.*)
(***************************************************************************)
EXTENDS Naturals, Sequences

CONSTANTS Users, Days,
          MaxCalls,   \* bounds the calls of a run
          Counts      \* the pairs of counts a call may add to the counters

ASSUME BoundAssumption == MaxCalls \in Nat /\ Counts \subseteq Nat \X Nat

VARIABLES table,      \* the rows, in order of insertion
          call        \* the calls, in the order they were sent

reportVars == <<table, call>>

Row == [user : Users, day : Days, searches : Nat, other : Nat,
        lastSearch : BOOLEAN]     \* FALSE stands for NULL

(* What a flush passes for one user: last_search is set by the events that *)
(* count as searches (eventLogs.service.ts).                               *)
Usage == { [user |-> u, day |-> d, searches |-> n[1], other |-> n[2],
            lastSearch |-> n[1] > 0] : u \in Users, d \in Days, n \in Counts }

NoRow == 0      \* the SELECT returned nothing

ReportInit == table = <<>> /\ call = <<>>

SameReport(i, u) == table[i].user = u.user /\ table[i].day = u.day

Reports(u) == { i \in DOMAIN table : SameReport(i, u) }

(* Mutant: the SELECT has no FOR UPDATE. *)
Locked_Never(c) == {}

(* The rows c's transaction holds a lock on between its statements.        *)
Locked(c) == IF call[c].pc = "selected" /\ call[c].row # NoRow
             THEN {call[c].row} ELSE {}

LockedByOther(c) == UNION { Locked(d) : d \in DOMAIN call \ {c} }

(* The flush sends a call. *)
Start(u) ==
  /\ Len(call) < MaxCalls
  /\ call' = Append(call, [pc |-> "started", data |-> u])
  /\ UNCHANGED table

(* SELECT ... FOR UPDATE INTO oldUsageReport. *)
Select(c) ==
  LET u == call[c].data
      found == IF Reports(u) = {} THEN {NoRow} ELSE Reports(u) \ LockedByOther(c)
  IN  /\ call[c].pc = "started"
      /\ \E i \in found :
           call' = [call EXCEPT ![c] =
                      [pc |-> "selected", data |-> u, row |-> i,
                       old |-> IF i = NoRow THEN u ELSE table[i]]]
      /\ UNCHANGED table

(* oldUsageReport IS NOT NULL: in PL/pgSQL a record is not null only when  *)
(* none of its columns is.                                                 *)
OldIsNotNull(c) == call[c].row # NoRow /\ call[c].old.lastSearch

Done(c) == [call EXCEPT ![c] = [pc |-> "done", data |-> call[c].data]]

(* The UPDATE sets every row of the user and day to the old row's counters *)
(* plus the call's, and leaves last_search alone.                          *)
Update(c) ==
  LET u == call[c].data
      old == call[c].old
  IN  /\ call[c].pc = "selected"
      /\ OldIsNotNull(c)
      /\ Reports(u) \cap LockedByOther(c) = {}
      /\ table' = [i \in DOMAIN table |->
                     IF SameReport(i, u)
                     THEN [table[i] EXCEPT !.searches = old.searches + u.searches,
                                           !.other = old.other + u.other]
                     ELSE table[i]]
      /\ call' = Done(c)

Insert(c) ==
  /\ call[c].pc = "selected"
  /\ ~OldIsNotNull(c)
  /\ table' = Append(table, call[c].data)
  /\ call' = Done(c)

Failed(c) == [call EXCEPT ![c] = [pc |-> "failed"]]

(* The connection is lost: the transaction is rolled back.                 *)
LoseConnection(c) ==
  /\ call[c].pc \in {"started", "selected"}
  /\ call' = Failed(c)
  /\ UNCHANGED table

Waits(c, d) ==
  /\ call[c].pc = "selected"
  /\ OldIsNotNull(c)
  /\ Reports(call[c].data) \cap Locked(d) # {}

(* Postgres ends one of two transactions that wait for each other.         *)
AbortDeadlock(c) ==
  /\ \E d \in DOMAIN call \ {c} : Waits(c, d) /\ Waits(d, c)
  /\ call' = Failed(c)
  /\ UNCHANGED table

Step(c) == Select(c) \/ Update(c) \/ Insert(c) \/ AbortDeadlock(c)

ReportNext ==
  \/ \E u \in Usage : Start(u)
  \/ \E c \in DOMAIN call : Step(c) \/ LoseConnection(c)

(* The database executes what it was sent; only its connections may fail.  *)
ReportSpec ==
  /\ ReportInit /\ [][ReportNext]_reportVars
  /\ \A c \in 1 .. MaxCalls : WF_reportVars(c \in DOMAIN call /\ Step(c))
-----------------------------------------------------------------------------
ReportTypeOK ==
  /\ table \in Seq(Row)
  /\ \A c \in DOMAIN call :
       \/ call[c] = [pc |-> "failed"]
       \/ call[c] \in [pc : {"started", "done"}, data : Usage]
       \/ call[c] \in [pc : {"selected"}, data : Usage, row : 0 .. Len(table),
                       old : Row]

Committed(u) == { c \in DOMAIN call : /\ call[c].pc = "done"
                                      /\ call[c].data.user = u.user
                                      /\ call[c].data.day = u.day }

SumOf(f, n) ==
  LET upTo[k \in 0 .. n] == IF k = 0 THEN 0 ELSE upTo[k - 1] + f[k]
  IN  upTo[n]

(* What each call added to a counter of the report of u's user and day.    *)
Added(u, counter) ==
  [c \in DOMAIN call |-> IF c \in Committed(u) THEN call[c].data[counter] ELSE 0]

Total(u, counter) == SumOf(Added(u, counter), Len(call))

(* While a user has a single report for a day, it is the exact sum of what *)
(* the committed calls passed: the lock makes concurrent calls add up.     *)
(* A user with several reports for a day (concurrent first calls insert    *)
(* one each) may lose counts, because the UPDATE overwrites all of them    *)
(* with one report's sum, but no report ever counts an event twice.  And   *)
(* all is of its type.                                                     *)
CallsAddUp ==
  /\ ReportTypeOK
  /\ \A i \in DOMAIN table, counter \in {"searches", "other"} :
       /\ table[i][counter] <= Total(table[i], counter)
       /\ Reports(table[i]) = {i} => table[i][counter] = Total(table[i], counter)

(* What the comments of the procedure say ("query to update the result     *)
(* based on old usage", "new data" above the INSERT): a call that found a  *)
(* report of its user and day does not insert another.                     *)
InsertsOnlyNewData ==
  [][\A c \in DOMAIN call :
       call[c].pc = "selected" /\ call'[c].pc = "done" /\ call[c].row # NoRow
         => Len(table') = Len(table)]_reportVars
=============================================================================
