--------------------- MODULE CollaboratorMappingProofs ----------------------
(***************************************************************************)
(* What TLAPS proves of CollaboratorMapping for every set of users and     *)
(* files, and for every bound: the types, when a pair may get a second     *)
(* row, that a row's history ends with its window and, but for suspects,   *)
(* forgets nothing, when a change of dates revives a mapping, and that an  *)
(* upload which nobody disturbs leaves what its file says.                 *)
(***************************************************************************)
EXTENDS CollaboratorMapping, SequenceTheorems, WellFoundedInduction, TLAPS

Span == [start : Dates, end : Dates]

(* The tasks, by what they are about to do.                                *)
Tasks ==
  {Idle}
    \cup [at : {"begin"}, kind : {"add", "update", "remove"}, user : Users,
          collaborator : Users, asked : Span]
    \cup [at : {"assign"}, kind : {"add", "update", "upload"}, user : Users,
          collaborator : Users, asked : Span]
    \cup [at : {"remove"}, kind : {"remove"}, user : Users, collaborator : Users, asked : Span]
    \cup [at : {"insert", "write"}, kind : {"add", "update", "upload"}, user : Users,
          collaborator : Users, window : Window, past : Seq(Window)]
    \cup [at : {"done", "failed"}, kind : {"upload"}, user : Users, collaborator : Users]

Typed ==
  /\ rows \in Seq(Row) /\ deleted \subseteq DOMAIN rows
  /\ task \in [Slots -> Tasks]
  /\ upload \in Files \cup {NoFile}
  /\ suspects \subseteq Users \X Users /\ disturbed \in BOOLEAN

(* Tasks that conflict have made their pair a suspect.                     *)
Met ==
  \A q, s \in Slots : q # s /\ Busy(q) /\ Busy(s) /\ Conflict(task[q], task[s])
                        => Pair(task[s]) \in suspects

(* What the look-up of a task saw is still so, unless its pair is suspect: *)
(* an INSERT finds no row of its pair, an update the history it read, and  *)
(* a change of dates a mapping that is live.                               *)
UpToDate(s) ==
  Pair(task[s]) \notin suspects =>
    /\ task[s].at = "insert" => RowsOf(Pair(task[s])) = {}
    /\ task[s].at = "write" =>
         \A i \in RowsOf(Pair(task[s])) : rows[i].history = task[s].past
    /\ task[s].at \in {"assign", "write"} /\ task[s].kind = "update" =>
         RowsOf(Pair(task[s])) \cap deleted = {}

Current == \A s \in Slots : task[s] # Idle => UpToDate(s)

IInv == Typed /\ Met /\ Current /\ OneRowPerPair /\ HistoryEndsWithWindow

LEMMA TaskFields ==
  ASSUME NEW t \in Tasks
  PROVE  /\ t.at \in {"idle", "begin", "assign", "insert", "write", "remove", "done", "failed"}
         /\ t.at = "idle" <=> t = Idle
         /\ t # Idle => /\ Pair(t) \in Users \X Users /\ t.user \in Users
                        /\ t.collaborator \in Users
                        /\ t.kind \in {"add", "update", "remove", "upload"}
         /\ t.at \in {"begin", "assign"} => t.asked \in Span
         /\ t.at \in {"insert", "write"} => t.window \in Window /\ t.past \in Seq(Window)
         /\ t.at \in {"assign", "insert", "write"} => t.kind \in {"add", "update", "upload"}
         /\ t.at = "begin" => t.kind \in {"add", "update", "remove"}
  BY DEF Tasks, Idle, Pair

LEMMA TypedImpliesTypeOK == Typed => TypeOK
<1> SUFFICES ASSUME Typed PROVE TypeOK
  OBVIOUS
<1>1. ASSUME NEW s \in Slots, task[s] # Idle
      PROVE  /\ task[s].at \in {"begin", "assign", "insert", "write", "remove", "done", "failed"}
             /\ task[s].kind \in {"add", "update", "remove", "upload"}
             /\ Pair(task[s]) \in Users \X Users
             /\ task[s].at \in {"insert", "write"} => /\ task[s].window \in Window
                                                      /\ task[s].past \in Seq(Window)
  <2>1. task[s] \in Tasks
    BY DEF Typed
  <2>2. QED
    BY <1>1, <2>1, TaskFields
<1>2. QED
  BY <1>1 DEF Typed, TypeOK

(* What is written always has a start.                                     *)
LEMMA Dating ==
  ASSUME NEW asked \in Span, NEW today \in Int
  PROVE  AccessDuration(asked, today) \in Window
<1>1. /\ asked.start \in Dates /\ asked.end \in Dates /\ Null \notin Int
      /\ Expiry \in Nat \cup {Null}
  BY CollaboratorAssumption DEF Span
<1> DEFINE start == IF asked.start = Null THEN today ELSE asked.start
           end == IF asked.end # Null \/ Expiry = Null THEN asked.end ELSE start + Expiry
<1>2. start \in Int
  BY <1>1 DEF Dates
<1>3. end \in Dates
  <2> HIDE DEF start
  <2>1. Expiry # Null => start + Expiry \in Int
    BY <1>1, <1>2
  <2>2. QED
    BY <1>1, <2>1 DEF Dates
<1>4. AccessDuration(asked, today) = [start |-> start, end |-> end]
  BY DEF AccessDuration
<1>5. QED
  <2> HIDE DEF start, end
  <2>1. QED
    BY <1>2, <1>3, <1>4 DEF Window

LEMMA AskedSpan == Asked \subseteq Span /\ [start |-> Null, end |-> Null] \in Span
  BY CollaboratorAssumption DEF Span, Dates

LEMMA HistoryExtends ==
  ASSUME NEW h \in Seq(Window), NEW w \in Window
  PROVE  IsPrefix(h, h) /\ IsPrefix(h, Append(h, w))
<1>1. Append(h, w) \in Seq(Window) /\ Len(h) \in Nat /\ Len(Append(h, w)) = Len(h) + 1
  BY AppendProperties, LenProperties
<1>2. \A i \in 1 .. Len(h) : Append(h, w)[i] = h[i]
  BY AppendProperties
<1>3. SubSeq(h, 1, Len(h)) = [i \in 1 .. Len(h) |-> h[i]]
  BY <1>1
<1>4. SubSeq(Append(h, w), 1, Len(h)) = [i \in 1 .. Len(h) |-> Append(h, w)[i]]
  BY <1>1
<1>5. IsPrefix(h, Append(h, w))
  BY <1>1, <1>2, <1>3, <1>4 DEF IsPrefix
<1>6. IsPrefix(h, h)
  BY <1>1 DEF IsPrefix
<1>7. QED
  BY <1>5, <1>6

-----------------------------------------------------------------------------
(* The table: what a write makes of it.                                    *)
SameRows == DOMAIN rows' = DOMAIN rows /\ \A i \in DOMAIN rows : Pair(rows'[i]) = Pair(rows[i])

Written(row, t) == [row EXCEPT !.window = t.window, !.history = Append(t.past, t.window)]

LEMMA WrittenRow ==
  ASSUME NEW row \in Row, NEW t, t.window \in Window, t.past \in Seq(Window),
         NEW new, new = Written(row, t)
  PROVE  /\ new \in Row /\ Pair(new) = Pair(row)
         /\ new.history = Append(t.past, t.window)
         /\ new.history # <<>> /\ Last(new.history) = new.window
<1>1. /\ Append(t.past, t.window) \in Seq(Window) /\ Append(t.past, t.window) # <<>>
      /\ Last(Append(t.past, t.window)) = t.window
  BY DEF Last
<1>2. new.history = Append(t.past, t.window) /\ new.window = t.window
      /\ new.user = row.user /\ new.collaborator = row.collaborator
  BY DEF Row, Written
<1>3. new \in Row
  BY <1>1 DEF Row, Written
<1>4. QED
  BY <1>1, <1>2, <1>3 DEF Pair

LEMMA Writing ==
  ASSUME Typed, HistoryEndsWithWindow, NEW s \in Slots, WriteMapping(s)
  PROVE  /\ rows' \in Seq(Row) /\ SameRows /\ HistoryEndsWithWindow'
         /\ \A i \in DOMAIN rows \ RowsOf(Pair(task[s])) : rows'[i] = rows[i]
         /\ \A i \in RowsOf(Pair(task[s])) :
              rows'[i].history = Append(task[s].past, task[s].window)
<1> DEFINE t == task[s]
           found == RowsOf(Pair(t))
<1>0. rows' = [i \in DOMAIN rows |-> IF i \in found THEN Written(rows[i], t) ELSE rows[i]]
  BY DEF WriteMapping, Written
<1>1. rows \in Seq(Row) /\ t \in Tasks /\ t.at = "write"
  BY DEF Typed, WriteMapping
<1>2. t.window \in Window /\ t.past \in Seq(Window)
  BY <1>1, TaskFields
<1>3. found \subseteq DOMAIN rows
  BY DEF RowsOf
<1> HIDE DEF t, found
<1>4. DOMAIN rows = 1 .. Len(rows) /\ Len(rows) \in Nat /\ \A i \in DOMAIN rows : rows[i] \in Row
  BY <1>1
<1>5. DOMAIN rows' = DOMAIN rows
  BY <1>0
<1>6. ASSUME NEW i \in found
      PROVE  /\ rows'[i] \in Row /\ Pair(rows'[i]) = Pair(rows[i])
             /\ rows'[i].history = Append(t.past, t.window)
             /\ rows'[i].history # <<>> /\ Last(rows'[i].history) = rows'[i].window
  <2>1. rows'[i] = Written(rows[i], t)
    BY <1>0, <1>3
  <2>2. rows[i] \in Row
    BY <1>3, <1>4
  <2>3. QED
    BY <1>2, <2>1, <2>2, WrittenRow
<1>7. ASSUME NEW i \in DOMAIN rows, i \notin found PROVE rows'[i] = rows[i]
  BY <1>0, <1>7
<1>8. rows' \in [1 .. Len(rows) -> Row]
  BY <1>0, <1>4, <1>5, <1>6, <1>7
<1>9. rows' \in Seq(Row)
  BY <1>4, <1>8, SeqDef
<1>10. SameRows
  BY <1>5, <1>6, <1>7 DEF SameRows
<1>11. HistoryEndsWithWindow'
  BY <1>5, <1>6, <1>7 DEF HistoryEndsWithWindow
<1>12. QED
  BY <1>6, <1>7, <1>9, <1>10, <1>11 DEF t, found

(* The row that an INSERT adds.                                            *)
LEMMA Inserted ==
  ASSUME Typed, HistoryEndsWithWindow, NEW s \in Slots, InsertMapping(s)
  PROVE  /\ rows' \in Seq(Row) /\ HistoryEndsWithWindow'
         /\ DOMAIN rows' = DOMAIN rows \cup {Len(rows) + 1}
         /\ Len(rows) + 1 \notin DOMAIN rows
         /\ Pair(rows'[Len(rows) + 1]) = Pair(task[s])
         /\ \A i \in DOMAIN rows : rows'[i] = rows[i]
<1> DEFINE t == task[s]
           new == [user |-> t.user, collaborator |-> t.collaborator,
                   window |-> t.window, history |-> <<t.window>>]
<1>1. /\ rows \in Seq(Row) /\ t \in Tasks /\ t.at = "insert" /\ rows' = Append(rows, new)
  BY DEF Typed, InsertMapping
<1>2. /\ t # Idle /\ t.user \in Users /\ t.collaborator \in Users /\ t.window \in Window
  BY <1>1, TaskFields DEF Idle
<1>3. /\ new \in Row /\ Pair(new) = Pair(t)
      /\ new.history # <<>> /\ Last(new.history) = new.window
  BY <1>2 DEF Row, Pair, Last
<1> HIDE DEF new
<1>4. /\ rows' \in Seq(Row) /\ DOMAIN rows' = DOMAIN rows \cup {Len(rows) + 1}
      /\ Len(rows) + 1 \notin DOMAIN rows
      /\ rows'[Len(rows) + 1] = new /\ \A i \in DOMAIN rows : rows'[i] = rows[i]
  BY <1>1, <1>3
<1>5. HistoryEndsWithWindow'
  BY <1>3, <1>4 DEF HistoryEndsWithWindow
<1>6. QED
  BY <1>3, <1>4, <1>5

-----------------------------------------------------------------------------
(* The tasks.                                                              *)
Deciding == {"assign", "insert", "write"}
Over == {"idle", "done", "failed"}

(* A step in which no task appears or turns to another pair.               *)
Calm ==
  /\ \A q \in Slots : task'[q].at \notin Over =>
       /\ task[q].at \notin Over
       /\ Pair(task'[q]) = Pair(task[q]) /\ task'[q].kind = task[q].kind
  /\ suspects \subseteq suspects'

LEMMA MetKept == ASSUME Met, Calm PROVE Met'
<1>1. ASSUME NEW q \in Slots, NEW s \in Slots, q # s,
             task'[q].at \notin Over, task'[s].at \notin Over, Conflict(task'[q], task'[s])
      PROVE  Pair(task'[s]) \in suspects'
  <2>1. Busy(q) /\ Busy(s) /\ Conflict(task[q], task[s]) /\ Pair(task'[s]) = Pair(task[s])
    BY <1>1 DEF Calm, Conflict, Busy, Over
  <2>2. QED
    BY <1>1, <2>1 DEF Met, Calm
<1>2. QED
  BY <1>1 DEF Met, Busy, Over

(* What a step leaves of the rows of a pair.                               *)
Untouched(p) == \A i \in DOMAIN rows' : Pair(rows'[i]) = p => i \in DOMAIN rows /\ rows'[i] = rows[i]
Undeleted(p) == RowsOf(p) \cap deleted' \subseteq deleted

Spared(q) ==
  Pair(task[q]) \notin suspects' /\ task[q].at \in Deciding =>
    /\ Untouched(Pair(task[q]))
    /\ task[q].kind = "update" => Undeleted(Pair(task[q]))

LEMMA StaysUpToDate ==
  ASSUME NEW q \in Slots, UpToDate(q), Spared(q), task'[q] = task[q], suspects \subseteq suspects'
  PROVE  UpToDate(q)'
<1> DEFINE p == Pair(task[q])
<1>1. SUFFICES ASSUME p \notin suspects', task[q].at \in Deciding
               PROVE  /\ task[q].at = "insert" => RowsOf(p)' = {}
                      /\ task[q].at = "write" =>
                           \A i \in RowsOf(p)' : rows'[i].history = task[q].past
                      /\ task[q].kind = "update" /\ task[q].at # "insert" =>
                           RowsOf(p)' \cap deleted' = {}
  BY DEF UpToDate, Deciding, RowsOf
<1>2. Untouched(p) /\ (task[q].kind = "update" => Undeleted(p))
  BY <1>1 DEF Spared
<1>3. /\ task[q].at = "insert" => RowsOf(p) = {}
      /\ task[q].at = "write" => \A i \in RowsOf(p) : rows[i].history = task[q].past
      /\ task[q].kind = "update" /\ task[q].at # "insert" => RowsOf(p) \cap deleted = {}
  BY <1>1 DEF UpToDate, Deciding
<1>4. \A i \in RowsOf(p)' : i \in RowsOf(p) /\ rows'[i] = rows[i]
  BY <1>2 DEF Untouched, RowsOf
<1> HIDE DEF p
<1>5. task[q].kind = "update" => RowsOf(p) \cap deleted' \subseteq deleted
  BY <1>2 DEF Undeleted
<1>6. QED
  BY <1>3, <1>4, <1>5

LEMMA CurrentKept ==
  ASSUME Current, suspects \subseteq suspects',
         \A q \in Slots : \/ task'[q] = Idle
                          \/ UpToDate(q)'
                          \/ task'[q] = task[q] /\ Spared(q)
  PROVE  Current'
<1>1. ASSUME NEW q \in Slots, task'[q] # Idle PROVE UpToDate(q)'
  <2>1. CASE task'[q] = task[q] /\ Spared(q)
    BY <1>1, <2>1, StaysUpToDate DEF Current
  <2>2. QED
    BY <1>1, <2>1
<1>2. QED
  BY <1>1 DEF Current

LEMMA NotDeciding ==
  ASSUME NEW q \in Slots, task'[q].at \notin Deciding PROVE UpToDate(q)'
BY DEF UpToDate, Deciding

LEMMA SameTable ==
  ASSUME rows' = rows, OneRowPerPair, HistoryEndsWithWindow, suspects \subseteq suspects'
  PROVE  OneRowPerPair' /\ HistoryEndsWithWindow' /\ \A p : Untouched(p)
BY DEF OneRowPerPair, HistoryEndsWithWindow, Untouched

(* A task that writes rows, or removes those of a change of dates, does so *)
(* for another pair, or the pair is suspect.                               *)
LEMMA Disjoint ==
  ASSUME Typed, Met, NEW q \in Slots, NEW s \in Slots, q # s, task[s].at \notin Over,
         task[q].at \in Deciding, Pair(task[q]) \notin suspects,
         task[s].kind # "remove" \/ task[q].kind = "update"
  PROVE  Pair(task[q]) # Pair(task[s])
<1>1. task[q] \in Tasks
  BY DEF Typed
<1>2. task[q].kind # "remove"
  BY <1>1, TaskFields DEF Deciding
<1>3. Busy(q) /\ Busy(s)
  BY DEF Busy, Over, Deciding
<1>4. QED
  BY <1>2, <1>3 DEF Met, Conflict

LEMMA Becomes ==
  ASSUME Typed, NEW s \in Slots, NEW t \in Tasks, Become(s, t)
  PROVE  /\ task' \in [Slots -> Tasks] /\ task'[s] = t
         /\ \A q \in Slots : q # s => task'[q] = task[q]
         /\ upload' = upload /\ suspects' = suspects /\ disturbed' \in BOOLEAN
<1>1. task \in [Slots -> Tasks] /\ disturbed \in BOOLEAN
  BY DEF Typed
<1>2. task' = [task EXCEPT ![s] = t] /\ upload' = upload /\ suspects' = suspects
  BY DEF Become
<1>3. disturbed' \in BOOLEAN
  BY <1>1 DEF Become, Disturb
<1>4. QED
  BY <1>1, <1>2, <1>3

(* The next step of a task, or its end.                                    *)
LEMMA Moves ==
  ASSUME Typed, NEW s \in Slots, task[s].at \notin Over, NEW t \in Tasks, Become(s, t),
         t.at \in Over \/ (Pair(t) = Pair(task[s]) /\ t.kind = task[s].kind)
  PROVE  /\ task' \in [Slots -> Tasks] /\ task'[s] = t
         /\ \A q \in Slots : q # s => task'[q] = task[q]
         /\ upload' = upload /\ suspects' = suspects /\ disturbed' \in BOOLEAN
         /\ Calm
<1>1. /\ task' \in [Slots -> Tasks] /\ task'[s] = t
      /\ \A q \in Slots : q # s => task'[q] = task[q]
      /\ upload' = upload /\ suspects' = suspects /\ disturbed' \in BOOLEAN
  BY Becomes
<1>2. Calm
  BY <1>1 DEF Calm
<1>3. QED
  BY <1>1, <1>2

LEMMA Settles ==
  ASSUME Typed, NEW s \in Slots, task[s].at \notin Over, NEW at \in {"done", "failed"},
         Settle(s, at)
  PROVE  /\ task' \in [Slots -> Tasks] /\ task'[s].at \in Over
         /\ \A q \in Slots : q # s => task'[q] = task[q]
         /\ upload' = upload /\ suspects' = suspects /\ disturbed' \in BOOLEAN
         /\ Calm
<1> DEFINE rest == [at |-> at, kind |-> "upload", user |-> task[s].user,
                    collaborator |-> task[s].collaborator]
           t == IF OfUpload(s) THEN rest ELSE Idle
<1>1. task[s] \in Tasks /\ task[s] # Idle
  BY DEF Typed, Over, Idle
<1>2. rest \in Tasks /\ rest.at \in Over
  BY <1>1, TaskFields DEF Tasks, Over
<1>3. Idle \in Tasks /\ Idle.at \in Over
  BY DEF Tasks, Idle, Over
<1>4. t \in Tasks /\ t.at \in Over
  BY <1>2, <1>3
<1>5. Become(s, t)
  BY DEF Settle
<1> HIDE DEF t
<1>6. QED
  BY <1>4, <1>5, Moves

-----------------------------------------------------------------------------
(* The actions, one by one.                                                *)
LEMMA InvInit == Init => IInv
<1> SUFFICES ASSUME Init PROVE IInv
  OBVIOUS
<1>1. Idle \in Tasks /\ Idle.at = "idle"
  BY DEF Tasks, Idle
<1>2. rows = <<>> /\ deleted = {} /\ task = [s \in Slots |-> Idle]
      /\ upload = NoFile /\ suspects = {} /\ disturbed = FALSE
  BY DEF Init
<1>3. Typed
  <2>1. rows \in Seq(Row)
    BY <1>2
  <2>2. task \in [Slots -> Tasks]
    BY <1>1, <1>2
  <2>3. QED
    BY <1>2, <2>1, <2>2 DEF Typed
<1>4. Met /\ Current
  BY <1>1, <1>2 DEF Met, Busy, Current
<1>5. OneRowPerPair /\ HistoryEndsWithWindow
  BY <1>2 DEF OneRowPerPair, HistoryEndsWithWindow
<1>6. QED
  BY <1>3, <1>4, <1>5 DEF IInv

(* A new request makes its pair a suspect if it conflicts with another.    *)
LEMMA BeginKeeps ==
  ASSUME IInv, NEW s \in Slots, NEW t \in Tasks, t.at = "begin", Begin(s, t)
  PROVE  IInv'
<1>1. Typed /\ Met /\ Current /\ OneRowPerPair /\ HistoryEndsWithWindow
  BY DEF IInv
<1>2. /\ task[s] = Idle /\ task' = [task EXCEPT ![s] = t]
      /\ rows' = rows /\ deleted' = deleted /\ upload' = upload
  BY DEF Begin
<1>3. disturbed' \in BOOLEAN
  BY <1>1 DEF Begin, Disturb, Typed
<1>4. /\ task' \in [Slots -> Tasks] /\ task'[s] = t
      /\ \A q \in Slots : q # s => task'[q] = task[q]
  BY <1>1, <1>2 DEF Typed
<1>5. Pair(t) \in Users \X Users
  BY TaskFields DEF Idle
<1>6. /\ suspects \subseteq suspects' /\ suspects' \subseteq suspects \cup {Pair(t)}
      /\ (\E q \in Slots : Busy(q) /\ Conflict(t, task[q])) => Pair(t) \in suspects'
  BY DEF Begin, Suspect
<1>7. Typed'
  BY <1>1, <1>2, <1>3, <1>4, <1>5, <1>6 DEF Typed
<1>8. ASSUME NEW q \in Slots, NEW r \in Slots, q # r,
             task'[q].at \notin Over, task'[r].at \notin Over, Conflict(task'[q], task'[r])
      PROVE  Pair(task'[r]) \in suspects'
  <2>1. CASE q # s /\ r # s
    <3>1. Busy(q) /\ Busy(r) /\ task'[q] = task[q] /\ task'[r] = task[r]
      BY <1>4, <1>8, <2>1 DEF Busy, Over
    <3>2. QED
      BY <1>1, <1>6, <1>8, <3>1 DEF Met
  <2>2. CASE q = s
    <3>1. Busy(r) /\ Conflict(t, task[r]) /\ task'[r] = task[r]
      BY <1>4, <1>8, <2>2 DEF Busy, Over
    <3>2. QED
      BY <1>6, <3>1 DEF Conflict
  <2>3. CASE r = s
    <3>1. Busy(q) /\ Conflict(t, task[q]) /\ task'[r] = t
      BY <1>4, <1>8, <2>3 DEF Busy, Over, Conflict
    <3>2. QED
      BY <1>6, <3>1
  <2>4. QED
    BY <2>1, <2>2, <2>3
<1>9. Met'
  BY <1>8 DEF Met, Busy, Over
<1>10. OneRowPerPair' /\ HistoryEndsWithWindow' /\ \A p : Untouched(p)
  BY <1>1, <1>2, <1>6, SameTable
<1>11. ASSUME NEW q \in Slots
       PROVE  UpToDate(q)' \/ (task'[q] = task[q] /\ Spared(q))
  <2>1. CASE q = s
    BY <1>4, <2>1, NotDeciding DEF Deciding
  <2>2. CASE q # s
    BY <1>2, <1>4, <1>10, <2>2 DEF Spared, Undeleted
  <2>3. QED
    BY <2>1, <2>2
<1>12. Current'
  BY <1>1, <1>6, <1>11, CurrentKept
<1>13. QED
  BY <1>7, <1>9, <1>10, <1>12 DEF IInv

LEMMA SubmitKeeps ==
  ASSUME IInv, NEW s \in Slots, NEW kind \in {"add", "update", "remove"},
         NEW u \in Users, NEW c \in Users, NEW asked \in Span, Submit(s, kind, u, c, asked)
  PROVE  IInv'
<1> DEFINE t == [at |-> "begin", kind |-> kind, user |-> u, collaborator |-> c, asked |-> asked]
<1>1. t \in Tasks /\ t.at = "begin"
  BY DEF Tasks
<1>2. Begin(s, t)
  BY DEF Submit
<1> HIDE DEF t
<1>3. QED
  BY <1>1, <1>2, BeginKeeps

(* A step of a task that writes nothing, if what it saw is so.             *)
LEMMA LookUpKeeps ==
  ASSUME IInv, NEW s \in Slots, task[s].at \notin Over, NEW t \in Tasks, Become(s, t),
         t.at \in Over \/ (Pair(t) = Pair(task[s]) /\ t.kind = task[s].kind),
         UNCHANGED <<rows, deleted>>,
         Pair(t) \notin suspects /\ t.at \in Deciding =>
           /\ t.at = "insert" => RowsOf(Pair(t)) = {}
           /\ t.at = "write" => \A i \in RowsOf(Pair(t)) : rows[i].history = t.past
           /\ t.kind = "update" => RowsOf(Pair(t)) \cap deleted = {}
  PROVE  IInv'
<1>1. Typed /\ Met /\ Current /\ OneRowPerPair /\ HistoryEndsWithWindow
  BY DEF IInv
<1>2. /\ task' \in [Slots -> Tasks] /\ task'[s] = t
      /\ \A q \in Slots : q # s => task'[q] = task[q]
      /\ upload' = upload /\ suspects' = suspects /\ disturbed' \in BOOLEAN
      /\ Calm
  BY <1>1, Moves
<1>3. Typed'
  BY <1>1, <1>2 DEF Typed
<1>4. Met'
  BY <1>1, <1>2, MetKept
<1>5. OneRowPerPair' /\ HistoryEndsWithWindow' /\ \A p : Untouched(p)
  BY <1>1, <1>2, SameTable
<1>6. UpToDate(s)'
  BY <1>2 DEF UpToDate, RowsOf, Deciding
<1>7. ASSUME NEW q \in Slots, q # s PROVE task'[q] = task[q] /\ Spared(q)
  BY <1>2, <1>5, <1>7 DEF Spared, Undeleted
<1>8. Current'
  BY <1>1, <1>2, <1>6, <1>7, CurrentKept
<1>9. QED
  BY <1>3, <1>4, <1>5, <1>8 DEF IInv

LEMMA CheckMappingKeeps ==
  ASSUME IInv, NEW s \in Slots, CheckMapping(s)
  PROVE  IInv'
<1> DEFINE t == task[s]
           mapped == LiveOf(Pair(t)) # {}
           next == [t EXCEPT !.at = IF t.kind = "remove" THEN "remove" ELSE "assign"]
<1>1. /\ t \in Tasks /\ t.at = "begin" /\ UNCHANGED <<rows, deleted>>
      /\ \/ Become(s, Idle)
         \/ mapped # (t.kind = "add") /\ Become(s, next)
  BY DEF IInv, Typed, CheckMapping
<1>2. t \in [at : {"begin"}, kind : {"add", "update", "remove"}, user : Users,
             collaborator : Users, asked : Span]
  BY <1>1 DEF Tasks, Idle
<1>3. CASE Become(s, Idle)
  <2>1. Idle \in Tasks /\ Idle.at \in Over /\ Idle.at \notin Deciding /\ t.at \notin Over
    BY <1>1 DEF Tasks, Idle, Over, Deciding
  <2>2. QED
    BY <1>1, <1>3, <2>1, LookUpKeeps
<1>4. CASE mapped # (t.kind = "add") /\ Become(s, next)
  <2>1. next \in Tasks /\ next.at \in {"remove", "assign"} /\ Pair(next) = Pair(t)
        /\ next.kind = t.kind
    <3>1. CASE t.kind = "remove"
      BY <1>2, <3>1 DEF Tasks, Pair
    <3>2. CASE t.kind # "remove"
      BY <1>2, <3>2 DEF Tasks, Pair
    <3>3. QED
      BY <3>1, <3>2
  <2>2. ASSUME Pair(t) \notin suspects, t.kind = "update"
        PROVE  RowsOf(Pair(t)) \cap deleted = {}
    <3>1. mapped
      BY <1>4, <2>2
    <3>2. PICK i \in RowsOf(Pair(t)) : i \notin deleted
      BY <3>1 DEF LiveOf
    <3>3. \A j \in RowsOf(Pair(t)) : j = i
      BY <2>2, <3>2 DEF IInv, OneRowPerPair, RowsOf
    <3>4. QED
      BY <3>2, <3>3
  <2>3. t.at \notin Over
    BY <1>1 DEF Over
  <2> HIDE DEF next, mapped, t
  <2>4. Pair(next) \notin suspects /\ next.at \in Deciding =>
           /\ next.at = "insert" => RowsOf(Pair(next)) = {}
           /\ next.at = "write" => \A i \in RowsOf(Pair(next)) : rows[i].history = next.past
           /\ next.kind = "update" => RowsOf(Pair(next)) \cap deleted = {}
    BY <2>1, <2>2
  <2>5. /\ task[s].at \notin Over /\ Become(s, next) /\ UNCHANGED <<rows, deleted>>
        /\ Pair(next) = Pair(task[s]) /\ next.kind = task[s].kind
    BY <1>1, <1>4, <2>1, <2>3 DEF t
  <2>6. QED
    BY <2>1, <2>4, <2>5, LookUpKeeps
<1>5. QED
  BY <1>1, <1>3, <1>4

LEMMA ChosenTyped ==
  ASSUME NEW t \in Tasks, t.at = "assign", NEW at \in {"insert", "write"},
         NEW past \in Seq(Window), NEW today \in Int
  PROVE  /\ Chosen(t, at, past, today) \in Tasks
         /\ Chosen(t, at, past, today).at = at /\ Chosen(t, at, past, today).past = past
         /\ Chosen(t, at, past, today).kind = t.kind
         /\ Pair(Chosen(t, at, past, today)) = Pair(t)
<1> DEFINE w == AccessDuration(t.asked, today)
<1>1. t.asked \in Span
  BY TaskFields
<1>2. w \in Window
  BY <1>1, Dating
<1>3. t.kind \in {"add", "update", "upload"} /\ t.user \in Users /\ t.collaborator \in Users
  BY TaskFields DEF Idle
<1>4. Chosen(t, at, past, today) =
        [at |-> at, kind |-> t.kind, user |-> t.user, collaborator |-> t.collaborator,
         window |-> w, past |-> past]
  BY DEF Chosen
<1> HIDE DEF w
<1>5. QED
  BY <1>2, <1>3, <1>4 DEF Tasks, Pair

LEMMA FindMappingKeeps ==
  ASSUME IInv, NEW s \in Slots, FindMapping(s)
  PROVE  IInv'
<1> DEFINE t == task[s]
           found == RowsOf(Pair(t))
<1>1. /\ t \in Tasks /\ t.at = "assign" /\ UNCHANGED <<rows, deleted>>
      /\ Days \subseteq Int /\ Typed /\ OneRowPerPair
  BY CollaboratorAssumption DEF IInv, Typed, FindMapping
<1>2. PICK today \in Days :
        \/ found = {} /\ Become(s, Chosen(t, "insert", <<>>, today))
        \/ \E i \in found : Become(s, Chosen(t, "write", rows[i].history, today))
  BY DEF FindMapping
<1>3. t.at \notin Over /\ t # Idle
  BY <1>1 DEF Over, Idle
<1>4. Pair(t) \notin suspects /\ t.kind = "update" => found \cap deleted = {}
  BY <1>1, <1>3 DEF IInv, Current, UpToDate
<1>5. CASE found = {} /\ Become(s, Chosen(t, "insert", <<>>, today))
  <2> DEFINE none == <<>>
             v == Chosen(t, "insert", none, today)
  <2>1. none \in Seq(Window) /\ today \in Int
    BY <1>1
  <2> HIDE DEF none
  <2>2. v \in Tasks /\ v.at = "insert" /\ v.kind = t.kind /\ Pair(v) = Pair(t)
    BY <1>1, <2>1, ChosenTyped
  <2>3. Become(s, v)
    BY <1>5 DEF none
  <2> HIDE DEF v
  <2>4. QED
    BY <1>1, <1>3, <1>4, <1>5, <2>2, <2>3, LookUpKeeps
<1>6. CASE \E i \in found : Become(s, Chosen(t, "write", rows[i].history, today))
  <2>1. PICK i \in found : Become(s, Chosen(t, "write", rows[i].history, today))
    BY <1>6
  <2> DEFINE v == Chosen(t, "write", rows[i].history, today)
  <2>2. rows[i].history \in Seq(Window)
    <3>1. rows \in Seq(Row) /\ i \in DOMAIN rows
      BY <1>1 DEF Typed, RowsOf
    <3>2. rows[i] \in Row
      BY <3>1
    <3>3. QED
      BY <3>2 DEF Row
  <2>3. /\ v \in Tasks /\ v.at = "write" /\ v.kind = t.kind /\ Pair(v) = Pair(t)
        /\ v.past = rows[i].history
    BY <1>1, <2>2, ChosenTyped
  <2>4. Become(s, v)
    BY <2>1
  <2>5. Pair(t) \notin suspects => \A j \in found : j = i
    BY <1>1 DEF OneRowPerPair, RowsOf
  <2> HIDE DEF v
  <2>6. QED
    BY <1>1, <1>3, <1>4, <2>3, <2>4, <2>5, LookUpKeeps
<1>7. QED
  BY <1>2, <1>5, <1>6

(* The row that is added is the only one of its pair, unless the pair is   *)
(* suspect.                                                                *)
LEMMA InsertMappingKeeps ==
  ASSUME IInv, NEW s \in Slots, InsertMapping(s)
  PROVE  IInv'
<1> DEFINE p == Pair(task[s])
           n == Len(rows) + 1
<1>1. Typed /\ Met /\ Current /\ OneRowPerPair /\ HistoryEndsWithWindow
  BY DEF IInv
<1>2. task[s].at = "insert" /\ Settle(s, "done") /\ deleted' = deleted
  BY DEF InsertMapping
<1>3. task[s].at \notin Over /\ task[s] # Idle /\ task[s] \in Tasks /\ deleted \subseteq DOMAIN rows
  BY <1>1, <1>2 DEF Over, Idle, Typed
<1>4. task[s].kind # "remove"
  BY <1>2, <1>3, TaskFields
<1>5. /\ rows' \in Seq(Row) /\ HistoryEndsWithWindow'
      /\ DOMAIN rows' = DOMAIN rows \cup {n} /\ n \notin DOMAIN rows
      /\ Pair(rows'[n]) = p /\ \A i \in DOMAIN rows : rows'[i] = rows[i]
  BY <1>1, Inserted
<1>6. /\ task' \in [Slots -> Tasks] /\ task'[s].at \in Over
      /\ \A q \in Slots : q # s => task'[q] = task[q]
      /\ upload' = upload /\ suspects' = suspects /\ disturbed' \in BOOLEAN
      /\ Calm
  BY <1>1, <1>2, <1>3, Settles
<1>7. p \notin suspects => \A i \in DOMAIN rows : Pair(rows[i]) # p
  BY <1>1, <1>2, <1>3 DEF Current, UpToDate, RowsOf
<1> HIDE DEF p, n
<1>8. Typed'
  BY <1>1, <1>2, <1>3, <1>5, <1>6 DEF Typed
<1>9. Met'
  BY <1>1, <1>6, MetKept
<1>10. OneRowPerPair'
  <2>1. ASSUME NEW i \in DOMAIN rows', NEW j \in DOMAIN rows', Pair(rows'[i]) = Pair(rows'[j]), i # j
        PROVE  Pair(rows'[i]) \in suspects'
    <3>1. CASE i \in DOMAIN rows /\ j \in DOMAIN rows
      BY <1>1, <1>5, <1>6, <2>1, <3>1 DEF OneRowPerPair
    <3>2. CASE i = n /\ j \in DOMAIN rows
      BY <1>5, <1>6, <1>7, <2>1, <3>2
    <3>3. CASE j = n /\ i \in DOMAIN rows
      BY <1>5, <1>6, <1>7, <2>1, <3>3
    <3>4. QED
      BY <1>5, <2>1, <3>1, <3>2, <3>3
  <2>2. QED
    BY <2>1 DEF OneRowPerPair, Pair
<1>11. ASSUME NEW q \in Slots, q # s PROVE task'[q] = task[q] /\ Spared(q)
  <2>1. ASSUME Pair(task[q]) \notin suspects', task[q].at \in Deciding
        PROVE  Untouched(Pair(task[q]))
    <3>1. Pair(task[q]) # p
      BY <1>1, <1>3, <1>4, <1>6, <1>11, <2>1, Disjoint DEF p
    <3>2. QED
      BY <1>5, <3>1 DEF Untouched
  <2>2. Undeleted(Pair(task[q]))
    BY <1>2 DEF Undeleted
  <2>3. QED
    BY <1>6, <1>11, <2>1, <2>2 DEF Spared
<1>12. UpToDate(s)'
  BY <1>6, NotDeciding DEF Over, Deciding
<1>13. Current'
  BY <1>1, <1>6, <1>11, <1>12, CurrentKept
<1>14. QED
  BY <1>5, <1>8, <1>9, <1>10, <1>13 DEF IInv

LEMMA WriteMappingKeeps ==
  ASSUME IInv, NEW s \in Slots, WriteMapping(s)
  PROVE  IInv'
<1> DEFINE p == Pair(task[s])
<1>1. Typed /\ Met /\ Current /\ OneRowPerPair /\ HistoryEndsWithWindow
  BY DEF IInv
<1>2. task[s].at = "write" /\ Settle(s, "done") /\ deleted' = deleted \ RowsOf(p)
  BY DEF WriteMapping
<1>3. task[s].at \notin Over /\ task[s] \in Tasks /\ deleted \subseteq DOMAIN rows
  BY <1>1, <1>2 DEF Over, Typed
<1>4. task[s].kind # "remove"
  BY <1>2, <1>3, TaskFields
<1>5. /\ rows' \in Seq(Row) /\ SameRows /\ HistoryEndsWithWindow'
      /\ \A i \in DOMAIN rows \ RowsOf(p) : rows'[i] = rows[i]
  BY <1>1, Writing
<1>6. /\ task' \in [Slots -> Tasks] /\ task'[s].at \in Over
      /\ \A q \in Slots : q # s => task'[q] = task[q]
      /\ upload' = upload /\ suspects' = suspects /\ disturbed' \in BOOLEAN
      /\ Calm
  BY <1>1, <1>2, <1>3, Settles
<1> HIDE DEF p
<1>7. Typed'
  BY <1>1, <1>2, <1>3, <1>5, <1>6 DEF Typed, SameRows
<1>8. Met'
  BY <1>1, <1>6, MetKept
<1>9. OneRowPerPair'
  BY <1>1, <1>5, <1>6 DEF OneRowPerPair, SameRows
<1>10. ASSUME NEW q \in Slots, q # s PROVE task'[q] = task[q] /\ Spared(q)
  <2>1. ASSUME Pair(task[q]) \notin suspects', task[q].at \in Deciding
        PROVE  Untouched(Pair(task[q]))
    <3>1. Pair(task[q]) # p
      BY <1>1, <1>3, <1>4, <1>6, <1>10, <2>1, Disjoint DEF p
    <3>2. QED
      BY <1>5, <3>1 DEF Untouched, SameRows, RowsOf
  <2>2. Undeleted(Pair(task[q]))
    BY <1>2 DEF Undeleted
  <2>3. QED
    BY <1>6, <1>10, <2>1, <2>2 DEF Spared
<1>11. UpToDate(s)'
  BY <1>6, NotDeciding DEF Over, Deciding
<1>12. Current'
  BY <1>1, <1>6, <1>10, <1>11, CurrentKept
<1>13. QED
  BY <1>5, <1>7, <1>8, <1>9, <1>12 DEF IInv

LEMMA RemoveMappingKeeps ==
  ASSUME IInv, NEW s \in Slots, RemoveMapping(s)
  PROVE  IInv'
<1> DEFINE p == Pair(task[s])
<1>1. Typed /\ Met /\ Current /\ OneRowPerPair /\ HistoryEndsWithWindow
  BY DEF IInv
<1>2. task[s].at = "remove" /\ Settle(s, "done") /\ deleted' = deleted \cup RowsOf(p) /\ rows' = rows
  BY DEF RemoveMapping
<1>3. task[s].at \notin Over
  BY <1>2 DEF Over
<1>4. /\ task' \in [Slots -> Tasks] /\ task'[s].at \in Over
      /\ \A q \in Slots : q # s => task'[q] = task[q]
      /\ upload' = upload /\ suspects' = suspects /\ disturbed' \in BOOLEAN
      /\ Calm
  BY <1>1, <1>2, <1>3, Settles
<1> HIDE DEF p
<1>5. Typed'
  BY <1>1, <1>2, <1>4 DEF Typed, RowsOf
<1>6. Met'
  BY <1>1, <1>4, MetKept
<1>7. OneRowPerPair' /\ HistoryEndsWithWindow' /\ \A x : Untouched(x)
  BY <1>1, <1>2, <1>4, SameTable
<1>8. ASSUME NEW q \in Slots, q # s PROVE task'[q] = task[q] /\ Spared(q)
  <2>1. ASSUME Pair(task[q]) \notin suspects', task[q].at \in Deciding, task[q].kind = "update"
        PROVE  Undeleted(Pair(task[q]))
    <3>1. Pair(task[q]) # p
      BY <1>1, <1>3, <1>4, <1>8, <2>1, Disjoint DEF p
    <3>2. QED
      BY <1>2, <3>1 DEF Undeleted, RowsOf
  <2>2. QED
    BY <1>4, <1>7, <1>8, <2>1 DEF Spared
<1>9. UpToDate(s)'
  BY <1>4, NotDeciding DEF Over, Deciding
<1>10. Current'
  BY <1>1, <1>4, <1>8, <1>9, CurrentKept
<1>11. QED
  BY <1>5, <1>6, <1>7, <1>10 DEF IInv

LEMMA FailKeeps ==
  ASSUME IInv, NEW s \in Slots, Fail(s)
  PROVE  IInv'
<1>1. Typed /\ Met /\ Current /\ OneRowPerPair /\ HistoryEndsWithWindow
  BY DEF IInv
<1>2. task[s].at \notin Over /\ Settle(s, "failed") /\ rows' = rows /\ deleted' = deleted
  BY DEF Fail, Busy, Over
<1>3. /\ task' \in [Slots -> Tasks] /\ task'[s].at \in Over
      /\ \A q \in Slots : q # s => task'[q] = task[q]
      /\ upload' = upload /\ suspects' = suspects /\ disturbed' \in BOOLEAN
      /\ Calm
  BY <1>1, <1>2, Settles
<1>4. Typed'
  BY <1>1, <1>2, <1>3 DEF Typed
<1>5. Met'
  BY <1>1, <1>3, MetKept
<1>6. OneRowPerPair' /\ HistoryEndsWithWindow' /\ \A p : Untouched(p)
  BY <1>1, <1>2, <1>3, SameTable
<1>7. ASSUME NEW q \in Slots, q # s PROVE task'[q] = task[q] /\ Spared(q)
  BY <1>2, <1>3, <1>6, <1>7 DEF Spared, Undeleted
<1>8. UpToDate(s)'
  BY <1>3, NotDeciding DEF Over, Deciding
<1>9. Current'
  BY <1>1, <1>3, <1>7, <1>8, CurrentKept
<1>10. QED
  BY <1>4, <1>5, <1>6, <1>9 DEF IInv

(* A wipe makes suspects of the changes of dates in its scope.             *)
LEMMA WipeSpares ==
  ASSUME Typed, NEW scope, deleted' = deleted \cup Wiped(scope),
         WipeConflicts(scope) \subseteq suspects', rows' = rows, NEW q \in Slots
  PROVE  Spared(q)
<1>1. ASSUME Pair(task[q]) \notin suspects', task[q].at \in Deciding, task[q].kind = "update"
      PROVE  Undeleted(Pair(task[q]))
  <2>1. Busy(q)
    BY <1>1 DEF Busy, Deciding
  <2>2. task[q].user \notin scope
    BY <1>1, <2>1 DEF WipeConflicts
  <2>3. \A i \in RowsOf(Pair(task[q])) : rows[i].user = task[q].user
    BY DEF RowsOf, Pair
  <2>4. QED
    BY <2>2, <2>3 DEF Undeleted, Wiped
<1>2. Untouched(Pair(task[q]))
  BY DEF Untouched
<1>3. QED
  BY <1>1, <1>2 DEF Spared

LEMMA WipeConflictsTyped ==
  ASSUME Typed, NEW scope PROVE WipeConflicts(scope) \subseteq Users \X Users
<1>1. ASSUME NEW s \in Slots, Busy(s) PROVE Pair(task[s]) \in Users \X Users
  <2>1. task[s] \in Tasks /\ task[s] # Idle
    BY <1>1 DEF Typed, Busy, Idle
  <2>2. QED
    BY <2>1, TaskFields
<1>2. QED
  BY <1>1 DEF WipeConflicts

LEMMA RemoveAllKeeps ==
  ASSUME IInv, NEW u \in Users, RemoveAll(u)
  PROVE  IInv'
<1>1. Typed /\ Met /\ Current /\ OneRowPerPair /\ HistoryEndsWithWindow
  BY DEF IInv
<1>2. /\ deleted' = deleted \cup Wiped({u}) /\ suspects' = suspects \cup WipeConflicts({u})
      /\ rows' = rows /\ task' = task /\ upload' = upload
  BY DEF RemoveAll
<1>3. disturbed' \in BOOLEAN
  BY <1>1 DEF RemoveAll, Disturb, Typed
<1>4. WipeConflicts({u}) \subseteq Users \X Users
  BY <1>1, WipeConflictsTyped
<1>5. Typed'
  BY <1>1, <1>2, <1>3, <1>4 DEF Typed, Wiped
<1>6. Calm
  BY <1>2 DEF Calm
<1>7. Met'
  BY <1>1, <1>6, MetKept
<1>8. OneRowPerPair' /\ HistoryEndsWithWindow'
  BY <1>1, <1>2, SameTable
<1>9. \A q \in Slots : Spared(q)
  BY <1>1, <1>2, WipeSpares
<1>10. Current'
  BY <1>1, <1>2, <1>9, CurrentKept
<1>11. QED
  BY <1>5, <1>7, <1>8, <1>10 DEF IInv

(* The lines of an upload are for different pairs; those that conflict     *)
(* with requests are suspects, as are the changes of dates it wipes.       *)
LEMMA UploadKeeps ==
  ASSUME IInv, NEW file \in Files, Upload(file)
  PROVE  IInv'
<1> DEFINE lines == file.lines
           passed == Passed(lines)
<1>1. Typed /\ Met /\ Current /\ OneRowPerPair /\ HistoryEndsWithWindow
  BY DEF IInv
<1>2. PICK serve \in Injection(passed, { s \in Slots : task[s] = Idle }) :
        task' = [s \in Slots |->
                   IF \E i \in DOMAIN serve : serve[i] = s
                   THEN LineTask(lines[CHOOSE i \in DOMAIN serve : serve[i] = s])
                   ELSE task[s]]
  BY DEF Upload
<1>3. /\ deleted' = deleted \cup Wiped(file.scope) /\ upload' = file /\ rows' = rows
      /\ disturbed' \in BOOLEAN
      /\ suspects' = suspects \cup WipeConflicts(file.scope)
                       \cup { Pair(t) : t \in { t \in { LineTask(lines[i]) : i \in passed } :
                                \E s \in Slots : Busy(s) /\ Conflict(t, task[s]) } }
  BY DEF Upload
<1>4. lines \in Seq(Line)
  BY CollaboratorAssumption
<1>5. passed \subseteq DOMAIN lines /\ DOMAIN lines \subseteq Int
      /\ \A i, j \in passed : i # j => Pair(lines[i]) # Pair(lines[j])
  <2>1. passed \subseteq DOMAIN lines
    BY DEF Passed, Kept
  <2>2. DOMAIN lines \subseteq Int
    BY <1>4
  <2>3. ASSUME NEW i \in passed, NEW j \in passed, i < j PROVE Pair(lines[i]) # Pair(lines[j])
    BY <2>1, <2>3 DEF Passed, Kept
  <2>4. ASSUME NEW i \in passed, NEW j \in passed, i # j PROVE i < j \/ j < i
    BY <2>1, <2>2, <2>4
  <2>5. QED
    BY <2>1, <2>2, <2>3, <2>4
<1>6. DOMAIN serve = passed /\ \A i \in passed : task[serve[i]] = Idle
  BY <1>2 DEF Injection, IsInjective
<1> HIDE DEF passed, lines
<1>7. ASSUME NEW i \in passed
      PROVE  /\ LineTask(lines[i]) \in Tasks /\ LineTask(lines[i]).at = "assign"
             /\ LineTask(lines[i]).kind = "upload"
             /\ Pair(LineTask(lines[i])) = Pair(lines[i]) /\ Pair(lines[i]) \in Users \X Users
  <2>1. lines[i] \in Line
    BY <1>4, <1>5
  <2>2. QED
    BY <2>1 DEF Line, LineTask, Tasks, Pair, Span
<1>8. ASSUME NEW s \in Slots
      PROVE  \/ task'[s] = task[s]
             \/ /\ task[s] = Idle
                /\ \E i \in passed : serve[i] = s /\ task'[s] = LineTask(lines[i])
  <2>1. CASE \E i \in DOMAIN serve : serve[i] = s
    <3> DEFINE i == CHOOSE i \in DOMAIN serve : serve[i] = s
    <3>1. i \in DOMAIN serve /\ serve[i] = s /\ task'[s] = LineTask(lines[i])
      BY <1>2, <2>1
    <3> HIDE DEF i
    <3>2. QED
      BY <1>6, <3>1
  <2>2. CASE ~ \E i \in DOMAIN serve : serve[i] = s
    BY <1>2, <2>2
  <2>3. QED
    BY <2>1, <2>2
<1>9. /\ suspects \subseteq suspects' /\ WipeConflicts(file.scope) \subseteq suspects'
      /\ \A i \in passed : (\E s \in Slots : Busy(s) /\ Conflict(LineTask(lines[i]), task[s]))
                             => Pair(lines[i]) \in suspects'
  BY <1>3, <1>7
<1>10. suspects' \subseteq Users \X Users
  <2>1. WipeConflicts(file.scope) \subseteq Users \X Users
    BY <1>1, WipeConflictsTyped
  <2>2. { Pair(t) : t \in { t \in { LineTask(lines[i]) : i \in passed } :
            \E s \in Slots : Busy(s) /\ Conflict(t, task[s]) } } \subseteq Users \X Users
    BY <1>7
  <2>3. suspects \subseteq Users \X Users
    BY <1>1 DEF Typed
  <2>4. QED
    BY <1>3, <2>1, <2>2, <2>3
<1>11. task' \in [Slots -> Tasks]
  <2>1. task' = [s \in Slots |-> task'[s]]
    BY <1>2
  <2>2. \A s \in Slots : task'[s] \in Tasks
    BY <1>1, <1>7, <1>8 DEF Typed
  <2>3. QED
    BY <2>1, <2>2
<1>12. Typed'
  BY <1>1, <1>3, <1>10, <1>11 DEF Typed, Wiped
<1>13. ASSUME NEW q \in Slots, NEW r \in Slots, q # r,
              task'[q].at \notin Over, task'[r].at \notin Over, Conflict(task'[q], task'[r])
       PROVE  Pair(task'[r]) \in suspects'
  <2>1. CASE task'[q] = task[q] /\ task'[r] = task[r]
    <3>1. Busy(q) /\ Busy(r)
      BY <1>13, <2>1 DEF Busy, Over
    <3>2. QED
      BY <1>1, <1>9, <1>13, <2>1, <3>1 DEF Met
  <2>2. CASE /\ task'[r] = task[r]
             /\ \E i \in passed : serve[i] = q /\ task'[q] = LineTask(lines[i])
    <3>1. PICK i \in passed : task'[q] = LineTask(lines[i])
      BY <2>2
    <3>2. Busy(r) /\ Conflict(LineTask(lines[i]), task[r])
      BY <1>13, <2>2, <3>1 DEF Busy, Over
    <3>3. Pair(task'[r]) = Pair(lines[i])
      BY <1>7, <1>13, <3>1 DEF Conflict
    <3>4. QED
      BY <1>9, <3>2, <3>3
  <2>3. CASE /\ task'[q] = task[q]
             /\ \E i \in passed : serve[i] = r /\ task'[r] = LineTask(lines[i])
    <3>1. PICK i \in passed : task'[r] = LineTask(lines[i])
      BY <2>3
    <3>2. Busy(q) /\ Conflict(LineTask(lines[i]), task[q])
      BY <1>13, <2>3, <3>1 DEF Busy, Over, Conflict
    <3>3. Pair(task'[r]) = Pair(lines[i])
      BY <1>7, <3>1
    <3>4. QED
      BY <1>9, <3>2, <3>3
  <2>4. CASE /\ \E i \in passed : serve[i] = q /\ task'[q] = LineTask(lines[i])
             /\ \E i \in passed : serve[i] = r /\ task'[r] = LineTask(lines[i])
    <3>1. PICK i \in passed : serve[i] = q /\ task'[q] = LineTask(lines[i])
      BY <2>4
    <3>2. PICK j \in passed : serve[j] = r /\ task'[r] = LineTask(lines[j])
      BY <2>4
    <3>3. Pair(lines[i]) # Pair(lines[j])
      BY <1>5, <1>13, <3>1, <3>2
    <3>4. Pair(lines[i]) = Pair(lines[j])
      BY <1>7, <1>13, <3>1, <3>2 DEF Conflict
    <3>5. QED
      BY <3>3, <3>4
  <2>5. QED
    BY <1>8, <2>1, <2>2, <2>3, <2>4
<1>14. Met'
  BY <1>13 DEF Met, Busy, Over
<1>15. OneRowPerPair' /\ HistoryEndsWithWindow'
  BY <1>1, <1>3, <1>9, SameTable
<1>16. ASSUME NEW q \in Slots
       PROVE  UpToDate(q)' \/ (task'[q] = task[q] /\ Spared(q))
  <2>1. CASE task'[q] = task[q]
    BY <1>1, <1>3, <1>9, <2>1, WipeSpares
  <2>2. CASE \E i \in passed : task'[q] = LineTask(lines[i])
    BY <1>7, <2>2 DEF UpToDate
  <2>3. QED
    BY <1>8, <2>1, <2>2
<1>17. Current'
  BY <1>1, <1>9, <1>16, CurrentKept
<1>18. QED
  BY <1>12, <1>14, <1>15, <1>17 DEF IInv

LEMMA UploadAnswerKeeps ==
  ASSUME IInv, UploadAnswer
  PROVE  IInv'
<1>1. Typed /\ Met /\ Current /\ OneRowPerPair /\ HistoryEndsWithWindow
  BY DEF IInv
<1>2. /\ task' = [s \in Slots |-> IF OfUpload(s) THEN Idle ELSE task[s]]
      /\ upload' = NoFile /\ disturbed' = FALSE
      /\ rows' = rows /\ deleted' = deleted /\ suspects' = suspects
  BY DEF UploadAnswer
<1>3. Idle \in Tasks /\ Idle.at \in Over
  BY DEF Tasks, Idle, Over
<1>4. \A q \in Slots : task'[q] = Idle \/ task'[q] = task[q]
  BY <1>2
<1>5. task' \in [Slots -> Tasks]
  BY <1>1, <1>2, <1>3 DEF Typed
<1>6. Calm
  BY <1>2, <1>3, <1>4 DEF Calm
<1>7. Met'
  BY <1>1, <1>6, MetKept
<1>8. OneRowPerPair' /\ HistoryEndsWithWindow' /\ \A p : Untouched(p)
  BY <1>1, <1>2, SameTable
<1>9. \A q \in Slots : Spared(q)
  BY <1>2, <1>8 DEF Spared, Undeleted
<1>10. Current'
  BY <1>1, <1>2, <1>4, <1>9, CurrentKept
<1>11. Typed'
  BY <1>1, <1>2, <1>5 DEF Typed
<1>12. QED
  BY <1>7, <1>8, <1>10, <1>11 DEF IInv

LEMMA InvNext == IInv /\ [Next]_vars => IInv'
<1> SUFFICES ASSUME IInv, [Next]_vars PROVE IInv'
  OBVIOUS
<1>1. ASSUME NEW s \in Slots, NEW u \in Users, NEW c \in Users, NEW asked \in Asked,
             NEW kind \in {"add", "update"}, Submit(s, kind, u, c, asked)
      PROVE  IInv'
  BY <1>1, AskedSpan, SubmitKeeps
<1>2. ASSUME NEW s \in Slots, NEW u \in Users, NEW c \in Users,
             Submit(s, "remove", u, c, [start |-> Null, end |-> Null])
      PROVE  IInv'
  BY <1>2, AskedSpan, SubmitKeeps
<1>3. ASSUME NEW s \in Slots, Continue(s) \/ Fail(s)
      PROVE  IInv'
  BY <1>3, CheckMappingKeeps, FindMappingKeeps, InsertMappingKeeps, WriteMappingKeeps,
     RemoveMappingKeeps, FailKeeps DEF Continue
<1>4. ASSUME NEW u \in Users, RemoveAll(u) PROVE IInv'
  BY <1>4, RemoveAllKeeps
<1>5. ASSUME NEW file \in Files, Upload(file) PROVE IInv'
  BY <1>5, UploadKeeps
<1>6. CASE UploadAnswer
  BY <1>6, UploadAnswerKeeps
<1>7. CASE UNCHANGED vars
  <2>1. Typed' /\ Met' /\ OneRowPerPair' /\ HistoryEndsWithWindow'
    BY <1>7 DEF vars, IInv, Typed, Met, Busy, OneRowPerPair, HistoryEndsWithWindow
  <2>2. Current'
    BY <1>7 DEF vars, IInv, Current, UpToDate, RowsOf
  <2>3. QED
    BY <2>1, <2>2 DEF IInv
<1>8. QED
  BY <1>1, <1>2, <1>3, <1>4, <1>5, <1>6, <1>7 DEF Next

LEMMA InductiveInvariant == Spec => []IInv
  BY InvInit, InvNext, PTL DEF Spec

-----------------------------------------------------------------------------
(* Rows, tasks and the upload have the types the code gives them, and a    *)
(* deleted mapping is one of the table.                                    *)
THEOREM TypeCorrect == Spec => []TypeOK
<1>1. IInv => TypeOK
  BY TypedImpliesTypeOK DEF IInv
<1>2. QED
  BY <1>1, InductiveInvariant, PTL

(* For every number of requests in service, a pair gets a second row only  *)
(* if two tasks that assign it overlapped.                                 *)
THEOREM OneRow == Spec => []OneRowPerPair
<1>1. IInv => OneRowPerPair
  BY DEF IInv
<1>2. QED
  BY <1>1, InductiveInvariant, PTL

(* The history of a row ends with what the row grants, whichever tasks     *)
(* wrote it in whatever order.                                             *)
THEOREM HistoryTellsWindow == Spec => []HistoryEndsWithWindow
<1>1. IInv => HistoryEndsWithWindow
  BY DEF IInv
<1>2. QED
  BY <1>1, InductiveInvariant, PTL

LEMMA WriteExtends ==
  ASSUME IInv, NEW s \in Slots, WriteMapping(s), NEW i \in DOMAIN rows
  PROVE  IsPrefix(rows[i].history, rows'[i].history) \/ Pair(rows[i]) \in suspects
<1> DEFINE p == Pair(task[s])
<1>1. Typed /\ HistoryEndsWithWindow /\ Current
  BY DEF IInv
<1>2. /\ \A k \in DOMAIN rows \ RowsOf(p) : rows'[k] = rows[k]
      /\ \A k \in RowsOf(p) : rows'[k].history = Append(task[s].past, task[s].window)
  BY <1>1, Writing
<1>3. task[s].at = "write" /\ task[s] # Idle /\ task[s] \in Tasks
  <2>1. task[s].at = "write"
    BY DEF WriteMapping
  <2>2. QED
    BY <1>1, <2>1 DEF Idle, Typed
<1>4. task[s].window \in Window /\ task[s].past \in Seq(Window)
  BY <1>3, TaskFields
<1>5. rows[i].history \in Seq(Window)
  <2>1. rows \in Seq(Row)
    BY <1>1 DEF Typed
  <2>2. rows[i] \in Row
    BY <2>1
  <2>3. QED
    BY <2>2 DEF Row
<1>6. CASE i \in RowsOf(p) /\ p \notin suspects
  <2>1. rows[i].history = task[s].past
    BY <1>1, <1>3, <1>6 DEF Current, UpToDate
  <2>2. QED
    BY <1>2, <1>4, <1>6, <2>1, HistoryExtends
<1>7. CASE i \in RowsOf(p) /\ p \in suspects
  BY <1>7 DEF RowsOf
<1>8. CASE i \notin RowsOf(p)
  BY <1>2, <1>4, <1>5, <1>8, HistoryExtends
<1>9. QED
  BY <1>6, <1>7, <1>8

(* No write drops an entry of a row's history, unless two tasks that       *)
(* assign the pair overlapped.                                             *)
THEOREM HistoryOnlyGrows == Spec => HistoryGrows
<1> DEFINE Grows == \A i \in DOMAIN rows :
             IsPrefix(rows[i].history, rows'[i].history) \/ Pair(rows[i]) \in suspects
<1>1. ASSUME IInv, NEW i \in DOMAIN rows
      PROVE  IsPrefix(rows[i].history, rows[i].history)
  <2>1. rows \in Seq(Row)
    BY <1>1 DEF IInv, Typed
  <2>2. rows[i] \in Row
    BY <2>1
  <2>3. rows[i].history \in Seq(Window)
    BY <2>2 DEF Row
  <2>4. QED
    BY <2>3 DEF IsPrefix
<1>2. ASSUME IInv, [Next]_vars PROVE [Grows]_vars
  <2>1. CASE rows' = rows
    BY <1>1, <1>2, <2>1
  <2>2. CASE \E s \in Slots : InsertMapping(s)
    <3>1. PICK s \in Slots : InsertMapping(s)
      BY <2>2
    <3>2. \A i \in DOMAIN rows : rows'[i] = rows[i]
      BY <1>2, <3>1, Inserted DEF IInv
    <3>3. QED
      BY <1>1, <1>2, <3>2
  <2>3. CASE \E s \in Slots : WriteMapping(s)
    BY <1>2, <2>3, WriteExtends
  <2>4. rows' = rows \/ \E s \in Slots : InsertMapping(s) \/ WriteMapping(s)
    BY <1>2 DEF Next, vars, Submit, Begin, Continue, CheckMapping, FindMapping, RemoveMapping,
                Fail, RemoveAll, Upload, UploadAnswer
  <2>5. QED
    BY <2>1, <2>2, <2>3, <2>4
<1>3. QED
  BY <1>2, InductiveInvariant, PTL DEF Spec, HistoryGrows

(* A change of dates brings back a removed mapping only if the removal     *)
(* came between its look-up and its write.                                 *)
THEOREM UpdateRevivesNone == Spec => UpdateRevivesNothing
<1> DEFINE Spares == \A s \in Slots : WriteMapping(s) /\ task[s].kind = "update" =>
             RowsOf(Pair(task[s])) \cap deleted = {} \/ Pair(task[s]) \in suspects
<1>1. ASSUME IInv, NEW s \in Slots, WriteMapping(s), task[s].kind = "update"
      PROVE  RowsOf(Pair(task[s])) \cap deleted = {} \/ Pair(task[s]) \in suspects
  <2>1. task[s].at = "write"
    BY <1>1 DEF WriteMapping
  <2>2. task[s] # Idle
    BY <2>1 DEF Idle
  <2>3. QED
    BY <1>1, <2>1, <2>2 DEF IInv, Current, UpToDate
<1>2. IInv => [Spares]_vars
  BY <1>1
<1>3. QED
  BY <1>2, InductiveInvariant, PTL DEF UpdateRevivesNothing

-----------------------------------------------------------------------------
(* What an upload leaves.                                                  *)

(* Dates that are those asked for, wherever some were asked for.           *)
Agrees(w, asked) ==
  /\ asked.start # Null => w.start = asked.start
  /\ asked.end # Null => w.end = asked.end

Agreed(p, asked) == \E w \in LiveWindows(p) : LiveWindows(p) = {w} /\ Agrees(w, asked)

(* A slot does, or has done, what a line of the file is to.                *)
OnCourse(s, i) ==
  LET t == task[s]
      p == Pair(upload.lines[i])
      asked == upload.lines[i].asked
  IN  /\ Pair(t) = p
      /\ t.at \in {"assign", "insert", "write", "done", "failed"}
      /\ t.at = "assign" => t.asked = asked
      /\ t.at \in {"insert", "write"} => Agrees(t.window, asked)
      /\ t.at = "insert" => RowsOf(p) = {}
      /\ t.at = "write" => RowsOf(p) # {}
      /\ t.at = "done" => Agreed(p, asked)

Serves(s, p) == task[s] # Idle /\ Pair(task[s]) = p

(* Nobody but the slots of the upload is at work, and each of its lines    *)
(* that count has one; pairs of its scope without one are not mapped.      *)
Undisturbed ==
  /\ \A s \in Slots : task[s] # Idle =>
       /\ task[s].kind = "upload"
       /\ \E i \in Passed(upload.lines) : OnCourse(s, i)
  /\ \A s, q \in Slots : task[s] # Idle /\ Serves(q, Pair(task[s])) => q = s
  /\ \A i \in Passed(upload.lines) : \E s \in Slots : Serves(s, Pair(upload.lines[i]))
  /\ \A u \in upload.scope, c \in Users :
       (\A s \in Slots : ~Serves(s, <<u, c>>)) => LiveOf(<<u, c>>) = {}

UploadInv ==
  /\ upload = NoFile => \A s \in Slots : ~OfUpload(s)
  /\ upload # NoFile /\ ~disturbed => Undisturbed

FullInv == IInv /\ UploadInv

(* A task that is not idle has a kind.                                     *)
LEMMA UploadSlot ==
  ASSUME Typed, NEW s \in Slots
  PROVE  /\ OfUpload(s) <=> task[s] # Idle /\ task[s].kind = "upload"
         /\ task[s].at \notin Over => task[s] # Idle
  BY TaskFields DEF Typed, OfUpload, Over, Idle

LEMMA Chosens ==
  ASSUME NEW t \in Tasks, NEW at, NEW past, NEW today
  PROVE  Agrees(Chosen(t, at, past, today).window, t.asked)
BY DEF Chosen, AccessDuration, Agrees

(* What a step leaves of the rows of a pair, as the upload sees them.      *)
SameFor(p) == RowsOf(p)' = RowsOf(p) /\ LiveOf(p)' = LiveOf(p) /\ LiveWindows(p)' = LiveWindows(p)

LEMMA OnCourseKept ==
  ASSUME NEW s \in Slots, NEW i, OnCourse(s, i), task'[s] = task[s], upload' = upload,
         SameFor(Pair(upload.lines[i]))
  PROVE  OnCourse(s, i)'
<1> DEFINE p == Pair(upload.lines[i])
           asked == upload.lines[i].asked
<1>1. Agreed(p, asked)' <=> Agreed(p, asked)
  BY DEF SameFor, Agreed, Agrees
<1>2. Pair(upload.lines[i])' = p /\ (upload.lines[i].asked)' = asked /\ Pair(task[s])' = Pair(task[s])
  BY DEF Pair
<1>3. Agrees(task[s].window, asked)' <=> Agrees(task[s].window, asked)
  BY DEF Agrees
<1>4. RowsOf(p)' = RowsOf(p)
  BY DEF SameFor
<1>5. QED
  BY <1>1, <1>2, <1>3, <1>4 DEF OnCourse

(* A slot of the upload goes on.                                           *)
LEMMA CourseKept ==
  ASSUME Typed, Undisturbed, NEW s \in Slots, task[s] # Idle, upload' = upload,
         \A q \in Slots : q # s => task'[q] = task[q],
         task'[s] # Idle, task'[s].kind = "upload", Pair(task'[s]) = Pair(task[s]),
         \A i \in Passed(upload.lines) : OnCourse(s, i) => OnCourse(s, i)',
         \A p : p # Pair(task[s]) => SameFor(p)
  PROVE  Undisturbed'
<1>1. ASSUME NEW q \in Slots PROVE (task'[q] # Idle <=> task[q] # Idle)
                                   /\ (task[q] # Idle => Pair(task'[q]) = Pair(task[q]))
  BY DEF Pair
<1>2. Passed(upload.lines)' = Passed(upload.lines)
  BY DEF Passed, Kept, Pair
<1>3. ASSUME NEW q \in Slots, task'[q] # Idle
      PROVE  /\ task'[q].kind = "upload"
             /\ \E i \in Passed(upload.lines)' : OnCourse(q, i)'
  <2>2. PICK i \in Passed(upload.lines) : OnCourse(q, i) /\ task[q].kind = "upload"
    BY <1>1, <1>3 DEF Undisturbed
  <2>3. CASE q = s
    BY <1>2, <2>2, <2>3
  <2>4. CASE q # s
    <3>1. ~Serves(q, Pair(task[s]))
      BY <2>4 DEF Undisturbed
    <3>2. Pair(upload.lines[i]) # Pair(task[s])
      BY <1>1, <1>3, <2>2, <3>1 DEF Serves, OnCourse
    <3>3. OnCourse(q, i)'
      BY <2>2, <2>4, <3>2, OnCourseKept
    <3>4. QED
      BY <1>2, <2>2, <2>4, <3>3
  <2>5. QED
    BY <2>3, <2>4
<1>4. ASSUME NEW q \in Slots, NEW r \in Slots, task'[q] # Idle, task'[r] # Idle,
             Pair(task'[r]) = Pair(task'[q])
      PROVE  r = q
  <2>1. task[q] # Idle /\ Serves(r, Pair(task[q]))
    BY <1>1, <1>4 DEF Serves
  <2>2. QED
    BY <2>1 DEF Undisturbed
<1>5. ASSUME NEW i \in Passed(upload.lines)'
      PROVE  \E q \in Slots : task'[q] # Idle /\ Pair(task'[q]) = Pair(upload'.lines[i])
  <2>1. i \in Passed(upload.lines) /\ Pair(upload'.lines[i]) = Pair(upload.lines[i])
    BY DEF Passed, Kept, Pair
  <2>2. PICK q \in Slots : Serves(q, Pair(upload.lines[i]))
    BY <2>1 DEF Undisturbed
  <2>3. QED
    BY <1>1, <2>1, <2>2 DEF Serves
<1>6. ASSUME NEW u \in upload'.scope, NEW c \in Users,
             \A q \in Slots : ~(task'[q] # Idle /\ Pair(task'[q]) = <<u, c>>)
      PROVE  LiveOf(<<u, c>>)' = {}
  <2>1. \A q \in Slots : ~Serves(q, <<u, c>>)
    BY <1>1, <1>6 DEF Serves
  <2>2. LiveOf(<<u, c>>) = {} /\ <<u, c>> # Pair(task[s])
    BY <2>1 DEF Undisturbed, Serves
  <2>3. QED
    BY <2>2 DEF SameFor
<1>7. QED
  BY <1>3, <1>4, <1>5, <1>6 DEF Undisturbed, Serves
(* Any other writer disturbs the upload.                                   *)
LEMMA OthersDisturb ==
  ASSUME UploadInv, upload' = upload, upload # NoFile => disturbed',
         \A s \in Slots : task'[s].at # "idle" /\ task'[s].kind = "upload" => OfUpload(s)
  PROVE  UploadInv'
BY DEF UploadInv, OfUpload

LEMMA OtherBecomes ==
  ASSUME FullInv, NEW s \in Slots, NEW t, ~OfUpload(s), Become(s, t),
         t = Idle \/ t.kind # "upload"
  PROVE  UploadInv'
<1>1. /\ \A q \in Slots : q # s => task'[q] = task[q]
      /\ task'[s] = t /\ upload' = upload
      /\ upload # NoFile => disturbed'
  BY DEF Become, Disturb, FullInv, IInv, Typed
<1>2. ASSUME NEW q \in Slots, task'[q].at # "idle", task'[q].kind = "upload"
      PROVE  OfUpload(q)
  <2>1. q # s
    BY <1>1, <1>2 DEF Idle
  <2>2. QED
    BY <1>1, <1>2, <2>1 DEF OfUpload
<1>3. QED
  BY <1>1, <1>2, OthersDisturb DEF FullInv

LEMMA OtherSettles ==
  ASSUME FullInv, NEW s \in Slots, NEW at, ~OfUpload(s), Settle(s, at)
  PROVE  UploadInv'
BY OtherBecomes DEF Settle

(* A slot of the upload turns to t.                                        *)
LEMMA SlotBecomes ==
  ASSUME FullInv, NEW s \in Slots, NEW t, OfUpload(s), Become(s, t),
         t # Idle, t.kind = "upload", Pair(t) = Pair(task[s]),
         \A i \in Passed(upload.lines) : ~disturbed /\ OnCourse(s, i) => OnCourse(s, i)',
         \A p : p # Pair(task[s]) => SameFor(p)
  PROVE  UploadInv'
<1>1. /\ \A q \in Slots : q # s => task'[q] = task[q]
      /\ task'[s] = t /\ upload' = upload /\ disturbed' = disturbed
  BY DEF Become, FullInv, IInv, Typed
<1>2. upload # NoFile
  BY DEF FullInv, UploadInv
<1>3. ASSUME ~disturbed PROVE Undisturbed'
  <2>1. Undisturbed /\ task[s] # Idle /\ Typed
    BY <1>2, <1>3, UploadSlot DEF FullInv, IInv, UploadInv
  <2>2. QED
    BY <1>1, <1>3, <2>1, CourseKept
<1>4. QED
  BY <1>1, <1>2, <1>3 DEF UploadInv

LEMMA SlotSettles ==
  ASSUME FullInv, NEW s \in Slots, OfUpload(s), NEW at \in {"done", "failed"}, Settle(s, at),
         \A i \in Passed(upload.lines) :
           ~disturbed /\ OnCourse(s, i) /\ at = "done" =>
             Agreed(Pair(upload.lines[i]), upload.lines[i].asked)',
         \A p : p # Pair(task[s]) => SameFor(p)
  PROVE  UploadInv'
<1> DEFINE t == [at |-> at, kind |-> "upload", user |-> task[s].user,
                 collaborator |-> task[s].collaborator]
<1>1. Become(s, t) /\ Pair(t) = Pair(task[s]) /\ t.at = at /\ t.kind = "upload" /\ t # Idle
  BY DEF Settle, Pair, Idle
<1> HIDE DEF t
<1>2. task'[s] = t /\ upload' = upload
  BY <1>1 DEF Become, FullInv, IInv, Typed
<1>3. ASSUME NEW i \in Passed(upload.lines), ~disturbed, OnCourse(s, i)
      PROVE  OnCourse(s, i)'
  <2>1. Pair(upload'.lines[i]) = Pair(upload.lines[i]) /\ upload'.lines[i].asked = upload.lines[i].asked
    BY <1>2
  <2>2. Pair(task'[s]) = Pair(upload.lines[i]) /\ task'[s].at \in {"done", "failed"}
    BY <1>1, <1>2, <1>3 DEF OnCourse
  <2>3. task'[s].at = "done" => Agreed(Pair(upload.lines[i]), upload.lines[i].asked)'
    BY <1>1, <1>2, <1>3
  <2>4. QED
    BY <2>1, <2>2, <2>3 DEF OnCourse
<1>4. QED
  BY <1>1, <1>3, SlotBecomes

(* The steps, one by one.                                                  *)
LEMMA SubmitUpload ==
  ASSUME FullInv, NEW s \in Slots, NEW kind \in {"add", "update", "remove"},
         NEW u \in Users, NEW c \in Users, NEW asked, Submit(s, kind, u, c, asked)
  PROVE  UploadInv'
<1>1. /\ \A q \in Slots : q # s => task'[q] = task[q]
      /\ task'[s].kind = kind /\ upload' = upload
      /\ upload # NoFile => disturbed'
  BY DEF Submit, Begin, Disturb, FullInv, IInv, Typed
<1>2. ASSUME NEW q \in Slots, task'[q].at # "idle", task'[q].kind = "upload"
      PROVE  OfUpload(q)
  <2>1. q # s
    BY <1>1, <1>2
  <2>2. QED
    BY <1>1, <1>2, <2>1 DEF OfUpload
<1>3. QED
  BY <1>1, <1>2, OthersDisturb DEF FullInv

LEMMA CheckMappingUpload ==
  ASSUME FullInv, NEW s \in Slots, CheckMapping(s)
  PROVE  UploadInv'
<1> DEFINE next == [task[s] EXCEPT !.at = IF task[s].kind = "remove" THEN "remove" ELSE "assign"]
<1>1. task[s] \in Tasks /\ task[s].at = "begin"
  BY DEF FullInv, IInv, Typed, CheckMapping
<1>2. task[s].kind # "upload"
  BY <1>1, TaskFields
<1>3. next.kind = task[s].kind
  BY <1>1 DEF Tasks, Idle
<1>4. Become(s, Idle) \/ Become(s, next)
  BY DEF CheckMapping
<1> HIDE DEF next
<1>5. QED
  BY <1>2, <1>3, <1>4, OtherBecomes DEF OfUpload

LEMMA RemoveMappingUpload ==
  ASSUME FullInv, NEW s \in Slots, RemoveMapping(s)
  PROVE  UploadInv'
<1>1. task[s] \in Tasks /\ task[s].at = "remove" /\ Settle(s, "done")
  BY DEF FullInv, IInv, Typed, RemoveMapping
<1>2. task[s].kind # "upload"
  BY <1>1 DEF Tasks, Idle
<1>3. QED
  BY <1>1, <1>2, OtherSettles DEF OfUpload

LEMMA SameTableFor ==
  ASSUME UNCHANGED <<rows, deleted>>
  PROVE  \A p : SameFor(p)
BY DEF SameFor, LiveWindows, LiveOf, RowsOf

LEMMA FindMappingUpload ==
  ASSUME FullInv, NEW s \in Slots, FindMapping(s)
  PROVE  UploadInv'
<1>1. PICK today \in Days, at \in {"insert", "write"}, past \in Seq(Window) :
        /\ Become(s, Chosen(task[s], at, past, today))
        /\ at = "insert" => RowsOf(Pair(task[s])) = {}
        /\ at = "write" => RowsOf(Pair(task[s])) # {}
  <2>1. \A i \in DOMAIN rows : rows[i].history \in Seq(Window)
    <3>1. rows \in Seq(Row)
      BY DEF FullInv, IInv, Typed
    <3>2. \A i \in DOMAIN rows : rows[i] \in Row
      BY <3>1
    <3>3. QED
      BY <3>2 DEF Row
  <2>2. <<>> \in Seq(Window) /\ RowsOf(Pair(task[s])) \subseteq DOMAIN rows
    BY DEF RowsOf
  <2>3. QED
    BY <2>1, <2>2 DEF FindMapping
<1> DEFINE t == Chosen(task[s], at, past, today)
<1>2. /\ task[s] \in Tasks /\ task[s].at = "assign" /\ UNCHANGED <<rows, deleted>>
      /\ Days \subseteq Int
  BY CollaboratorAssumption DEF FullInv, IInv, Typed, FindMapping
<1>3. t.at = at /\ t.kind = task[s].kind /\ Pair(t) = Pair(task[s]) /\ Agrees(t.window, task[s].asked)
  BY <1>2, ChosenTyped, Chosens
<1>4. t # Idle
  BY <1>3 DEF Idle
<1> HIDE DEF t
<1>5. CASE ~OfUpload(s)
  BY <1>1, <1>2, <1>3, <1>5, OtherBecomes, UploadSlot DEF t, FullInv, IInv, OfUpload
<1>6. CASE OfUpload(s)
  <2>1. task'[s] = t /\ upload' = upload /\ rows' = rows /\ deleted' = deleted
    BY <1>1, <1>2 DEF Become, FullInv, IInv, Typed, t
  <2>2. ASSUME NEW i \in Passed(upload.lines), OnCourse(s, i)
        PROVE  OnCourse(s, i)'
    <3>1. /\ Pair(task[s]) = Pair(upload.lines[i]) /\ task[s].asked = upload.lines[i].asked
      BY <1>2, <2>2 DEF OnCourse
    <3>2. RowsOf(Pair(upload.lines[i]))' = RowsOf(Pair(upload.lines[i]))
      BY <2>1 DEF RowsOf, Pair
    <3>3. Agrees(task'[s].window, upload'.lines[i].asked)
      BY <1>3, <2>1, <3>1
    <3>4. QED
      BY <1>1, <1>3, <2>1, <3>1, <3>2, <3>3 DEF OnCourse, Agrees
  <2>3. OfUpload(s) /\ t.kind = "upload" /\ Become(s, t)
    BY <1>1, <1>3, <1>6 DEF OfUpload, t
  <2>4. \A p : SameFor(p)
    BY <2>1, SameTableFor
  <2>5. QED
    BY <1>3, <1>4, <2>2, <2>3, <2>4, SlotBecomes
<1>7. QED
  BY <1>5, <1>6

LEMMA FailUpload ==
  ASSUME FullInv, NEW s \in Slots, Fail(s)
  PROVE  UploadInv'
<1>1. Settle(s, "failed") /\ \A p : SameFor(p)
  BY SameTableFor DEF Fail
<1>2. CASE ~OfUpload(s)
  BY <1>1, <1>2, OtherSettles
<1>3. CASE OfUpload(s)
  BY <1>1, <1>3, SlotSettles
<1>4. QED
  BY <1>2, <1>3
LEMMA InsertMappingUpload ==
  ASSUME FullInv, NEW s \in Slots, InsertMapping(s)
  PROVE  UploadInv'
<1> DEFINE n == Len(rows) + 1
<1>0. PICK p : p = Pair(task[s])
  OBVIOUS
<1>1. /\ Typed /\ HistoryEndsWithWindow /\ task[s].at = "insert"
      /\ Settle(s, "done") /\ deleted' = deleted
  BY DEF FullInv, IInv, InsertMapping
<1>2. /\ DOMAIN rows' = DOMAIN rows \cup {n} /\ n \notin DOMAIN rows /\ Pair(rows'[n]) = p
      /\ \A i \in DOMAIN rows : rows'[i] = rows[i]
  BY <1>0, <1>1, Inserted
<1>3. rows'[n].window = task[s].window
  BY <1>1 DEF InsertMapping, Typed
<1>4. deleted \subseteq DOMAIN rows
  BY <1>1 DEF Typed
<1> HIDE DEF n
<1>5. ASSUME NEW q, q # p PROVE SameFor(q)
  <2>1. RowsOf(q)' = RowsOf(q)
    BY <1>2, <1>5 DEF RowsOf, Pair
  <2>2. LiveOf(q)' = LiveOf(q)
    BY <1>1, <2>1 DEF LiveOf
  <2>3. \A i \in LiveOf(q) : rows'[i] = rows[i]
    BY <1>2 DEF LiveOf, RowsOf
  <2>4. LiveWindows(q)' = LiveWindows(q)
    BY <2>2, <2>3 DEF LiveWindows
  <2>5. QED
    BY <2>1, <2>2, <2>4 DEF SameFor
<1>6. CASE ~OfUpload(s)
  BY <1>1, <1>6, OtherSettles
<1>7. CASE OfUpload(s)
  <2>1. ASSUME NEW i \in Passed(upload.lines), OnCourse(s, i)
        PROVE  Agreed(Pair(upload.lines[i]), upload.lines[i].asked)'
    <3>1. /\ Pair(upload.lines[i]) = p /\ RowsOf(p) = {}
          /\ Agrees(task[s].window, upload.lines[i].asked)
      BY <1>0, <1>1, <2>1 DEF OnCourse
    <3>2. RowsOf(p)' = {n}
      BY <1>2, <3>1 DEF RowsOf, Pair
    <3>3. LiveOf(p)' = {n}
      BY <1>1, <1>2, <1>4, <3>2 DEF LiveOf
    <3>4. LiveWindows(p)' = {task[s].window}
      BY <1>3, <3>3 DEF LiveWindows
    <3>5. upload' = upload
      BY <1>1 DEF Settle, Become
    <3>6. QED
      BY <3>1, <3>4, <3>5 DEF Agreed, Agrees, Pair
  <2>2. QED
    BY <1>0, <1>1, <1>5, <1>7, <2>1, SlotSettles
<1>8. QED
  BY <1>6, <1>7

LEMMA WriteMappingUpload ==
  ASSUME FullInv, NEW s \in Slots, WriteMapping(s)
  PROVE  UploadInv'
<1>0. PICK p : p = Pair(task[s])
  OBVIOUS
<1>1. /\ Typed /\ HistoryEndsWithWindow /\ task[s].at = "write"
      /\ Settle(s, "done") /\ deleted' = deleted \ RowsOf(p)
  BY <1>0 DEF FullInv, IInv, WriteMapping
<1>2. /\ DOMAIN rows' = DOMAIN rows /\ \A i \in DOMAIN rows : Pair(rows'[i]) = Pair(rows[i])
      /\ \A i \in DOMAIN rows \ RowsOf(p) : rows'[i] = rows[i]
  BY <1>0, <1>1, Writing DEF SameRows
<1>3. \A i \in RowsOf(p) : rows'[i].window = task[s].window
  <2>1. ASSUME NEW i \in RowsOf(p) PROVE rows[i] \in Row
    BY <1>1 DEF Typed, RowsOf
  <2>2. QED
    BY <1>0, <2>1 DEF WriteMapping, RowsOf, Row
<1>4. \A q : RowsOf(q)' = RowsOf(q)
  BY <1>2 DEF RowsOf, Pair
<1>5. ASSUME NEW q, q # p PROVE SameFor(q)
  <2>1. RowsOf(q) \cap RowsOf(p) = {} /\ RowsOf(q) \subseteq DOMAIN rows
    BY <1>5 DEF RowsOf
  <2>2. LiveOf(q)' = LiveOf(q)
    BY <1>1, <1>4, <2>1 DEF LiveOf
  <2>3. \A i \in LiveOf(q) : rows'[i] = rows[i]
    BY <1>2, <2>1 DEF LiveOf
  <2>4. LiveWindows(q)' = LiveWindows(q)
    BY <2>2, <2>3 DEF LiveWindows
  <2>5. QED
    BY <1>4, <2>2, <2>4 DEF SameFor
<1>6. CASE ~OfUpload(s)
  BY <1>1, <1>6, OtherSettles
<1>7. CASE OfUpload(s)
  <2>1. ASSUME NEW i \in Passed(upload.lines), OnCourse(s, i)
        PROVE  Agreed(Pair(upload.lines[i]), upload.lines[i].asked)'
    <3>1. /\ Pair(upload.lines[i]) = p /\ RowsOf(p) # {}
          /\ Agrees(task[s].window, upload.lines[i].asked)
      BY <1>0, <1>1, <2>1 DEF OnCourse
    <3>2. LiveOf(p)' = RowsOf(p)
      BY <1>1, <1>4 DEF LiveOf
    <3>3. LiveWindows(p)' = {task[s].window}
      BY <1>3, <3>1, <3>2 DEF LiveWindows
    <3>4. upload' = upload
      BY <1>1 DEF Settle, Become
    <3>5. QED
      BY <3>1, <3>3, <3>4 DEF Agreed, Agrees, Pair
  <2>2. QED
    BY <1>0, <1>1, <1>5, <1>7, <2>1, SlotSettles
<1>8. QED
  BY <1>6, <1>7

LEMMA RemoveAllUpload ==
  ASSUME FullInv, NEW u \in Users, RemoveAll(u)
  PROVE  UploadInv'
<1>1. upload' = upload /\ task' = task
  BY DEF RemoveAll
<1>2. upload # NoFile => disturbed'
  BY DEF RemoveAll, Disturb
<1>3. QED
  BY <1>1, <1>2, OthersDisturb DEF FullInv, OfUpload

(* The lines that count are of different pairs.                            *)
LEMMA PassedLines ==
  ASSUME NEW lines \in Seq(Line)
  PROVE  /\ Passed(lines) \subseteq DOMAIN lines /\ DOMAIN lines \subseteq Nat
         /\ \A i, j \in Passed(lines) : Pair(lines[i]) = Pair(lines[j]) => i = j
<1>1. Passed(lines) \subseteq DOMAIN lines
  BY DEF Passed, Kept
<1>2. DOMAIN lines \subseteq Nat
  OBVIOUS
<1>3. \A i, j \in Passed(lines) : i < j => Pair(lines[i]) # Pair(lines[j])
  BY <1>1 DEF Passed, Kept
<1>4. ASSUME NEW i \in Passed(lines), NEW j \in Passed(lines), Pair(lines[i]) = Pair(lines[j])
      PROVE  i = j
  <2>1. ~(i < j) /\ ~(j < i)
    BY <1>3, <1>4
  <2>2. i \in Nat /\ j \in Nat
    BY <1>1, <1>2
  <2>3. QED
    BY <2>1, <2>2
<1>5. QED
  BY <1>1, <1>2, <1>4

(* The lines of a file that nobody is in the way of.                       *)
LEMMA UploadUpload ==
  ASSUME FullInv, NEW file \in Files, Upload(file)
  PROVE  UploadInv'
<1> DEFINE lines == file.lines
           passed == Passed(lines)
<1>1. /\ Typed /\ upload = NoFile /\ upload' = file /\ file # NoFile /\ rows' = rows
      /\ deleted' = deleted \cup Wiped(file.scope)
      /\ disturbed' = \E s \in Slots : Busy(s)
  BY DEF FullInv, IInv, Upload
<1>2. SUFFICES ASSUME \A s \in Slots : ~Busy(s) PROVE Undisturbed'
  BY <1>1 DEF UploadInv
<1>3. ASSUME NEW s \in Slots PROVE task[s] = Idle
  <2>1. task[s] \in Tasks /\ ~OfUpload(s) /\ task[s].at \in Over
    BY <1>1, <1>2 DEF Typed, FullInv, UploadInv, Busy, Over
  <2>2. QED
    BY <2>1 DEF Tasks, OfUpload, Over, Idle
<1>4. PICK serve \in Injection(passed, { s \in Slots : task[s] = Idle }) :
        task' = [s \in Slots |->
                   IF \E i \in DOMAIN serve : serve[i] = s
                   THEN LineTask(lines[CHOOSE i \in DOMAIN serve : serve[i] = s])
                   ELSE task[s]]
  BY DEF Upload
<1>5. lines \in Seq(Line)
  BY CollaboratorAssumption
<1>6. /\ passed \subseteq DOMAIN lines
      /\ \A i, j \in passed : Pair(lines[i]) = Pair(lines[j]) => i = j
  BY <1>5, PassedLines
<1>7. /\ DOMAIN serve = passed /\ \A i \in passed : serve[i] \in Slots
      /\ \A i, j \in passed : serve[i] = serve[j] => i = j
  BY <1>4 DEF Injection, IsInjective
<1> HIDE DEF passed, lines
<1>8. ASSUME NEW i \in passed
      PROVE  /\ LineTask(lines[i]) # Idle /\ LineTask(lines[i]).at = "assign"
             /\ LineTask(lines[i]).kind = "upload" /\ LineTask(lines[i]).asked = lines[i].asked
             /\ Pair(LineTask(lines[i])) = Pair(lines[i])
  BY DEF LineTask, Pair, Idle
<1>9. ASSUME NEW i \in passed PROVE task'[serve[i]] = LineTask(lines[i])
  <2> DEFINE k == CHOOSE k \in DOMAIN serve : serve[k] = serve[i]
  <2>1. k \in passed /\ serve[k] = serve[i]
    BY <1>7
  <2>2. k = i
    BY <1>7, <2>1
  <2>3. task'[serve[i]] = LineTask(lines[k])
    BY <1>4, <1>7
  <2>4. QED
    BY <2>2, <2>3
<1>10. ASSUME NEW s \in Slots, task'[s] # Idle
       PROVE  \E i \in passed : serve[i] = s
  BY <1>3, <1>4, <1>7, <1>10
<1>11. passed = Passed(upload'.lines) /\ lines = upload'.lines
  BY <1>1 DEF passed, lines
<1>12. ASSUME NEW s \in Slots, task'[s] # Idle
       PROVE  /\ task'[s].kind = "upload"
              /\ \E i \in Passed(upload.lines)' : OnCourse(s, i)'
  <2>1. PICK i \in passed : task'[s] = LineTask(lines[i])
    BY <1>9, <1>10, <1>12
  <2>2. OnCourse(s, i)'
    BY <1>8, <1>11, <2>1 DEF OnCourse
  <2>3. Passed(upload.lines)' = passed
    BY <1>11 DEF Passed, Kept, Pair
  <2>4. QED
    BY <1>8, <2>1, <2>2, <2>3
<1>13. ASSUME NEW s \in Slots, NEW q \in Slots, task'[s] # Idle, task'[q] # Idle,
              Pair(task'[q]) = Pair(task'[s])
       PROVE  q = s
  <2>1. PICK i \in passed : serve[i] = s
    BY <1>10, <1>13
  <2>2. PICK j \in passed : serve[j] = q
    BY <1>10, <1>13
  <2>3. Pair(lines[i]) = Pair(lines[j])
    BY <1>8, <1>9, <1>13, <2>1, <2>2
  <2>4. QED
    BY <1>6, <2>1, <2>2, <2>3
<1>14. ASSUME NEW i \in passed
       PROVE  \E s \in Slots : task'[s] # Idle /\ Pair(task'[s]) = Pair(lines[i])
  BY <1>7, <1>8, <1>9
<1>15. ASSUME NEW u \in file.scope, NEW c \in Users PROVE LiveOf(<<u, c>>)' = {}
  <2>1. \A i \in RowsOf(<<u, c>>)' : i \in DOMAIN rows /\ rows[i].user = u
    BY <1>1 DEF RowsOf, Pair
  <2>2. QED
    BY <1>1, <2>1 DEF LiveOf, Wiped
<1>16. QED
  <2>1. Passed(upload.lines)' = passed
    BY <1>11 DEF Passed, Kept, Pair
  <2>2. \A i \in Passed(upload.lines)' : \E s \in Slots : Serves(s, Pair(upload.lines[i]))'
    BY <1>11, <1>14, <2>1 DEF Serves, Pair
  <2>3. QED
    BY <1>1, <1>12, <1>13, <1>15, <2>2 DEF Undisturbed, Serves

LEMMA UploadAnswerUpload ==
  ASSUME FullInv, UploadAnswer
  PROVE  UploadInv'
<1>1. upload' = NoFile /\ \A s \in Slots : task'[s] = IF OfUpload(s) THEN Idle ELSE task[s]
  BY DEF UploadAnswer
<1>2. ASSUME NEW s \in Slots PROVE ~(task'[s].at # "idle" /\ task'[s].kind = "upload")
  BY <1>1 DEF OfUpload, Idle
<1>3. QED
  BY <1>1, <1>2 DEF UploadInv, OfUpload

LEMMA UploadNext == FullInv /\ [Next]_vars => UploadInv'
<1> SUFFICES ASSUME FullInv, [Next]_vars PROVE UploadInv'
  OBVIOUS
<1>1. ASSUME NEW s \in Slots, NEW u \in Users, NEW c \in Users, NEW asked,
             NEW kind \in {"add", "update", "remove"}, Submit(s, kind, u, c, asked)
      PROVE  UploadInv'
  BY <1>1, SubmitUpload
<1>2. ASSUME NEW s \in Slots, Continue(s) PROVE UploadInv'
  BY <1>2, CheckMappingUpload, FindMappingUpload, InsertMappingUpload, WriteMappingUpload,
     RemoveMappingUpload DEF Continue
<1>3. ASSUME NEW s \in Slots, Fail(s) PROVE UploadInv'
  BY <1>3, FailUpload
<1>4. ASSUME NEW u \in Users, RemoveAll(u) PROVE UploadInv'
  BY <1>4, RemoveAllUpload
<1>5. ASSUME NEW file \in Files, Upload(file) PROVE UploadInv'
  BY <1>5, UploadUpload
<1>6. CASE UploadAnswer
  BY <1>6, UploadAnswerUpload
<1>7. CASE UNCHANGED vars
  <2>1. /\ upload' = upload /\ disturbed' = disturbed
        /\ \A s \in Slots : task'[s] = task[s]
    BY <1>7 DEF vars
  <2>2. \A p : SameFor(p)
    BY <1>7, SameTableFor DEF vars
  <2>3. ASSUME Undisturbed PROVE Undisturbed'
    <3>1. \A s \in Slots, i \in Passed(upload.lines) : OnCourse(s, i) => OnCourse(s, i)'
      BY <2>1, <2>2, OnCourseKept
    <3>2. Passed(upload.lines)' = Passed(upload.lines)
      BY <2>1 DEF Passed, Kept, Pair
    <3>3. \A i : Pair(upload.lines[i])' = Pair(upload.lines[i])
      BY <2>1 DEF Pair
    <3>4. \A s \in Slots : Pair(task[s])' = Pair(task[s])
      BY <2>1 DEF Pair
    <3>5. QED
      BY <2>1, <2>2, <2>3, <3>1, <3>2, <3>3, <3>4 DEF Undisturbed, Serves, SameFor
  <2>4. QED
    BY <2>1, <2>3 DEF FullInv, UploadInv, OfUpload
<1>8. QED
  BY <1>1, <1>2, <1>3, <1>4, <1>5, <1>6, <1>7 DEF Next

LEMMA FullInvariant == Spec => []FullInv
<1>1. Init => FullInv
  BY InvInit DEF Init, FullInv, UploadInv, OfUpload, Idle
<1>2. FullInv /\ [Next]_vars => FullInv'
  BY InvNext, UploadNext DEF FullInv
<1>3. QED
  BY <1>1, <1>2, PTL DEF Spec

(* Of the lines of a pair there is a last one.                             *)
LEMMA LastLineExists ==
  ASSUME NEW n \in Nat, NEW S \in SUBSET (1 .. n), S # {}
  PROVE  \E i \in S : \A k \in S : k <= i
<1> DEFINE T == { n - i : i \in S }
<1>1. T \in SUBSET Nat /\ T # {}
  <2>1. \A i \in S : n - i \in Nat
    OBVIOUS
  <2>2. PICK i \in S : TRUE
    OBVIOUS
  <2>3. n - i \in T
    OBVIOUS
  <2>4. QED
    BY <2>1, <2>3
<1>2. PICK m \in T : \A k \in T : ~ (<<k, m>> \in OpToRel(<, Nat))
  <2> HIDE DEF T
  <2>1. QED
    BY <1>1, NatLessThanWellFounded, WFMin
<1>3. \A k \in T : ~ (k < m)
  BY <1>1, <1>2 DEF OpToRel
<1>4. PICK i \in S : m = n - i
  OBVIOUS
<1>5. ASSUME NEW k \in S PROVE k <= i
  <2>1. ~ (n - k < n - i)
    BY <1>3, <1>4
  <2>2. QED
    BY <2>1
<1>6. QED
  BY <1>5

LEMMA UploadEndsAsTheFile == FullInv => UploadIsTheFile
<1> SUFFICES ASSUME FullInv, UploadSettled, ~disturbed, NEW u \in upload.scope, NEW c \in Users,
                    \A s \in Slots : ~(OfUpload(s) /\ Pair(task[s]) = <<u, c>> /\ task[s].at = "failed")
             PROVE  AsTheFileSays(<<u, c>>)
  BY DEF UploadIsTheFile
<1> DEFINE lines == upload.lines
           p == <<u, c>>
<1>1. Typed /\ Undisturbed /\ upload \in Files
  BY DEF FullInv, IInv, UploadInv, UploadSettled, Typed
<1>2. lines \in Seq(Line)
  BY <1>1, CollaboratorAssumption
<1>3. /\ Passed(lines) \subseteq DOMAIN lines
      /\ \A i, j \in Passed(lines) : Pair(lines[i]) = Pair(lines[j]) => i = j
  BY <1>2, PassedLines
<1> DEFINE last == CHOOSE i \in LinesOf(p) : \A k \in LinesOf(p) : k <= i
<1>4. CASE LinesOf(p) = {} \/ p[1] = p[2] \/ ~lines[last].valid
  <2>1. \A s \in Slots : ~Serves(s, p)
    <3>1. SUFFICES ASSUME NEW s \in Slots, Serves(s, p) PROVE FALSE
      OBVIOUS
    <3>2. PICK i \in Passed(lines) : Pair(lines[i]) = p
      BY <1>1, <3>1 DEF Undisturbed, OnCourse, Serves
    <3>3. /\ i \in LinesOf(p) /\ i \in Kept(lines) /\ lines[i].valid
          /\ lines[i].user # lines[i].collaborator
      BY <1>3, <3>2 DEF LinesOf, Passed
    <3>4. \A k \in LinesOf(p) : k <= i
      <4>1. \A k \in DOMAIN lines : k > i => Pair(lines[k]) # p
        BY <3>2, <3>3 DEF Kept
      <4>2. LinesOf(p) \subseteq DOMAIN lines /\ DOMAIN lines \subseteq Nat
        BY <1>2 DEF LinesOf
      <4>3. QED
        BY <3>3, <4>1, <4>2 DEF LinesOf
    <3>5. last = i
      <4>1. last \in LinesOf(p) /\ \A k \in LinesOf(p) : k <= last
        BY <3>3, <3>4
      <4>2. LinesOf(p) \subseteq Nat
        BY <1>2 DEF LinesOf
      <4> HIDE DEF last
      <4>3. QED
        BY <3>3, <3>4, <4>1, <4>2
    <3>6. p[1] # p[2]
      BY <3>2, <3>3 DEF Pair
    <3>7. QED
      BY <1>4, <3>3, <3>5, <3>6
  <2>2. LiveOf(p) = {}
    BY <1>1, <2>1 DEF Undisturbed
  <2>3. QED
    BY <1>4, <2>2 DEF AsTheFileSays
<1>5. CASE LinesOf(p) # {} /\ p[1] # p[2] /\ lines[last].valid
  <2>1. last \in LinesOf(p) /\ \A k \in LinesOf(p) : k <= last
    <3>1. LinesOf(p) \in SUBSET (1 .. Len(lines)) /\ Len(lines) \in Nat
      BY <1>2 DEF LinesOf
    <3>2. \E i \in LinesOf(p) : \A k \in LinesOf(p) : k <= i
      BY <1>5, <3>1, LastLineExists
    <3>3. QED
      BY <3>2
  <2> HIDE DEF last
  <2>2. last \in Passed(lines) /\ Pair(lines[last]) = p
    <3>1. last \in DOMAIN lines /\ Pair(lines[last]) = p /\ DOMAIN lines \subseteq Nat
      BY <1>2, <2>1 DEF LinesOf
    <3>2. \A k \in DOMAIN lines : k > last => Pair(lines[k]) # p
      BY <2>1, <3>1 DEF LinesOf
    <3>3. lines[last].user # lines[last].collaborator
      BY <1>5, <3>1 DEF Pair
    <3>4. QED
      BY <1>5, <3>1, <3>2, <3>3 DEF Passed, Kept
  <2>3. PICK s \in Slots : Serves(s, p)
    BY <1>1, <2>2 DEF Undisturbed
  <2>4. PICK i \in Passed(lines) : OnCourse(s, i) /\ task[s].kind = "upload"
    BY <1>1, <2>3 DEF Undisturbed, Serves
  <2>5. i = last
    BY <1>3, <2>2, <2>3, <2>4 DEF Serves, OnCourse
  <2>6. task[s].at = "done"
    <3>1. OfUpload(s) /\ ~Busy(s)
      BY <1>1, <2>3, <2>4, UploadSlot DEF Serves, UploadSettled
    <3>2. task[s].at \in {"assign", "insert", "write", "done", "failed"} /\ task[s].at # "failed"
      BY <2>3, <2>4, <3>1 DEF OnCourse, Serves
    <3>3. QED
      BY <3>1, <3>2 DEF Busy
  <2>7. Agreed(p, lines[last].asked)
    BY <2>2, <2>4, <2>5, <2>6 DEF OnCourse
  <2>8. QED
    BY <1>5, <2>7 DEF AsTheFileSays, Agreed, Agrees, last
<1>6. QED
  BY <1>4, <1>5

(* Whatever files, slots and requests before and after it, an upload that  *)
(* met no other writer leaves the mappings that its file says, but for the *)
(* pairs whose line failed.                                                *)
THEOREM UploadLeavesTheFile == Spec => []UploadIsTheFile
BY FullInvariant, UploadEndsAsTheFile, PTL
=============================================================================
