------------------------ MODULE SupervisorMappingProofs ------------------------
(***************************************************************************)
(* Proofs about SupervisorMapping for every set of users, every number of  *)
(* concurrent requests and every bound on the table.                       *)
(*                                                                         *)
(* OrphanFree and NoDuplicates are not inductive: a request acts on what   *)
(* it read some steps ago.  Serial says what that is still worth when the  *)
(* request's supervisor is no suspect, and Exclusive that such a request   *)
(* conflicts with no other one in service.                                 *)
(*                                                                         *)
(* The second part is about UserUpload, for any number of uploads beside   *)
(* the requests.  MappingInv is of no use there, an upload takes the       *)
(* supervisors away: Typed holds whatever meets, and Course says how far   *)
(* an upload that nobody disturbs has brought back what its file says.     *)
(***************************************************************************)
EXTENDS UserUpload, SequenceTheorems, TLAPS

Pair(u, s) == [user |-> u, supervisor |-> s]

(* The pair has no row, deleted or not.                                    *)
NoRowFor(u, s) == \A i \in DOMAIN rows : rows[i] # Pair(u, s)

(* Requests point at rows of the supervisor they are about.                *)
RowsKnown ==
  \A r \in Requests :
    req[r].at \in {"undelete", "remove"} =>
      /\ req[r].row \in DOMAIN rows
      /\ rows[req[r].row].supervisor = req[r].supervisor

(* Conflicting requests have made their supervisor a suspect.              *)
Exclusive ==
  \A q, r \in Requests :
    q # r /\ Busy(q) /\ Busy(r) /\ Conflict(req[q], req[r])
      => req[q].supervisor \in suspects

(* What a request about an unsuspected supervisor has read still holds.    *)
Serial ==
  \A r \in Requests :
    Busy(r) /\ req[r].supervisor \notin suspects =>
      /\ Assigns(req[r]) => req[r].supervisor \in supervisors
      /\ req[r].at = "update" =>
           (req[r].was = "SUPERVISOR" <=> req[r].supervisor \in supervisors)
      /\ req[r].at = "insert" => NoRowFor(req[r].user, req[r].supervisor)

MappingInv ==
  /\ MappingTypeOK
  /\ RowsKnown
  /\ Exclusive
  /\ Serial
  /\ OrphanFree
  /\ NoDuplicates

(* The fields of a task, by the place its request is at.                   *)
LEMMA TaskFields ==
  ASSUME NEW t \in {Idle} \cup Tasks
  PROVE  /\ t.at \in {"idle", "checked", "insert", "undelete", "remove", "update", "unmap"}
         /\ t.at # "idle" => t \in Tasks /\ t.supervisor \in Users
         /\ t.at \in {"checked", "insert"} => t.user \in Users
         /\ t.at \in {"undelete", "remove"} => t.row \in Nat
         /\ t.at = "update" => t.role \in Roles /\ t.was \in {"USER", "SUPERVISOR"}
         /\ t.at = "unmap" => t = [at |-> "unmap", supervisor |-> t.supervisor]
  BY DEF Idle, Tasks

(* What a change of the table may not disturb: the rows are only appended  *)
(* to, so what was a row stays that row.                                   *)
LEMMA AppendKeepsRows ==
  ASSUME NEW S, NEW s \in Seq(S), NEW x \in S
  PROVE  /\ Append(s, x) \in Seq(S)
         /\ DOMAIN Append(s, x) = DOMAIN s \cup {Len(s) + 1}
         /\ Len(s) + 1 \notin DOMAIN s
         /\ \A i \in DOMAIN s : Append(s, x)[i] = s[i]
         /\ Append(s, x)[Len(s) + 1] = x
  BY AppendProperties, LenProperties

LEMMA InitEstablishes == MappingInit => MappingInv
  <1> SUFFICES ASSUME MappingInit PROVE MappingInv
    OBVIOUS
  <1>1. DOMAIN rows = {}
    BY DEF MappingInit
  <1>2. rows \in Seq(Row)
    BY EmptySeq DEF MappingInit
  <1>3. MappingTypeOK
    BY <1>1, <1>2 DEF MappingInit, MappingTypeOK, Idle
  <1>4. \A r \in Requests : req[r].at = "idle"
    BY DEF MappingInit, Idle
  <1> QED
    BY <1>1, <1>3, <1>4
       DEF MappingInv, RowsKnown, Exclusive, Serial, OrphanFree, NoDuplicates, Adds, Busy, Live

(* The request that takes a step changes, the others do not.               *)
LEMMA OnlyOneRequest ==
  ASSUME NEW r \in Requests, NEW t \in {Idle} \cup Tasks,
         req \in [Requests -> {Idle} \cup Tasks],
         req' = [req EXCEPT ![r] = t]
  PROVE  /\ req' \in [Requests -> {Idle} \cup Tasks]
         /\ req'[r] = t
         /\ \A q \in Requests \ {r} : req'[q] = req[q]
  OBVIOUS

(* A conflict does not depend on who came first.                           *)
LEMMA ConflictIsSymmetric ==
  ASSUME NEW t, NEW v, Conflict(t, v)
  PROVE  Conflict(v, t)
  BY DEF Conflict, Assigns, Updates, Adds

(* A request that begins with what it has just read keeps the invariant:   *)
(* its conflicts make its supervisor a suspect in the same step.           *)
LEMMA BeginKeeps ==
  ASSUME MappingInv,
         NEW r \in Requests, NEW t \in Tasks,
         Begin(r, t), UNCHANGED <<supervisors, rows, deleted>>,
         t.at \in {"checked", "remove", "update"},
         t.at = "checked" => t.supervisor \in supervisors,
         t.at = "remove" => t.row \in DOMAIN rows /\ rows[t.row].supervisor = t.supervisor,
         t.at = "update" => (t.was = "SUPERVISOR" <=> t.supervisor \in supervisors)
  PROVE  MappingInv'
  <1>1. t.supervisor \in Users
    BY TaskFields
  <1>2. /\ suspects \subseteq suspects'
        /\ suspects' \subseteq suspects \cup {t.supervisor}
    BY DEF Begin
  <1>3. /\ req' \in [Requests -> {Idle} \cup Tasks]
        /\ req'[r] = t
        /\ \A q \in Requests \ {r} : req'[q] = req[q]
    BY OnlyOneRequest DEF Begin, MappingInv, MappingTypeOK
  <1>4. MappingTypeOK'
    BY <1>1, <1>2, <1>3 DEF MappingInv, MappingTypeOK
  <1>5. RowsKnown'
    BY <1>3 DEF MappingInv, RowsKnown
  <1>6. Exclusive'
    <2> SUFFICES ASSUME NEW p \in Requests, NEW q \in Requests,
                        p # q, Busy(p)', Busy(q)', Conflict(req'[p], req'[q])
                 PROVE  req'[p].supervisor \in suspects'
      BY DEF Exclusive
    <2>1. CASE p = r
      <3>1. Busy(q) /\ Conflict(t, req[q])
        BY <1>3, <2>1 DEF Busy
      <3> QED
        BY <1>3, <2>1, <3>1 DEF Begin
    <2>2. CASE q = r
      <3>1. Busy(p) /\ Conflict(t, req[p])
        BY <1>3, <2>2, ConflictIsSymmetric DEF Busy
      <3>2. req[p].supervisor = t.supervisor
        BY <3>1 DEF Conflict
      <3> QED
        BY <1>3, <2>2, <3>1, <3>2 DEF Begin
    <2>3. CASE p # r /\ q # r
      BY <1>2, <1>3, <2>3 DEF MappingInv, Exclusive, Busy
    <2> QED
      BY <2>1, <2>2, <2>3
  <1>7. Serial'
    <2> SUFFICES ASSUME NEW q \in Requests, Busy(q)', req'[q].supervisor \notin suspects'
                 PROVE  /\ Assigns(req'[q]) => req'[q].supervisor \in supervisors
                        /\ req'[q].at = "update" =>
                             (req'[q].was = "SUPERVISOR" <=> req'[q].supervisor \in supervisors)
                        /\ req'[q].at = "insert" =>
                             NoRowFor(req'[q].user, req'[q].supervisor)
      BY DEF Serial, NoRowFor
    <2>1. CASE q = r
      BY <1>3, <2>1 DEF Assigns
    <2>2. CASE q # r
      BY <1>2, <1>3, <2>2 DEF MappingInv, Serial, Busy
    <2> QED
      BY <2>1, <2>2
  <1>8. OrphanFree'
    <2> SUFFICES ASSUME NEW i \in Live
                 PROVE  \/ rows[i].supervisor \in supervisors
                        \/ rows[i].supervisor \in suspects'
                        \/ \E q \in Requests :
                             req'[q] = [at |-> "unmap", supervisor |-> rows[i].supervisor]
      BY DEF OrphanFree, Live
    <2>1. CASE \E q \in Requests :
                 req[q] = [at |-> "unmap", supervisor |-> rows[i].supervisor]
      <3> PICK q \in Requests :
                 req[q] = [at |-> "unmap", supervisor |-> rows[i].supervisor]
        BY <2>1
      <3>1. q # r
        BY DEF Begin, Busy
      <3> QED
        BY <1>3, <3>1
    <2> QED
      BY <1>2, <2>1 DEF MappingInv, OrphanFree
  <1>9. NoDuplicates'
    BY <1>2 DEF MappingInv, NoDuplicates
  <1> QED
    BY <1>4, <1>5, <1>6, <1>7, <1>8, <1>9 DEF MappingInv

(* A request that goes on conflicts with nothing it did not conflict with. *)
LEMMA ExclusiveKept ==
  ASSUME MappingInv,
         NEW r \in Requests, NEW t \in {Idle} \cup Tasks,
         Busy(r), req' = [req EXCEPT ![r] = t], suspects \subseteq suspects',
         t.at # "idle" =>
           /\ t.supervisor = req[r].supervisor
           /\ Assigns(t) => Assigns(req[r])
           /\ Updates(t) => Updates(req[r])
           /\ Adds(t) => Adds(req[r]) /\ t.user = req[r].user
  PROVE  Exclusive'
  <1>1. /\ req'[r] = t
        /\ \A q \in Requests \ {r} : req'[q] = req[q]
    BY OnlyOneRequest DEF MappingInv, MappingTypeOK
  <1> SUFFICES ASSUME NEW p \in Requests, NEW q \in Requests,
                      p # q, Busy(p)', Busy(q)', Conflict(req'[p], req'[q])
               PROVE  req'[p].supervisor \in suspects'
    BY DEF Exclusive
  <1>2. CASE p = r
    <2>1. Busy(q) /\ req'[q] = req[q] /\ t.at # "idle"
      BY <1>1, <1>2 DEF Busy
    <2>2. Conflict(req[r], req[q])
      BY <1>1, <1>2, <2>1 DEF Conflict
    <2> QED
      BY <1>1, <1>2, <2>1, <2>2 DEF MappingInv, Exclusive
  <1>3. CASE q = r
    <2>1. Busy(p) /\ req'[p] = req[p] /\ t.at # "idle"
      BY <1>1, <1>3 DEF Busy
    <2>2. Conflict(req[p], req[r])
      BY <1>1, <1>3, <2>1 DEF Conflict
    <2> QED
      BY <1>1, <1>3, <2>1, <2>2 DEF MappingInv, Exclusive
  <1>4. CASE p # r /\ q # r
    BY <1>1, <1>4 DEF MappingInv, Exclusive, Busy
  <1> QED
    BY <1>2, <1>3, <1>4

LEMMA AssignFindKeeps ==
  ASSUME MappingInv, NEW r \in Requests, AssignFind(r)
  PROVE  MappingInv'
  <1> DEFINE u == req[r].user
             s == req[r].supervisor
  <1>1. /\ Busy(r) /\ u \in Users /\ s \in Users
        /\ Adds(req[r]) /\ Assigns(req[r])
    BY TaskFields DEF MappingInv, MappingTypeOK, AssignFind, Adds, Assigns, Busy
  <1>2. UNCHANGED <<supervisors, rows, deleted, suspects>>
    BY DEF AssignFind, Become
  <1>3. PICK t : /\ req' = [req EXCEPT ![r] = t]
                 /\ \/ /\ t = [at |-> "insert", user |-> u, supervisor |-> s]
                       /\ RowsOf(u, s) = {}
                    \/ \E i \in RowsOf(u, s) :
                         t \in {Idle, [at |-> "undelete", supervisor |-> s, row |-> i]}
    BY DEF AssignFind, Become
  <1> DEFINE Follows == /\ t \in {Idle} \cup Tasks
                        /\ t.at \in {"idle", "insert", "undelete"}
                        /\ t.at # "idle" => t.supervisor = s
                        /\ t.at = "insert" => t.user = u /\ NoRowFor(u, s)
                        /\ t.at = "undelete" => /\ t.row \in DOMAIN rows
                                                /\ rows[t.row].supervisor = s
  <1>4. Follows
    <2>1. CASE /\ t = [at |-> "insert", user |-> u, supervisor |-> s]
               /\ RowsOf(u, s) = {}
      BY <1>1, <2>1 DEF Tasks, RowsOf, NoRowFor, Pair
    <2>2. ASSUME NEW i \in RowsOf(u, s),
                 t \in {Idle, [at |-> "undelete", supervisor |-> s, row |-> i]}
          PROVE  Follows
      BY <1>1, <2>2 DEF Tasks, Idle, RowsOf, MappingInv, MappingTypeOK
    <2> QED
      BY <1>3, <2>1, <2>2
  <1>5. /\ req' \in [Requests -> {Idle} \cup Tasks]
        /\ req'[r] = t
        /\ \A q \in Requests \ {r} : req'[q] = req[q]
    BY <1>3, <1>4, OnlyOneRequest DEF MappingInv, MappingTypeOK
  <1>6. MappingTypeOK'
    BY <1>2, <1>5 DEF MappingInv, MappingTypeOK
  <1>7. RowsKnown'
    BY <1>2, <1>4, <1>5 DEF MappingInv, RowsKnown
  <1>8. Exclusive'
    BY <1>1, <1>2, <1>3, <1>4, ExclusiveKept DEF Assigns, Updates, Adds
  <1>9. Serial'
    BY <1>1, <1>2, <1>4, <1>5 DEF MappingInv, Serial, Busy, Assigns, NoRowFor
  <1>10. OrphanFree'
    BY <1>1, <1>2, <1>5 DEF MappingInv, OrphanFree, Live, Adds
  <1>11. NoDuplicates'
    BY <1>2 DEF MappingInv, NoDuplicates
  <1> QED
    BY <1>6, <1>7, <1>8, <1>9, <1>10, <1>11 DEF MappingInv

(* What the steps that answer a request have in common: the request is     *)
(* free again, and the others and the history are as they were.            *)
LEMMA AnsweredKeeps ==
  ASSUME MappingInv, NEW r \in Requests,
         Busy(r), req' = [req EXCEPT ![r] = Idle], suspects \subseteq suspects'
  PROVE  /\ req' \in [Requests -> {Idle} \cup Tasks]
         /\ req'[r].at = "idle"
         /\ \A q \in Requests \ {r} : req'[q] = req[q]
         /\ Exclusive'
  <1>1. Idle.at = "idle"
    BY DEF Idle
  <1>2. /\ req' \in [Requests -> {Idle} \cup Tasks]
        /\ req'[r] = Idle
        /\ \A q \in Requests \ {r} : req'[q] = req[q]
    BY OnlyOneRequest DEF MappingInv, MappingTypeOK
  <1>3. Exclusive'
    BY <1>1, ExclusiveKept
  <1> QED
    BY <1>1, <1>2, <1>3

LEMMA AssignUndeleteKeeps ==
  ASSUME MappingInv, NEW r \in Requests, AssignUndelete(r)
  PROVE  MappingInv'
  <1>1. /\ Busy(r) /\ req' = [req EXCEPT ![r] = Idle]
        /\ UNCHANGED <<supervisors, rows, suspects>>
        /\ deleted' = deleted \ {req[r].row}
    BY DEF AssignUndelete, Become, Busy
  <1>2. /\ req' \in [Requests -> {Idle} \cup Tasks]
        /\ req'[r].at = "idle"
        /\ \A q \in Requests \ {r} : req'[q] = req[q]
        /\ Exclusive'
    BY <1>1, AnsweredKeeps
  <1>3. \/ rows[req[r].row].supervisor \in supervisors
        \/ rows[req[r].row].supervisor \in suspects
    BY DEF MappingInv, RowsKnown, Serial, AssignUndelete, Assigns, Busy
  <1>4. MappingTypeOK'
    BY <1>1, <1>2 DEF MappingInv, MappingTypeOK
  <1>5. RowsKnown'
    BY <1>1, <1>2 DEF MappingInv, RowsKnown
  <1>6. NoDuplicates'
    BY <1>1 DEF MappingInv, NoDuplicates
  <1>7. Serial'
    BY <1>1, <1>2 DEF MappingInv, Serial, Busy, Assigns, NoRowFor
  <1>8. OrphanFree'
    <2> SUFFICES ASSUME NEW i \in DOMAIN rows \ deleted'
                 PROVE  \/ rows[i].supervisor \in supervisors
                        \/ rows[i].supervisor \in suspects
                        \/ \E q \in Requests :
                             req'[q] = [at |-> "unmap", supervisor |-> rows[i].supervisor]
      BY <1>1 DEF OrphanFree, Live
    <2>1. CASE i = req[r].row
      BY <1>3, <2>1
    <2>2. CASE i # req[r].row
      <3>1. i \in Live
        BY <1>1, <2>2 DEF Live
      <3>2. req[r].at # "unmap"
        BY DEF AssignUndelete
      <3> QED
        BY <1>2, <3>1, <3>2 DEF MappingInv, OrphanFree
    <2> QED
      BY <2>1, <2>2
  <1> QED
    BY <1>2, <1>4, <1>5, <1>6, <1>7, <1>8 DEF MappingInv

LEMMA InsertLandsKeeps ==
  ASSUME MappingInv, NEW r \in Requests, InsertLands(r)
  PROVE  MappingInv'
  <1> DEFINE u == req[r].user
             s == req[r].supervisor
             new == Len(rows) + 1
  <1>1. /\ Busy(r) /\ req' = [req EXCEPT ![r] = Idle]
        /\ UNCHANGED <<supervisors, deleted, suspects>>
        /\ rows' = Append(rows, Pair(u, s))
    BY DEF InsertLands, Become, Busy, Pair
  <1>2. /\ req' \in [Requests -> {Idle} \cup Tasks]
        /\ req'[r].at = "idle"
        /\ \A q \in Requests \ {r} : req'[q] = req[q]
        /\ Exclusive'
    BY <1>1, AnsweredKeeps
  <1>3. u \in Users /\ s \in Users
    BY TaskFields DEF MappingInv, MappingTypeOK, InsertLands, Adds
  <1>4. s \in suspects \/ (s \in supervisors /\ NoRowFor(u, s))
    BY DEF MappingInv, Serial, InsertLands, Assigns, Busy
  <1>5. Pair(u, s) \in Row
    BY <1>3 DEF Pair, Row
  <1>6. /\ rows' \in Seq(Row)
        /\ DOMAIN rows' = DOMAIN rows \cup {new}
        /\ new \notin DOMAIN rows
        /\ \A i \in DOMAIN rows : rows'[i] = rows[i]
        /\ rows'[new] = Pair(u, s)
    BY <1>1, <1>5, AppendKeepsRows DEF MappingInv, MappingTypeOK
  <1>7. MappingTypeOK'
    BY <1>1, <1>2, <1>6 DEF MappingInv, MappingTypeOK
  <1>8. RowsKnown'
    BY <1>1, <1>2, <1>6 DEF MappingInv, RowsKnown
  <1>9. Serial'
    <2> SUFFICES ASSUME NEW q \in Requests, Busy(q)', req'[q].supervisor \notin suspects
                 PROVE  /\ Assigns(req'[q]) => req'[q].supervisor \in supervisors
                        /\ req'[q].at = "update" =>
                             (req'[q].was = "SUPERVISOR" <=> req'[q].supervisor \in supervisors)
                        /\ req'[q].at = "insert" =>
                             NoRowFor(req[q].user, req[q].supervisor)'
      BY <1>1 DEF Serial, NoRowFor
    <2>1. q # r /\ req'[q] = req[q] /\ Busy(q)
      BY <1>2 DEF Busy
    <2>2. ASSUME req[q].at = "insert"
          PROVE  NoRowFor(req[q].user, req[q].supervisor)'
      <3>1. NoRowFor(req[q].user, req[q].supervisor)
        BY <2>1, <2>2 DEF MappingInv, Serial
      <3>2. Pair(u, s) # Pair(req[q].user, req[q].supervisor)
        <4> SUFFICES ASSUME u = req[q].user, s = req[q].supervisor
                     PROVE  FALSE
          BY DEF Pair
        <4>1. Conflict(req[q], req[r])
          BY <2>2 DEF InsertLands, Conflict, Adds
        <4> QED
          BY <1>1, <2>1, <4>1 DEF MappingInv, Exclusive
      <3> QED
        BY <1>6, <2>1, <3>1, <3>2 DEF NoRowFor
    <2> QED
      BY <1>1, <2>1, <2>2 DEF MappingInv, Serial
  <1>10. OrphanFree'
    <2> SUFFICES ASSUME NEW i \in DOMAIN rows' \ deleted
                 PROVE  \/ rows'[i].supervisor \in supervisors
                        \/ rows'[i].supervisor \in suspects
                        \/ \E q \in Requests :
                             req'[q] = [at |-> "unmap", supervisor |-> rows'[i].supervisor]
      BY <1>1 DEF OrphanFree, Live
    <2>1. CASE i = new
      BY <1>4, <1>6, <2>1 DEF Pair
    <2>2. CASE i \in DOMAIN rows
      <3>1. i \in Live /\ rows'[i] = rows[i]
        BY <1>6, <2>2 DEF Live
      <3>2. req[r].at # "unmap"
        BY DEF InsertLands
      <3> QED
        BY <1>2, <3>1, <3>2 DEF MappingInv, OrphanFree
    <2> QED
      BY <1>6, <2>1, <2>2
  <1>11. NoDuplicates'
    <2> SUFFICES ASSUME NEW i \in DOMAIN rows', NEW j \in DOMAIN rows',
                        rows'[i] = rows'[j], i # j
                 PROVE  rows'[i].supervisor \in suspects
      BY <1>1 DEF NoDuplicates
    <2>1. CASE i \in DOMAIN rows /\ j \in DOMAIN rows
      BY <1>6, <2>1 DEF MappingInv, NoDuplicates
    <2>2. CASE i = new \/ j = new
      <3>1. \E k \in DOMAIN rows : rows[k] = Pair(u, s)
        BY <1>6, <2>2
      <3>2. s \in suspects
        BY <1>4, <3>1 DEF NoRowFor
      <3> QED
        BY <1>6, <2>2, <3>2 DEF Pair
    <2> QED
      BY <1>6, <2>1, <2>2
  <1> QED
    BY <1>2, <1>7, <1>8, <1>9, <1>10, <1>11 DEF MappingInv

LEMMA RemoveDeleteKeeps ==
  ASSUME MappingInv, NEW r \in Requests, RemoveDelete(r)
  PROVE  MappingInv'
  <1>1. /\ Busy(r) /\ req' = [req EXCEPT ![r] = Idle]
        /\ UNCHANGED <<supervisors, rows, suspects>>
        /\ deleted' = deleted \cup {req[r].row}
    BY DEF RemoveDelete, Become, Busy
  <1>2. /\ req' \in [Requests -> {Idle} \cup Tasks]
        /\ req'[r].at = "idle"
        /\ \A q \in Requests \ {r} : req'[q] = req[q]
        /\ Exclusive'
    BY <1>1, AnsweredKeeps
  <1>3. req[r].row \in DOMAIN rows /\ req[r].at # "unmap"
    BY DEF MappingInv, RowsKnown, RemoveDelete
  <1>4. MappingTypeOK'
    BY <1>1, <1>2, <1>3 DEF MappingInv, MappingTypeOK
  <1>5. RowsKnown'
    BY <1>1, <1>2 DEF MappingInv, RowsKnown
  <1>6. NoDuplicates'
    BY <1>1 DEF MappingInv, NoDuplicates
  <1>7. Serial'
    BY <1>1, <1>2 DEF MappingInv, Serial, Busy, Assigns, NoRowFor
  <1>8. OrphanFree'
    BY <1>1, <1>2, <1>3 DEF MappingInv, OrphanFree, Live
  <1> QED
    BY <1>2, <1>4, <1>5, <1>6, <1>7, <1>8 DEF MappingInv

LEMMA UpdateWriteKeeps ==
  ASSUME MappingInv, NEW r \in Requests, UpdateWrite(r)
  PROVE  MappingInv'
  <1> DEFINE s == req[r].supervisor
             role == req[r].role
             t == IF req[r].was = "SUPERVISOR" /\ role # "SUPERVISOR"
                  THEN [at |-> "unmap", supervisor |-> s] ELSE Idle
  <1>1. /\ Busy(r) /\ Updates(req[r]) /\ s \in Users /\ role \in Roles
        /\ req[r].was \in {"USER", "SUPERVISOR"}
    BY TaskFields DEF MappingInv, MappingTypeOK, UpdateWrite, Busy, Updates
  <1>2. /\ req' = [req EXCEPT ![r] = t]
        /\ UNCHANGED <<rows, deleted, suspects>>
    BY DEF UpdateWrite, Become
  <1>3. /\ role = "SUPERVISOR" => supervisors' = supervisors \cup {s}
        /\ role = "USER" => supervisors' = supervisors \ {s}
        /\ role = "none" => supervisors' = supervisors
    BY DEF UpdateWrite
  <1>4. /\ t \in {Idle} \cup Tasks
        /\ t.at \in {"idle", "unmap"}
        /\ t.at = "unmap" => t = [at |-> "unmap", supervisor |-> s]
    BY <1>1 DEF Tasks, Idle
  <1>5. /\ req' \in [Requests -> {Idle} \cup Tasks]
        /\ req'[r] = t
        /\ \A q \in Requests \ {r} : req'[q] = req[q]
    BY <1>2, <1>4, OnlyOneRequest DEF MappingInv, MappingTypeOK
  <1>6. MappingTypeOK'
    BY <1>1, <1>2, <1>3, <1>5 DEF MappingInv, MappingTypeOK, Roles
  <1>7. RowsKnown'
    BY <1>2, <1>4, <1>5 DEF MappingInv, RowsKnown
  <1>8. NoDuplicates'
    BY <1>2, <1>4, <1>5
       DEF MappingInv, NoDuplicates, Adds
  <1>9. Exclusive'
    BY <1>1, <1>2, <1>4, ExclusiveKept DEF Assigns, Updates, Adds
  (* Another request about s that relies on the role conflicts with r.     *)
  <1>10. Serial'
    <2> SUFFICES ASSUME NEW q \in Requests, Busy(q)', req'[q].supervisor \notin suspects
                 PROVE  /\ Assigns(req'[q]) => req'[q].supervisor \in supervisors'
                        /\ req'[q].at = "update" =>
                             (req'[q].was = "SUPERVISOR" <=> req'[q].supervisor \in supervisors')
                        /\ req'[q].at = "insert" =>
                             NoRowFor(req'[q].user, req'[q].supervisor)
      BY <1>2 DEF Serial, NoRowFor
    <2>1. CASE q = r
      BY <1>4, <1>5, <2>1 DEF Assigns
    <2>2. CASE q # r /\ req[q].supervisor = s
      <3>1. req'[q] = req[q] /\ Busy(q)
        BY <1>5, <2>2 DEF Busy
      <3>2. ~Assigns(req[q]) /\ ~Updates(req[q])
        BY <1>1, <2>2, <3>1 DEF MappingInv, Exclusive, Conflict
      <3> QED
        BY <3>1, <3>2 DEF Assigns, Updates
    <2>3. CASE q # r /\ req[q].supervisor # s
      <3>1. req'[q] = req[q] /\ Busy(q)
        BY <1>5, <2>3 DEF Busy
      <3>2. req[q].supervisor \in supervisors' <=> req[q].supervisor \in supervisors
        BY <1>1, <1>3, <2>3 DEF Roles
      <3> QED
        BY <3>1, <3>2 DEF MappingInv, Serial
    <2> QED
      BY <2>1, <2>2, <2>3
  (* Who loses the role now had it in the snapshot, or is a suspect.       *)
  <1>11. OrphanFree'
    <2> SUFFICES ASSUME NEW i \in Live, rows[i].supervisor \notin suspects,
                        rows[i].supervisor \notin supervisors'
                 PROVE  \E q \in Requests :
                          req'[q] = [at |-> "unmap", supervisor |-> rows[i].supervisor]
      BY <1>2 DEF OrphanFree, Live
    <2>1. CASE rows[i].supervisor \in supervisors
      <3>1. rows[i].supervisor = s /\ role = "USER"
        BY <1>1, <1>3, <2>1 DEF Roles
      <3>2. req[r].was = "SUPERVISOR"
        BY <1>1, <2>1, <3>1 DEF MappingInv, Serial, UpdateWrite
      <3> QED
        BY <1>5, <3>1, <3>2
    <2>2. CASE rows[i].supervisor \notin supervisors
      <3>1. PICK q \in Requests :
                   req[q] = [at |-> "unmap", supervisor |-> rows[i].supervisor]
        BY <2>2 DEF MappingInv, OrphanFree
      <3>2. q # r
        BY <3>1 DEF UpdateWrite
      <3> QED
        BY <1>5, <3>1, <3>2
    <2> QED
      BY <2>1, <2>2
  <1> QED
    BY <1>6, <1>7, <1>8, <1>9, <1>10, <1>11 DEF MappingInv

LEMMA UpdateUnmapKeeps ==
  ASSUME MappingInv, NEW r \in Requests, UpdateUnmap(r)
  PROVE  MappingInv'
  <1> DEFINE s == req[r].supervisor
  <1>1. /\ Busy(r) /\ req' = [req EXCEPT ![r] = Idle]
        /\ UNCHANGED <<supervisors, rows, suspects>>
        /\ deleted' = deleted \cup { i \in DOMAIN rows : rows[i].supervisor = s }
    BY DEF UpdateUnmap, Become, Busy
  <1>2. /\ req' \in [Requests -> {Idle} \cup Tasks]
        /\ req'[r].at = "idle"
        /\ \A q \in Requests \ {r} : req'[q] = req[q]
        /\ Exclusive'
    BY <1>1, AnsweredKeeps
  <1>3. MappingTypeOK'
    BY <1>1, <1>2 DEF MappingInv, MappingTypeOK
  <1>4. RowsKnown'
    BY <1>1, <1>2 DEF MappingInv, RowsKnown
  <1>5. NoDuplicates'
    BY <1>1 DEF MappingInv, NoDuplicates
  <1>6. Serial'
    BY <1>1, <1>2 DEF MappingInv, Serial, Busy, Assigns, NoRowFor
  <1>7. OrphanFree'
    <2> SUFFICES ASSUME NEW i \in DOMAIN rows \ deleted'
                 PROVE  \/ rows[i].supervisor \in supervisors
                        \/ rows[i].supervisor \in suspects
                        \/ \E q \in Requests :
                             req'[q] = [at |-> "unmap", supervisor |-> rows[i].supervisor]
      BY <1>1 DEF OrphanFree, Live
    <2>1. i \in Live /\ rows[i].supervisor # s
      BY <1>1 DEF Live
    <2> QED
      BY <1>2, <2>1 DEF MappingInv, OrphanFree
  <1> QED
    BY <1>2, <1>3, <1>4, <1>5, <1>6, <1>7 DEF MappingInv

LEMMA RequestFailsKeeps ==
  ASSUME MappingInv, NEW r \in Requests, RequestFails(r)
  PROVE  MappingInv'
  <1>1. /\ Busy(r) /\ req' = [req EXCEPT ![r] = Idle]
        /\ UNCHANGED <<supervisors, rows, deleted>>
        /\ suspects \subseteq suspects'
        /\ req[r].at = "unmap" => req[r].supervisor \in suspects'
    BY DEF RequestFails, Busy
  <1>2. /\ req' \in [Requests -> {Idle} \cup Tasks]
        /\ req'[r].at = "idle"
        /\ \A q \in Requests \ {r} : req'[q] = req[q]
        /\ Exclusive'
    BY <1>1, AnsweredKeeps
  <1>3. suspects' \subseteq Users
    BY TaskFields DEF MappingInv, MappingTypeOK, RequestFails, Busy
  <1>4. MappingTypeOK'
    BY <1>1, <1>2, <1>3 DEF MappingInv, MappingTypeOK
  <1>5. RowsKnown'
    BY <1>1, <1>2 DEF MappingInv, RowsKnown
  <1>6. NoDuplicates'
    BY <1>1 DEF MappingInv, NoDuplicates
  <1>7. Serial'
    BY <1>1, <1>2 DEF MappingInv, Serial, Busy, Assigns, NoRowFor
  <1>8. OrphanFree'
    BY <1>1, <1>2 DEF MappingInv, OrphanFree, Live
  <1> QED
    BY <1>2, <1>4, <1>5, <1>6, <1>7, <1>8 DEF MappingInv

LEMMA NextKeeps == MappingInv /\ [MappingNext]_mappingVars => MappingInv'
  <1> SUFFICES ASSUME MappingInv, [MappingNext]_mappingVars
               PROVE  MappingInv'
    OBVIOUS
  <1>1. ASSUME NEW r \in Requests, NEW u \in Users, NEW s \in Users, AssignCheck(r, u, s)
        PROVE  MappingInv'
    <2> DEFINE t == [at |-> "checked", user |-> u, supervisor |-> s]
    <2>1. t \in Tasks
      BY DEF Tasks
    <2>2. /\ Begin(r, t) /\ UNCHANGED <<supervisors, rows, deleted>>
          /\ s \in supervisors
      BY <1>1 DEF AssignCheck
    <2> QED
      BY <2>1, <2>2, BeginKeeps
  <1>2. ASSUME NEW r \in Requests, NEW i \in DOMAIN rows, RemoveFind(r, i)
        PROVE  MappingInv'
    <2> DEFINE t == [at |-> "remove", supervisor |-> rows[i].supervisor, row |-> i]
    <2>1. rows[i] \in Row /\ i \in Nat
      BY LenProperties DEF MappingInv, MappingTypeOK
    <2>2. rows[i].supervisor \in Users
      BY <2>1 DEF Row
    <2>3. t \in Tasks
      BY <2>1, <2>2 DEF Tasks
    <2>4. Begin(r, t) /\ UNCHANGED <<supervisors, rows, deleted>>
      BY <1>2 DEF RemoveFind
    <2> QED
      BY <2>3, <2>4, BeginKeeps
  <1>3. ASSUME NEW r \in Requests, NEW s \in Users, NEW role \in Roles,
               UpdateRead(r, s, role)
        PROVE  MappingInv'
    <2> DEFINE t == [at |-> "update", supervisor |-> s, role |-> role,
                     was |-> IF s \in supervisors THEN "SUPERVISOR" ELSE "USER"]
    <2>1. t \in Tasks
      BY DEF Tasks
    <2>2. Begin(r, t) /\ UNCHANGED <<supervisors, rows, deleted>>
      BY <1>3 DEF UpdateRead
    <2>3. t.was = "SUPERVISOR" <=> t.supervisor \in supervisors
      OBVIOUS
    <2> QED
      BY <2>1, <2>2, <2>3, BeginKeeps
  <1>4. ASSUME NEW r \in Requests, Continue(r)
        PROVE  MappingInv'
    BY <1>4, AssignFindKeeps, AssignUndeleteKeeps, InsertLandsKeeps, RemoveDeleteKeeps,
       UpdateWriteKeeps, UpdateUnmapKeeps DEF Continue
  <1>5. ASSUME NEW r \in Requests, RequestFails(r)
        PROVE  MappingInv'
    BY <1>5, RequestFailsKeeps
  <1>6. ASSUME UNCHANGED mappingVars
        PROVE  MappingInv'
    BY <1>6 DEF mappingVars, MappingInv, MappingTypeOK, RowsKnown, Exclusive,
       Serial, OrphanFree, NoDuplicates, Live, Busy, NoRowFor
  <1> QED
    BY <1>1, <1>2, <1>3, <1>4, <1>5, <1>6 DEF MappingNext

LEMMA InvariantHolds == MappingSafety => []MappingInv
  BY InitEstablishes, NextKeeps, PTL DEF MappingSafety

LEMMA SpecIsSafe == MappingSpec => MappingSafety
  BY PTL DEF MappingSpec

(* The state stays of its type.                                            *)
THEOREM MappingTypeCorrect == MappingSpec => []MappingTypeOK
  BY InvariantHolds, SpecIsSafe, PTL DEF MappingInv

(* However requests interleave and fail, an active mapping to someone who  *)
(* is no supervisor means a conflict or a broken-off update about him.     *)
THEOREM DemotedKeepNoMapping == MappingSpec => []OrphanFree
  BY InvariantHolds, SpecIsSafe, PTL DEF MappingInv

(* Without conflicting assignments a pair never gets a second row.         *)
THEOREM OneRowPerPair == MappingSpec => []NoDuplicates
  BY InvariantHolds, SpecIsSafe, PTL DEF MappingInv

(* A removal that has written has removed the mapping.                     *)
THEOREM RemovalIsEffective == MappingSpec => RemovalTakesEffect
  <1>1. ASSUME MappingInv, NEW r \in Requests, RemoveDelete(r)
        PROVE  \/ req[r].supervisor \in suspects
               \/ \A i \in DOMAIN rows' \ deleted' : rows'[i] # rows[req[r].row]
    <2>1. /\ rows' = rows
          /\ deleted' = deleted \cup {req[r].row}
      BY <1>1 DEF RemoveDelete
    <2>2. /\ req[r].row \in DOMAIN rows
          /\ rows[req[r].row].supervisor = req[r].supervisor
      BY <1>1 DEF MappingInv, RowsKnown, RemoveDelete
    <2> QED
      BY <1>1, <2>1, <2>2 DEF MappingInv, NoDuplicates
  <1>2. MappingInv => [\A r \in Requests :
          RemoveDelete(r) =>
            \/ req[r].supervisor \in suspects
            \/ \A i \in DOMAIN rows' \ deleted' : rows'[i] # rows[req[r].row]]_mappingVars
    BY <1>1
  <1> QED
    BY <1>2, InvariantHolds, SpecIsSafe, PTL DEF RemovalTakesEffect

-----------------------------------------------------------------------------
(* The upload of the user list, UserUpload.                                *)
UploadState == [at : {"idle", "deactivated", "lines", "done", "failed"},
                file : Files \cup {<<>>}, lines : Seq(LineState)]

UploadsTyped ==
  /\ upload \in [Uploads -> UploadState]
  /\ \A k \in Uploads : DOMAIN upload[k].lines = DOMAIN upload[k].file

Placed == {"mapped", "ok", "unsent"}

(* What is to be done for a line follows from its verdict.                 *)
Judged(k, i) ==
  LET t == upload[k].lines[i]
      verdict == Verdict(upload[k].file[i])
  IN  /\ t.at \in Placed => verdict \in {"mapped", "find"}
      /\ t.at = "undelete" \/ t.insert # "none" => verdict = "find"

Typed ==
  /\ MappingTypeOK /\ RowsKnown
  /\ active \subseteq Users /\ disturbed \subseteq Uploads
  /\ UploadsTyped
  /\ \A k \in Uploads : \A i \in DOMAIN upload[k].lines : Judged(k, i)

Answered == {"ok", "refused", "skipped", "failed", "unsent"}

(* The line has brought the mapping it asks for, or the create of it is    *)
(* under way or has failed.                                                *)
Brought(k, i) == Verdict(upload[k].file[i]) = "find" /\ upload[k].lines[i].at \in Placed

(* A line is where its verdict and the table allow it to be.               *)
LineCourse(k, i) ==
  LET t == upload[k].lines[i]
      line == upload[k].file[i]
  IN  /\ t.at = "undelete" => t.row \in DOMAIN rows /\ rows[t.row] = PairOf(line)
      /\ t.at \in {"refused", "skipped"} => Verdict(line) = t.at
      /\ t.insert # "none" => Brought(k, i)
      /\ Brought(k, i) /\ t.insert = "none" => \E j \in Live : rows[j] = PairOf(line)

Mappings(k) ==
  /\ \A i \in DOMAIN upload[k].lines : LineCourse(k, i)
  /\ \A j \in Live : \E i \in DOMAIN upload[k].lines :
       Brought(k, i) /\ rows[j] = PairOf(upload[k].file[i])

(* The lines at one of the places.                                         *)
LinesAt(k, places) == { i \in DOMAIN upload[k].lines : upload[k].lines[i].at \in places }

Promoted(k) == { upload[k].file[i].user :
                   i \in { i \in LinesAt(k, {"ok"}) : upload[k].file[i].role = "SUPERVISOR" } }

(* Who has access, and who is a supervisor, of those who are no admins.    *)
Access(k) ==
  LET users == { upload[k].file[i].user : i \in LinesAt(k, {"ok"}) }
      bosses == { upload[k].file[i].supervisor : i \in LinesAt(k, {"ok", "unsent"}) } \cap Users
  IN  /\ upload[k].at = "deactivated" => active \subseteq Admins /\ supervisors \subseteq Admins
      /\ upload[k].at = "lines" => /\ active \ Admins = users \ Admins
                                   /\ supervisors \ Admins = Promoted(k) \ Admins
      /\ upload[k].at = "done" => /\ active \ Admins = (bosses \cup users) \ Admins
                                  /\ supervisors \ Admins = (bosses \cup Promoted(k)) \ Admins
                                  /\ LinesAt(k, Answered) = DOMAIN upload[k].lines

(* Where an upload that nobody disturbed is.                               *)
Course(k) ==
  /\ upload[k].at = "deactivated" => \A i \in DOMAIN upload[k].lines : upload[k].lines[i] = Waiting
  /\ upload[k].at \in {"lines", "done"} => Mappings(k)
  /\ Access(k)

UploadInv == Typed /\ \A k \in Uploads \ disturbed : Course(k)

LEMMA LineOfFile ==
  ASSUME Typed, NEW k \in Uploads, NEW i \in DOMAIN upload[k].lines
  PROVE  upload[k].file[i] \in Line /\ upload[k].lines[i] \in LineState
<1>1. upload[k].file \in Files \cup {<<>>} /\ upload[k].lines \in Seq(LineState)
      /\ DOMAIN upload[k].lines = DOMAIN upload[k].file
  BY DEF Typed, UploadsTyped, UploadState
<1>2. upload[k].file \in Seq(Line)
  BY <1>1, UploadAssumption
<1>3. QED
  BY <1>1, <1>2

LEMMA Verdicts ==
  ASSUME NEW line \in Line
  PROVE  /\ Verdict(line) \in {"refused", "skipped", "mapped", "find"}
         /\ Verdict(line) \in {"mapped", "find"} <=>
              /\ line.user \in Users \ Admins /\ line.role \in {"USER", "SUPERVISOR"}
              /\ line.supervisor \in (Users \ {line.user}) \cup {None}
         /\ Verdict(line) \in {"mapped", "find"} =>
              (Verdict(line) = "find" <=> line.supervisor # None)
         /\ Verdict(line) = "find" => line.supervisor \in Users /\ PairOf(line) \in Row
<1>1. /\ line.user \in Users \cup {Unknown} /\ line.supervisor \in Users \cup {Unknown, None}
      /\ line.role \in {"USER", "SUPERVISOR", "ADMIN", "invalid"}
      /\ Admins \subseteq Users /\ Unknown \notin Users /\ None \notin Users /\ Unknown # None
  BY UploadAssumption DEF Line
<1> DEFINE bad == line.user = Unknown \/ line.role = "invalid"
           admin == line.user \in Admins \/ line.role = "ADMIN"
           wrong == line.supervisor \in {Unknown, line.user}
<1>2. bad => Verdict(line) = "refused"
  BY DEF Verdict
<1>3. ~bad /\ admin => Verdict(line) = "skipped"
  BY DEF Verdict
<1>4. ~bad /\ ~admin /\ wrong => Verdict(line) = "refused"
  BY DEF Verdict
<1>5. ~bad /\ ~admin /\ ~wrong /\ line.supervisor = None => Verdict(line) = "mapped"
  BY DEF Verdict
<1>6. ~bad /\ ~admin /\ ~wrong /\ line.supervisor # None => Verdict(line) = "find"
  BY DEF Verdict
<1>7. ~bad /\ ~admin /\ ~wrong <=>
        /\ line.user \in Users \ Admins /\ line.role \in {"USER", "SUPERVISOR"}
        /\ line.supervisor \in (Users \ {line.user}) \cup {None}
  BY <1>1
<1>8. PairOf(line) = [user |-> line.user, supervisor |-> line.supervisor]
  BY DEF PairOf
<1>9. line.user \in Users /\ line.supervisor \in Users => PairOf(line) \in Row
  BY <1>8 DEF Row
<1> HIDE DEF bad, admin, wrong
<1>10. QED
  BY <1>1, <1>2, <1>3, <1>4, <1>5, <1>6, <1>7, <1>9

(* A change of one line.                                                   *)
Only(k, i, state) ==
  /\ \A q \in Uploads \ {k} : upload'[q] = upload[q]
  /\ upload'[k].at = upload[k].at /\ upload'[k].file = upload[k].file
  /\ DOMAIN upload'[k].lines = DOMAIN upload[k].lines
  /\ upload'[k].lines[i] = state
  /\ \A j \in DOMAIN upload[k].lines : j # i => upload'[k].lines[j] = upload[k].lines[j]

LEMMA LineChanges ==
  ASSUME Typed, NEW k \in Uploads, NEW i \in DOMAIN upload[k].lines, NEW state \in LineState,
         upload' = [upload EXCEPT ![k].lines[i] = state]
  PROVE  UploadsTyped' /\ Only(k, i, state)
<1> DEFINE lines == [upload[k].lines EXCEPT ![i] = state]
<1>1. upload \in [Uploads -> UploadState] /\ upload[k].lines \in Seq(LineState)
      /\ \A q \in Uploads : DOMAIN upload[q].lines = DOMAIN upload[q].file
  BY DEF Typed, UploadsTyped, UploadState
<1>2. lines \in Seq(LineState) /\ DOMAIN lines = DOMAIN upload[k].lines
  <2>1. i \in 1 .. Len(upload[k].lines)
    BY <1>1
  <2>2. lines \in Seq(LineState)
    BY <1>1, <2>1, ExceptSeq
  <2>3. QED
    BY <2>2
<1>3. lines[i] = state /\ \A j \in DOMAIN upload[k].lines : j # i => lines[j] = upload[k].lines[j]
  BY <1>1
<1>4. upload' = [upload EXCEPT ![k] = [upload[k] EXCEPT !.lines = lines]]
  BY <1>1 DEF UploadState
<1> HIDE DEF lines
<1>5. /\ upload'[k] = [upload[k] EXCEPT !.lines = lines]
      /\ \A q \in Uploads \ {k} : upload'[q] = upload[q]
  BY <1>1, <1>4
<1>6. /\ upload'[k] \in UploadState /\ upload'[k].at = upload[k].at
      /\ upload'[k].file = upload[k].file /\ upload'[k].lines = lines
  <2>1. upload[k] \in UploadState
    BY <1>1
  <2>2. upload'[k] = [at |-> upload[k].at, file |-> upload[k].file, lines |-> lines]
    BY <1>5, <2>1 DEF UploadState
  <2>3. upload[k].at \in {"idle", "deactivated", "lines", "done", "failed"}
        /\ upload[k].file \in Files \cup {<<>>}
    BY <2>1 DEF UploadState
  <2>4. QED
    BY <1>2, <2>2, <2>3 DEF UploadState
<1>7. upload' \in [Uploads -> UploadState]
  BY <1>1, <1>4, <1>5, <1>6
<1>8. ASSUME NEW q \in Uploads PROVE DOMAIN upload'[q].lines = DOMAIN upload'[q].file
  <2>1. CASE q = k
    BY <1>1, <1>2, <1>6, <2>1
  <2>2. CASE q # k
    BY <1>1, <1>5, <2>2
  <2>3. QED
    BY <2>1, <2>2
<1>9. QED
  BY <1>2, <1>3, <1>5, <1>6, <1>7, <1>8 DEF UploadsTyped, Only

(* The table only grows, for an upload that is giving mappings back.       *)
Grows == /\ DOMAIN rows \subseteq DOMAIN rows' /\ Live \subseteq Live'
         /\ \A j \in DOMAIN rows : rows'[j] = rows[j]

LEMMA MappingsStep ==
  ASSUME NEW k \in Uploads, Mappings(k), NEW i \in DOMAIN upload[k].lines, NEW state,
         Only(k, i, state), Grows, LineCourse(k, i)', Brought(k, i) => Brought(k, i)',
         \A j \in Live' \ Live : Brought(k, i)' /\ rows'[j] = PairOf(upload[k].file[i])
  PROVE  Mappings(k)'
<1>1. /\ upload'[k].file = upload[k].file /\ DOMAIN upload'[k].lines = DOMAIN upload[k].lines
      /\ \A h \in DOMAIN upload[k].lines : h # i => upload'[k].lines[h] = upload[k].lines[h]
  BY DEF Only
<1>2. \A h \in DOMAIN upload[k].lines : Brought(k, h) => Brought(k, h)'
  BY <1>1 DEF Brought
<1>3. ASSUME NEW h \in DOMAIN upload'[k].lines PROVE LineCourse(k, h)'
  <2>1. CASE h = i
    BY <2>1
  <2>2. CASE h # i
    <3>1. upload'[k].lines[h] = upload[k].lines[h] /\ LineCourse(k, h)
      BY <1>1, <1>3, <2>2 DEF Mappings
    <3>2. Brought(k, h)' <=> Brought(k, h)
      BY <1>1, <3>1 DEF Brought
    <3>3. PairOf(upload[k].file[h])' = PairOf(upload[k].file[h])
      BY <1>1 DEF PairOf
    <3>4. \A j \in Live : j \in DOMAIN rows
      BY DEF Live
    <3>5. QED
      BY <1>1, <3>1, <3>2, <3>3, <3>4 DEF LineCourse, Grows
  <2>3. QED
    BY <2>1, <2>2
<1>4. ASSUME NEW j \in Live'
      PROVE  \E h \in DOMAIN upload'[k].lines :
               Brought(k, h)' /\ rows'[j] = PairOf(upload[k].file[h])'
  <2>1. \A h : PairOf(upload[k].file[h])' = PairOf(upload[k].file[h])
    BY <1>1 DEF PairOf
  <2>2. CASE j \in Live
    <3>1. rows'[j] = rows[j]
      BY <2>2 DEF Grows, Live
    <3>2. QED
      BY <1>1, <1>2, <2>1, <2>2, <3>1 DEF Mappings
  <2>3. CASE j \notin Live
    BY <1>1, <2>1, <2>3
  <2>4. QED
    BY <2>2, <2>3
<1>5. QED
  BY <1>3, <1>4 DEF Mappings

LEMMA AccessStep ==
  ASSUME NEW k \in Uploads, Access(k), NEW i \in DOMAIN upload[k].lines, NEW state,
         Only(k, i, state), active' = active, supervisors' = supervisors,
         upload[k].at = "done" => state.at = upload[k].lines[i].at,
         state.at = "ok" <=> upload[k].lines[i].at = "ok"
  PROVE  Access(k)'
<1>1. /\ upload'[k].at = upload[k].at /\ upload'[k].file = upload[k].file
      /\ DOMAIN upload'[k].lines = DOMAIN upload[k].lines
      /\ \A j \in DOMAIN upload[k].lines : upload'[k].lines[j].at = "ok" <=> upload[k].lines[j].at = "ok"
  BY DEF Only
<1>2. LinesAt(k, {"ok"})' = LinesAt(k, {"ok"})
  BY <1>1 DEF LinesAt
<1>3. Promoted(k)' = Promoted(k)
  BY <1>1, <1>2 DEF Promoted
<1>4. CASE upload[k].at # "done"
  BY <1>1, <1>2, <1>3, <1>4 DEF Access
<1>5. CASE upload[k].at = "done"
  <2>1. \A j \in DOMAIN upload[k].lines : upload'[k].lines[j].at = upload[k].lines[j].at
    BY <1>5 DEF Only
  <2>2. LinesAt(k, {"ok", "unsent"})' = LinesAt(k, {"ok", "unsent"}) /\ LinesAt(k, Answered)' = LinesAt(k, Answered)
    BY <1>1, <2>1 DEF LinesAt
  <2>3. QED
    BY <1>1, <1>2, <1>3, <1>5, <2>2 DEF Access
<1>6. QED
  BY <1>4, <1>5

(* A step of upload k is one of another writer to all other uploads.       *)
LEMMA Undisturbed ==
  ASSUME UploadInv, NEW k \in Uploads, Disturbs({k}), Typed',
         k \notin disturbed => Course(k)'
  PROVE  UploadInv'
BY DEF UploadInv, Disturbs

LEMMA DisturbsTyped ==
  ASSUME Typed, NEW K, Disturbs(K) PROVE disturbed' \subseteq Uploads
BY DEF Typed, Disturbs

LEMMA JudgedKept ==
  ASSUME Typed, NEW k \in Uploads, NEW i, NEW state, Only(k, i, state), Judged(k, i)'
  PROVE  \A q \in Uploads : \A j \in DOMAIN upload'[q].lines : Judged(q, j)'
<1> SUFFICES ASSUME NEW q \in Uploads, NEW j \in DOMAIN upload'[q].lines, q # k \/ j # i
             PROVE  Judged(q, j)'
  OBVIOUS
<1>1. j \in DOMAIN upload[q].lines /\ upload'[q].lines[j] = upload[q].lines[j]
      /\ upload'[q].file = upload[q].file
  BY DEF Only
<1>2. Judged(q, j)
  BY <1>1 DEF Typed
<1>3. QED
  BY <1>1, <1>2 DEF Judged

LEMMA LineKeeps ==
  ASSUME UploadInv, NEW k \in Uploads, NEW i \in DOMAIN upload[k].lines, NEW state \in LineState,
         upload' = [upload EXCEPT ![k].lines[i] = state], Disturbs({k}),
         MappingTypeOK', RowsKnown', active' \subseteq Users, Judged(k, i)',
         upload[k].at = "lines" \/ upload[k].lines[i] # Waiting,
         k \notin disturbed /\ Access(k) /\ upload[k].at # "deactivated" => Access(k)',
         k \notin disturbed /\ Mappings(k) => Mappings(k)'
  PROVE  UploadInv'
<1>1. Typed /\ (k \notin disturbed => Course(k))
  BY DEF UploadInv
<1>2. UploadsTyped' /\ Only(k, i, state)
  BY <1>1, LineChanges
<1>3. \A q \in Uploads : \A j \in DOMAIN upload'[q].lines : Judged(q, j)'
  BY <1>1, <1>2, JudgedKept
<1>4. Typed'
  BY <1>1, <1>2, <1>3, DisturbsTyped DEF Typed
<1>5. ASSUME k \notin disturbed PROVE Course(k)'
  <2>1. upload[k].at # "deactivated"
    BY <1>1, <1>5 DEF Course
  <2>2. upload'[k].at = upload[k].at
    BY <1>2 DEF Only
  <2>3. QED
    BY <1>1, <1>5, <2>1, <2>2 DEF Course
<1>6. QED
  BY <1>4, <1>5, Undisturbed

(* A line that changes neither the table nor who has access.               *)
LEMMA QuietLineKeeps ==
  ASSUME UploadInv, NEW k \in Uploads, NEW i \in DOMAIN upload[k].lines, NEW state \in LineState,
         upload' = [upload EXCEPT ![k].lines[i] = state], Disturbs({k}),
         UNCHANGED <<mappingVars, active>>, Judged(k, i)',
         upload[k].at = "lines" \/ upload[k].lines[i] # Waiting,
         upload[k].at = "done" => state.at = upload[k].lines[i].at,
         state.at = "ok" <=> upload[k].lines[i].at = "ok",
         upload[k].lines[i].at \in Placed => state.at \in Placed,
         LineCourse(k, i) => LineCourse(k, i)'
  PROVE  UploadInv'
<1>1. Typed
  BY DEF UploadInv
<1>2. /\ rows' = rows /\ deleted' = deleted /\ active' = active /\ supervisors' = supervisors
      /\ req' = req /\ suspects' = suspects
  BY DEF mappingVars
<1>3. MappingTypeOK' /\ RowsKnown' /\ active' \subseteq Users
  BY <1>1, <1>2 DEF Typed, MappingTypeOK, RowsKnown
<1>4. Only(k, i, state)
  BY <1>1, LineChanges
<1>5. Access(k) => Access(k)'
  BY <1>2, <1>4, AccessStep
<1>6. Grows /\ Live' = Live
  BY <1>2 DEF Grows, Live
<1>7. Brought(k, i) => Brought(k, i)'
  BY <1>4 DEF Only, Brought
<1>8. Mappings(k) => LineCourse(k, i)'
  BY DEF Mappings
<1>9. Mappings(k) => Mappings(k)'
  BY <1>4, <1>6, <1>7, <1>8, MappingsStep
<1>10. QED
  BY <1>3, <1>5, <1>9, LineKeeps

-----------------------------------------------------------------------------
(* The steps of an upload, one by one.                                     *)
LEMMA LineStates ==
  /\ Waiting \in LineState
  /\ \A at \in {"undelete", "mapped", "refused", "skipped"}, row \in Nat, insert \in {"none", "sent"} :
       [at |-> at, row |-> row, insert |-> insert] \in LineState
  /\ \A t \in LineState :
       /\ \A at \in {"ok", "failed", "unsent"} :
            /\ [t EXCEPT !.at = at] \in LineState
            /\ [t EXCEPT !.at = at].at = at
            /\ [t EXCEPT !.at = at].row = t.row /\ [t EXCEPT !.at = at].insert = t.insert
       /\ \A insert \in {"none", "failed"} :
            /\ [t EXCEPT !.insert = insert] \in LineState
            /\ [t EXCEPT !.insert = insert].at = t.at
            /\ [t EXCEPT !.insert = insert].row = t.row
            /\ [t EXCEPT !.insert = insert].insert = insert
BY DEF Waiting, LineState

LEMMA Waited ==
  ASSUME NEW j
  PROVE  /\ [Waiting EXCEPT !.at = "mapped", !.insert = "sent"]
              = [at |-> "mapped", row |-> 0, insert |-> "sent"]
         /\ [Waiting EXCEPT !.at = "undelete", !.row = j]
              = [at |-> "undelete", row |-> j, insert |-> "none"]
<1>1. [Waiting EXCEPT !.at = "mapped"] = [at |-> "mapped", row |-> 0, insert |-> "none"]
  BY DEF Waiting
<1>2. [Waiting EXCEPT !.at = "undelete"] = [at |-> "undelete", row |-> 0, insert |-> "none"]
  BY DEF Waiting
<1>3. [[at |-> "mapped", row |-> 0, insert |-> "none"] EXCEPT !.insert = "sent"]
        = [at |-> "mapped", row |-> 0, insert |-> "sent"]
  OBVIOUS
<1>4. [[at |-> "undelete", row |-> 0, insert |-> "none"] EXCEPT !.row = j]
        = [at |-> "undelete", row |-> j, insert |-> "none"]
  OBVIOUS
<1>5. QED
  BY <1>1, <1>2, <1>3, <1>4

LEMMA LineIsAt ==
  ASSUME NEW k, NEW i, LineAt(k, i) # "stopped"
  PROVE  upload[k].at = "lines" /\ upload[k].lines[i].at = LineAt(k, i)
BY DEF LineAt

LEMMA LineFindKeeps ==
  ASSUME UploadInv, NEW k \in Uploads, NEW i \in DOMAIN upload[k].lines, LineFind(k, i)
  PROVE  UploadInv'
<1> DEFINE line == upload[k].file[i]
<1>1. /\ Typed /\ line \in Line /\ upload[k].at = "lines" /\ upload[k].lines[i].at = "waiting"
      /\ Disturbs({k}) /\ UNCHANGED <<mappingVars, active>>
  BY LineOfFile, LineIsAt DEF UploadInv, LineFind
<1>2. RowsOf(line.user, line.supervisor) = { j \in DOMAIN rows : rows[j] = PairOf(line) }
  BY DEF RowsOf, PairOf
<1>3. PICK at \in {"undelete", "mapped", "refused", "skipped"}, row \in Nat, insert \in {"none", "sent"} :
        /\ SetLine(k, i, [at |-> at, row |-> row, insert |-> insert])
        /\ at # "undelete" /\ insert = "none" =>
             \/ at = Verdict(line)
             \/ Verdict(line) = "find" /\ at = "mapped" /\ \E j \in Live : rows[j] = PairOf(line)
        /\ insert = "sent" => at = "mapped" /\ Verdict(line) = "find"
        /\ at = "undelete" => /\ Verdict(line) = "find" /\ insert = "none"
                              /\ row \in DOMAIN rows /\ rows[row] = PairOf(line)
  <2>1. CASE /\ Verdict(line) # "find"
             /\ SetLine(k, i, [Waiting EXCEPT !.at = Verdict(line)])
    <3>1. Verdict(line) \in {"mapped", "refused", "skipped"}
      BY <1>1, <2>1, Verdicts
    <3>2. SetLine(k, i, [at |-> Verdict(line), row |-> 0, insert |-> "none"])
      BY <2>1 DEF Waiting
    <3>3. QED
      BY <3>1, <3>2
  <2>2. CASE /\ Verdict(line) = "find"
             /\ SetLine(k, i, [Waiting EXCEPT !.at = "mapped", !.insert = "sent"])
    <3>1. SetLine(k, i, [at |-> "mapped", row |-> 0, insert |-> "sent"])
      BY <2>2, Waited
    <3>2. QED
      BY <2>2, <3>1
  <2>3. CASE /\ Verdict(line) = "find"
             /\ \E j \in RowsOf(line.user, line.supervisor) :
                  SetLine(k, i, IF j \in deleted
                                THEN [Waiting EXCEPT !.at = "undelete", !.row = j]
                                ELSE [Waiting EXCEPT !.at = "mapped"])
    <3>1. PICK j \in DOMAIN rows :
            /\ rows[j] = PairOf(line)
            /\ SetLine(k, i, IF j \in deleted
                             THEN [Waiting EXCEPT !.at = "undelete", !.row = j]
                             ELSE [Waiting EXCEPT !.at = "mapped"])
      BY <1>2, <2>3
    <3>2. j \in Nat
      BY <1>1 DEF Typed, MappingTypeOK
    <3>3. CASE j \in deleted
      <4>1. SetLine(k, i, [at |-> "undelete", row |-> j, insert |-> "none"])
        BY <3>1, <3>3, Waited
      <4>2. QED
        BY <2>3, <3>1, <3>2, <4>1
    <3>4. CASE j \notin deleted
      <4>1. SetLine(k, i, [at |-> "mapped", row |-> 0, insert |-> "none"])
        BY <3>1, <3>4 DEF Waiting
      <4>2. j \in Live
        BY <3>4 DEF Live
      <4>3. QED
        BY <2>3, <3>1, <4>1, <4>2
    <3>5. QED
      BY <3>3, <3>4
  <2>4. QED
    BY <2>1, <2>2, <2>3 DEF LineFind
<1> DEFINE state == [at |-> at, row |-> row, insert |-> insert]
<1>4. /\ state \in LineState /\ state.at = at /\ state.row = row /\ state.insert = insert
      /\ upload' = [upload EXCEPT ![k].lines[i] = state]
  BY <1>3, LineStates DEF SetLine
<1> HIDE DEF state
<1>5. /\ upload'[k].lines[i] = state /\ upload'[k].file = upload[k].file
      /\ PairOf(line)' = PairOf(line) /\ Verdict(line)' = Verdict(line)
  <2>1. Only(k, i, state)
    BY <1>1, <1>4, LineChanges
  <2>2. QED
    BY <2>1 DEF Only, PairOf, Verdict
<1>6. Judged(k, i)'
  BY <1>3, <1>4, <1>5 DEF Judged, Placed
<1>7. LineCourse(k, i)'
  <2>1. rows' = rows /\ Live' = Live
    BY <1>1 DEF mappingVars, Live
  <2>2. QED
    BY <1>3, <1>4, <1>5, <2>1 DEF LineCourse, Brought, Placed
<1>8. QED
  BY <1>1, <1>3, <1>4, <1>6, <1>7, QuietLineKeeps DEF Placed

LEMMA LineFailsKeeps ==
  ASSUME UploadInv, NEW k \in Uploads, NEW i \in DOMAIN upload[k].lines, LineFails(k, i)
  PROVE  UploadInv'
<1> DEFINE t == upload[k].lines[i]
<1>1. /\ Typed /\ t \in LineState /\ Disturbs({k}) /\ UNCHANGED <<mappingVars, active>>
      /\ Judged(k, i)
  BY LineOfFile DEF UploadInv, LineFails, Typed
<1>2. ASSUME NEW state \in LineState, upload' = [upload EXCEPT ![k].lines[i] = state]
      PROVE  /\ upload'[k].lines[i] = state /\ upload'[k].file = upload[k].file
             /\ Verdict(upload[k].file[i])' = Verdict(upload[k].file[i])
             /\ PairOf(upload[k].file[i])' = PairOf(upload[k].file[i])
             /\ rows' = rows /\ Live' = Live
  <2>1. Only(k, i, state)
    BY <1>1, <1>2, LineChanges
  <2>2. QED
    BY <1>1, <2>1 DEF Only, PairOf, Verdict, mappingVars, Live
<1>3. CASE LineAt(k, i) \in {"waiting", "undelete"} /\ upload' = [upload EXCEPT ![k].lines[i].at = "failed"]
  <2>1. upload[k].at = "lines" /\ t.at \in {"waiting", "undelete"}
    BY <1>3, LineIsAt
  <2>2. PICK state \in LineState :
          /\ upload' = [upload EXCEPT ![k].lines[i] = state]
          /\ state.at = "failed" /\ state.row = t.row /\ state.insert = t.insert
    <3>1. upload' = [upload EXCEPT ![k].lines[i] = [t EXCEPT !.at = "failed"]]
      BY <1>3
    <3>2. PICK state : state = [t EXCEPT !.at = "failed"]
      OBVIOUS
    <3>3. state \in LineState /\ state.at = "failed" /\ state.row = t.row /\ state.insert = t.insert
      BY <1>1, <3>2, LineStates
    <3>4. QED
      BY <3>1, <3>2, <3>3
  <2>3. Judged(k, i)'
    BY <1>1, <1>2, <2>2 DEF Judged, Placed
  <2>4. LineCourse(k, i) => LineCourse(k, i)'
    BY <1>2, <2>1, <2>2 DEF LineCourse, Brought, Placed
  <2>5. QED
    BY <1>1, <2>1, <2>2, <2>3, <2>4, QuietLineKeeps DEF Placed
<1>4. CASE LineAt(k, i) = "mapped" /\ upload' = [upload EXCEPT ![k].lines[i].at = "unsent"]
  <2>1. upload[k].at = "lines" /\ t.at = "mapped"
    BY <1>4, LineIsAt
  <2>2. PICK state \in LineState :
          /\ upload' = [upload EXCEPT ![k].lines[i] = state]
          /\ state.at = "unsent" /\ state.row = t.row /\ state.insert = t.insert
    <3>1. upload' = [upload EXCEPT ![k].lines[i] = [t EXCEPT !.at = "unsent"]]
      BY <1>4
    <3>2. PICK state : state = [t EXCEPT !.at = "unsent"]
      OBVIOUS
    <3>3. state \in LineState /\ state.at = "unsent" /\ state.row = t.row /\ state.insert = t.insert
      BY <1>1, <3>2, LineStates
    <3>4. QED
      BY <3>1, <3>2, <3>3
  <2>3. Judged(k, i)'
    BY <1>1, <1>2, <2>1, <2>2 DEF Judged, Placed
  <2>4. LineCourse(k, i) => LineCourse(k, i)'
    BY <1>2, <2>1, <2>2 DEF LineCourse, Brought, Placed
  <2>5. QED
    BY <1>1, <2>1, <2>2, <2>3, <2>4, QuietLineKeeps DEF Placed
<1>5. CASE i \in Inserting(k) /\ upload' = [upload EXCEPT ![k].lines[i].insert = "failed"]
  <2>1. t.insert = "sent"
    BY <1>5 DEF Inserting
  <2>2. PICK state \in LineState :
          /\ upload' = [upload EXCEPT ![k].lines[i] = state]
          /\ state.at = t.at /\ state.row = t.row /\ state.insert = "failed"
    BY <1>1, <1>5, LineStates
  <2>3. Judged(k, i)'
    BY <1>1, <1>2, <2>1, <2>2 DEF Judged, Placed
  <2>4. LineCourse(k, i) => LineCourse(k, i)'
    BY <1>2, <2>1, <2>2 DEF LineCourse, Brought, Placed
  <2>5. t # Waiting
    BY <2>1 DEF Waiting
  <2>6. QED
    BY <1>1, <2>2, <2>3, <2>4, <2>5, QuietLineKeeps
<1>6. QED
  BY <1>3, <1>4, <1>5 DEF LineFails

LEMMA LineUndeleteKeeps ==
  ASSUME UploadInv, NEW k \in Uploads, NEW i \in DOMAIN upload[k].lines, LineUndelete(k, i)
  PROVE  UploadInv'
<1> DEFINE line == upload[k].file[i]
           t == upload[k].lines[i]
           state == [Waiting EXCEPT !.at = "mapped"]
<1>1. /\ Typed /\ upload[k].at = "lines" /\ t.at = "undelete" /\ Judged(k, i)
      /\ upload' = [upload EXCEPT ![k].lines[i] = state] /\ Disturbs({k})
      /\ rows' = rows /\ deleted' = deleted \ {t.row} /\ supervisors' = supervisors
      /\ req' = req /\ suspects' = suspects /\ active' = active
  BY LineIsAt DEF UploadInv, Typed, LineUndelete, SetLine
<1>2. state \in LineState /\ state.at = "mapped" /\ state.insert = "none"
  BY DEF Waiting, LineState
<1> HIDE DEF state
<1>3. Only(k, i, state)
  BY <1>1, <1>2, LineChanges
<1>4. /\ upload'[k].lines[i] = state /\ upload'[k].file = upload[k].file
      /\ PairOf(line)' = PairOf(line) /\ Verdict(line)' = Verdict(line)
  BY <1>3 DEF Only, PairOf, Verdict
<1>5. Verdict(line) = "find"
  BY <1>1 DEF Judged
<1>6. Judged(k, i)' /\ Brought(k, i)'
  BY <1>2, <1>4, <1>5 DEF Judged, Brought, Placed
<1>7. MappingTypeOK' /\ RowsKnown' /\ active' \subseteq Users
  BY <1>1 DEF Typed, MappingTypeOK, RowsKnown
<1>8. ASSUME Mappings(k) PROVE Mappings(k)'
  <2>1. t.row \in DOMAIN rows /\ rows[t.row] = PairOf(line)
    BY <1>1, <1>8 DEF Mappings, LineCourse
  <2>2. Live' = Live \cup {t.row} /\ Grows
    BY <1>1, <2>1 DEF Live, Grows
  <2>3. LineCourse(k, i)'
    <3>1. t.row \in Live' /\ rows'[t.row] = PairOf(line)'
      BY <1>1, <1>4, <2>1, <2>2
    <3>2. QED
      BY <1>2, <1>4, <3>1 DEF LineCourse
  <2>4. \A j \in Live' \ Live : Brought(k, i)' /\ rows'[j] = PairOf(line)
    BY <1>1, <1>6, <2>1, <2>2
  <2>5. QED
    BY <1>3, <1>6, <1>8, <2>2, <2>3, <2>4, MappingsStep
<1>9. Access(k) => Access(k)'
  BY <1>1, <1>2, <1>3, AccessStep
<1>10. QED
  BY <1>1, <1>2, <1>6, <1>7, <1>8, <1>9, LineKeeps

LEMMA LineInsertLandsKeeps ==
  ASSUME UploadInv, NEW k \in Uploads, NEW i \in DOMAIN upload[k].lines, LineInsertLands(k, i)
  PROVE  UploadInv'
<1> DEFINE line == upload[k].file[i]
           t == upload[k].lines[i]
           n == Len(rows) + 1
           state == [t EXCEPT !.insert = "none"]
<1>1. /\ Typed /\ t.insert = "sent" /\ Judged(k, i)
      /\ upload' = [upload EXCEPT ![k].lines[i] = state] /\ Disturbs({k})
      /\ rows' = Append(rows, PairOf(line)) /\ deleted' = deleted /\ supervisors' = supervisors
      /\ req' = req /\ suspects' = suspects /\ active' = active
  BY DEF UploadInv, Typed, LineInsertLands, Inserting, PairOf
<1>2. line \in Line /\ t \in LineState
  BY <1>1, LineOfFile
<1>3. state \in LineState /\ state.at = t.at /\ state.row = t.row /\ state.insert = "none"
  BY <1>2, LineStates
<1>4. Verdict(line) = "find" /\ PairOf(line) \in Row
  BY <1>1, <1>2, Verdicts DEF Judged
<1>5. rows \in Seq(Row) /\ deleted \subseteq DOMAIN rows
  BY <1>1 DEF Typed, MappingTypeOK
<1>6. /\ rows' \in Seq(Row) /\ DOMAIN rows' = DOMAIN rows \cup {n} /\ n \notin DOMAIN rows
      /\ \A j \in DOMAIN rows : rows'[j] = rows[j]
      /\ rows'[n] = PairOf(line)
  BY <1>1, <1>4, <1>5, AppendKeepsRows
<1> HIDE DEF state, n
<1>7. Only(k, i, state)
  BY <1>1, <1>3, LineChanges
<1>8. /\ upload'[k].lines[i] = state /\ upload'[k].file = upload[k].file
      /\ PairOf(line)' = PairOf(line) /\ Verdict(line)' = Verdict(line)
  BY <1>7 DEF Only, PairOf, Verdict
<1>9. Judged(k, i)'
  BY <1>1, <1>3, <1>8 DEF Judged
<1>10. MappingTypeOK' /\ RowsKnown' /\ active' \subseteq Users
  BY <1>1, <1>6 DEF Typed, MappingTypeOK, RowsKnown
<1>11. Live' = Live \cup {n} /\ Grows
  BY <1>1, <1>5, <1>6 DEF Live, Grows
<1>12. ASSUME Mappings(k) PROVE Mappings(k)'
  <2>1. LineCourse(k, i) /\ Brought(k, i)
    BY <1>1, <1>12 DEF Mappings, LineCourse
  <2>2. Brought(k, i)'
    BY <1>3, <1>8, <2>1 DEF Brought
  <2>3. LineCourse(k, i)'
    <3>1. n \in Live' /\ rows'[n] = PairOf(line)'
      BY <1>6, <1>8, <1>11
    <3>2. t.at \in Placed
      BY <2>1 DEF Brought
    <3>3. QED
      BY <1>3, <1>8, <3>1, <3>2 DEF LineCourse, Placed
  <2>4. \A j \in Live' \ Live : Brought(k, i)' /\ rows'[j] = PairOf(line)
    BY <1>6, <1>11, <2>2
  <2>5. QED
    BY <1>7, <1>11, <1>12, <2>2, <2>3, <2>4, MappingsStep
<1>13. Access(k) => Access(k)'
  BY <1>1, <1>3, <1>7, AccessStep
<1>14. t # Waiting
  BY <1>1 DEF Waiting
<1>15. QED
  BY <1>1, <1>3, <1>9, <1>10, <1>12, <1>13, <1>14, LineKeeps

LEMMA LineWriteKeeps ==
  ASSUME UploadInv, NEW k \in Uploads, NEW i \in DOMAIN upload[k].lines, LineWrite(k, i)
  PROVE  UploadInv'
<1> DEFINE line == upload[k].file[i]
           t == upload[k].lines[i]
           state == [t EXCEPT !.at = "ok"]
<1>1. /\ Typed /\ upload[k].at = "lines" /\ t.at = "mapped" /\ Judged(k, i)
      /\ upload' = [upload EXCEPT ![k].lines[i] = state] /\ Disturbs({k})
      /\ rows' = rows /\ deleted' = deleted /\ req' = req /\ suspects' = suspects
      /\ active' = active \cup {line.user}
      /\ supervisors' = IF line.role = "SUPERVISOR" THEN supervisors \cup {line.user}
                        ELSE supervisors
  BY LineIsAt DEF UploadInv, Typed, LineWrite
<1>2. line \in Line /\ t \in LineState
  BY <1>1, LineOfFile
<1>3. state \in LineState /\ state.at = "ok" /\ state.row = t.row /\ state.insert = t.insert
  BY <1>2, LineStates
<1>4. line.user \in Users /\ Verdict(line) \in {"mapped", "find"}
  BY <1>1, <1>2, Verdicts DEF Judged, Placed
<1> HIDE DEF state
<1>5. Only(k, i, state)
  BY <1>1, <1>3, LineChanges
<1>6. /\ upload'[k].lines[i] = state /\ upload'[k].file = upload[k].file
      /\ upload'[k].at = "lines" /\ DOMAIN upload'[k].lines = DOMAIN upload[k].lines
      /\ PairOf(line)' = PairOf(line) /\ Verdict(line)' = Verdict(line)
  BY <1>1, <1>5 DEF Only, PairOf, Verdict
<1>7. Judged(k, i)' /\ (Brought(k, i) => Brought(k, i)')
  BY <1>1, <1>3, <1>4, <1>6 DEF Judged, Brought, Placed
<1>8. MappingTypeOK' /\ RowsKnown' /\ active' \subseteq Users
  BY <1>1, <1>4 DEF Typed, MappingTypeOK, RowsKnown
<1>9. Live' = Live /\ Grows
  BY <1>1 DEF Live, Grows
<1>10. ASSUME Mappings(k) PROVE Mappings(k)'
  <2>1. LineCourse(k, i)
    BY <1>10 DEF Mappings
  <2>2. LineCourse(k, i)'
    BY <1>1, <1>3, <1>6, <1>9, <2>1 DEF LineCourse, Brought, Placed
  <2>3. QED
    BY <1>5, <1>7, <1>9, <1>10, <2>2, MappingsStep
<1>11. ASSUME Access(k) PROVE Access(k)'
  <2>1. LinesAt(k, {"ok"})' = LinesAt(k, {"ok"}) \cup {i}
    BY <1>3, <1>5 DEF LinesAt, Only
  <2>2. { upload[k].file[j].user : j \in LinesAt(k, {"ok"}) }'
          = { upload[k].file[j].user : j \in LinesAt(k, {"ok"}) } \cup {line.user}
    BY <1>6, <2>1
  <2>3. Promoted(k)' = IF line.role = "SUPERVISOR" THEN Promoted(k) \cup {line.user} ELSE Promoted(k)
    BY <1>6, <2>1 DEF Promoted
  <2>4. /\ active \ Admins = { upload[k].file[j].user : j \in LinesAt(k, {"ok"}) } \ Admins
        /\ supervisors \ Admins = Promoted(k) \ Admins
    BY <1>1, <1>11 DEF Access
  <2>5. active' \ Admins = { upload[k].file[j].user : j \in LinesAt(k, {"ok"}) }' \ Admins
    BY <1>1, <2>2, <2>4
  <2>6. supervisors' \ Admins = Promoted(k)' \ Admins
    BY <1>1, <2>3, <2>4
  <2>7. QED
    BY <1>6, <2>5, <2>6 DEF Access
<1>12. QED
  BY <1>1, <1>3, <1>7, <1>8, <1>10, <1>11, LineKeeps

(* The statements of processCSV itself.                                    *)
LEMMA UploadMoves ==
  ASSUME Typed, NEW k \in Uploads, NEW at \in {"lines", "done", "failed"},
         upload' = [upload EXCEPT ![k].at = at]
  PROVE  /\ UploadsTyped'
         /\ upload'[k].at = at /\ upload'[k].file = upload[k].file /\ upload'[k].lines = upload[k].lines
         /\ \A q \in Uploads : \A i \in DOMAIN upload'[q].lines : Judged(q, i)'
<1>1. upload \in [Uploads -> UploadState] /\ upload[k] \in UploadState
  BY DEF Typed, UploadsTyped
<1>2. upload' = [upload EXCEPT ![k] = [upload[k] EXCEPT !.at = at]]
  OBVIOUS
<1>3. /\ upload'[k] = [upload[k] EXCEPT !.at = at]
      /\ \A q \in Uploads \ {k} : upload'[q] = upload[q]
  BY <1>1, <1>2
<1>4. upload'[k] = [at |-> at, file |-> upload[k].file, lines |-> upload[k].lines]
  BY <1>1, <1>3 DEF UploadState
<1>5. upload[k].file \in Files \cup {<<>>} /\ upload[k].lines \in Seq(LineState)
  BY <1>1 DEF UploadState
<1>6. /\ upload'[k] \in UploadState /\ upload'[k].at = at
      /\ upload'[k].file = upload[k].file /\ upload'[k].lines = upload[k].lines
  BY <1>4, <1>5 DEF UploadState
<1>7. upload' \in [Uploads -> UploadState]
  BY <1>1, <1>2, <1>3, <1>6
<1>8. \A q \in Uploads : upload'[q].file = upload[q].file /\ upload'[q].lines = upload[q].lines
  BY <1>3, <1>6
<1>9. UploadsTyped'
  BY <1>7, <1>8 DEF Typed, UploadsTyped
<1>10. \A q \in Uploads : \A i \in DOMAIN upload'[q].lines : Judged(q, i)'
  BY <1>8 DEF Typed, Judged
<1>11. QED
  BY <1>6, <1>9, <1>10

LEMMA UnmapAllKeeps ==
  ASSUME UploadInv, NEW k \in Uploads, UnmapAll(k)
  PROVE  UploadInv'
<1>1. /\ Typed /\ upload[k].at = "deactivated" /\ Disturbs({k})
      /\ upload' = [upload EXCEPT ![k].at = "lines"]
      /\ rows' = rows /\ deleted' = DOMAIN rows /\ supervisors' = supervisors
      /\ req' = req /\ suspects' = suspects /\ active' = active
  BY DEF UploadInv, UnmapAll
<1>2. /\ UploadsTyped' /\ upload'[k].at = "lines"
      /\ upload'[k].file = upload[k].file /\ upload'[k].lines = upload[k].lines
      /\ \A q \in Uploads : \A i \in DOMAIN upload'[q].lines : Judged(q, i)'
  BY <1>1, UploadMoves
<1>3. Typed'
  BY <1>1, <1>2, DisturbsTyped DEF Typed, MappingTypeOK, RowsKnown
<1>4. ASSUME k \notin disturbed PROVE Course(k)'
  <2>1. /\ \A i \in DOMAIN upload'[k].lines : upload'[k].lines[i] = Waiting
        /\ active' \subseteq Admins /\ supervisors' \subseteq Admins
    BY <1>1, <1>2, <1>4 DEF UploadInv, Course, Access
  <2>2. Waiting.at = "waiting" /\ Waiting.insert = "none"
    BY DEF Waiting
  <2>3. LinesAt(k, {"ok"})' = {}
    BY <2>1, <2>2 DEF LinesAt
  <2>4. Access(k)'
    BY <1>2, <2>1, <2>3 DEF Access, Promoted
  <2>5. Live' = {}
    BY <1>1 DEF Live
  <2>6. Mappings(k)'
    BY <2>1, <2>2, <2>5 DEF Mappings, LineCourse, Brought, Placed
  <2>7. QED
    BY <1>2, <2>4, <2>6 DEF Course
<1>5. QED
  BY <1>1, <1>3, <1>4, Undisturbed

LEMMA UploadFailsKeeps ==
  ASSUME UploadInv, NEW k \in Uploads, UploadFails(k)
  PROVE  UploadInv'
<1>1. /\ Typed /\ Disturbs({k}) /\ upload' = [upload EXCEPT ![k].at = "failed"]
      /\ rows' = rows /\ deleted' = deleted /\ supervisors' = supervisors
      /\ req' = req /\ suspects' = suspects /\ active' = active
  BY DEF UploadInv, UploadFails, mappingVars
<1>2. /\ UploadsTyped' /\ upload'[k].at = "failed"
      /\ \A q \in Uploads : \A i \in DOMAIN upload'[q].lines : Judged(q, i)'
  BY <1>1, UploadMoves
<1>3. Typed'
  BY <1>1, <1>2, DisturbsTyped DEF Typed, MappingTypeOK, RowsKnown
<1>4. Course(k)'
  BY <1>2 DEF Course, Access
<1>5. QED
  BY <1>1, <1>3, <1>4, Undisturbed

LEMMA PromoteSupervisorsKeeps ==
  ASSUME UploadInv, NEW k \in Uploads, PromoteSupervisors(k)
  PROVE  UploadInv'
<1> DEFINE bosses == { upload[k].file[i].supervisor : i \in LinesAt(k, {"ok", "unsent"}) } \cap Users
           users == { upload[k].file[i].user : i \in LinesAt(k, {"ok"}) }
<1>1. /\ Typed /\ AllAnswered(k) /\ Disturbs({k}) /\ upload' = [upload EXCEPT ![k].at = "done"]
      /\ rows' = rows /\ deleted' = deleted /\ req' = req /\ suspects' = suspects
      /\ supervisors' = supervisors \cup (UploadedSupervisors(k) \cap Users)
      /\ active' = active \cup (UploadedSupervisors(k) \cap Users)
  BY DEF UploadInv, PromoteSupervisors
<1>2. /\ UploadsTyped' /\ upload'[k].at = "done"
      /\ upload'[k].file = upload[k].file /\ upload'[k].lines = upload[k].lines
      /\ \A q \in Uploads : \A i \in DOMAIN upload'[q].lines : Judged(q, i)'
  BY <1>1, UploadMoves
<1>3. bosses = UploadedSupervisors(k) \cap Users
  BY DEF UploadedSupervisors, LinesAt
<1>4. Typed'
  BY <1>1, <1>2, DisturbsTyped DEF Typed, MappingTypeOK, RowsKnown
<1>5. ASSUME k \notin disturbed PROVE Course(k)'
  <2>1. upload[k].at = "lines" /\ \A i \in DOMAIN upload[k].lines : upload[k].lines[i].at \in Answered
    BY <1>1 DEF AllAnswered, LineAt, Answered
  <2>2. Mappings(k) /\ active \ Admins = users \ Admins /\ supervisors \ Admins = Promoted(k) \ Admins
    BY <1>5, <2>1 DEF UploadInv, Course, Access
  <2>3. Mappings(k)'
    <3>1. rows' = rows /\ Live' = Live
      BY <1>1 DEF Live
    <3>2. \A i : PairOf(upload[k].file[i])' = PairOf(upload[k].file[i])
      BY <1>2 DEF PairOf
    <3>3. \A i : Brought(k, i)' <=> Brought(k, i)
      BY <1>2 DEF Brought
    <3>4. \A i \in DOMAIN upload[k].lines : LineCourse(k, i) => LineCourse(k, i)'
      BY <1>2, <3>1, <3>2, <3>3 DEF LineCourse
    <3>5. QED
      BY <1>2, <2>2, <3>1, <3>2, <3>3, <3>4 DEF Mappings
  <2>4. /\ LinesAt(k, {"ok"})' = LinesAt(k, {"ok"})
        /\ LinesAt(k, {"ok", "unsent"})' = LinesAt(k, {"ok", "unsent"})
        /\ LinesAt(k, Answered)' = DOMAIN upload'[k].lines
    BY <1>2, <2>1 DEF LinesAt
  <2>5. bosses' = bosses /\ users' = users /\ Promoted(k)' = Promoted(k)
    BY <1>2, <2>4 DEF Promoted
  <2>6. /\ active' \ Admins = (bosses \cup users) \ Admins
        /\ supervisors' \ Admins = (bosses \cup Promoted(k)) \ Admins
    BY <1>1, <1>3, <2>2
  <2>7. Access(k)'
    BY <1>2, <2>4, <2>5, <2>6 DEF Access
  <2>8. QED
    BY <1>2, <2>3, <2>7 DEF Course
<1>6. QED
  BY <1>1, <1>4, <1>5, Undisturbed

LEMMA DeactivateKeeps ==
  ASSUME UploadInv, NEW k \in Uploads, NEW file \in Files, Deactivate(k, file)
  PROVE  UploadInv'
<1> DEFINE lines == [i \in DOMAIN file |-> Waiting]
           state == [at |-> "deactivated", file |-> file, lines |-> lines]
<1>1. /\ Typed /\ upload' = [upload EXCEPT ![k] = state]
      /\ active' = active \cap Admins /\ supervisors' = supervisors \cap Admins
      /\ rows' = rows /\ deleted' = deleted /\ req' = req /\ suspects' = suspects
      /\ disturbed' \in {Uploads \ {k}, Uploads}
  BY DEF UploadInv, Deactivate
<1>2. /\ DOMAIN lines = DOMAIN file /\ \A i \in DOMAIN file : lines[i] = Waiting
      /\ lines \in Seq(LineState)
  <2>1. file \in Seq(Line)
    BY UploadAssumption
  <2>2. DOMAIN file = 1 .. Len(file) /\ Len(file) \in Nat
    BY <2>1
  <2>3. lines \in [1 .. Len(file) -> LineState]
    BY <2>2, LineStates
  <2>4. QED
    BY <2>2, <2>3, SeqDef
<1> HIDE DEF lines
<1>3. state \in UploadState /\ state.at = "deactivated" /\ state.file = file /\ state.lines = lines
  BY <1>2 DEF UploadState
<1> HIDE DEF state
<1>4. /\ upload' \in [Uploads -> UploadState] /\ upload'[k] = state
      /\ \A q \in Uploads \ {k} : upload'[q] = upload[q]
  BY <1>1, <1>3 DEF Typed, UploadsTyped
<1>5. UploadsTyped'
  BY <1>1, <1>2, <1>3, <1>4 DEF Typed, UploadsTyped
<1>6. ASSUME NEW q \in Uploads, NEW i \in DOMAIN upload'[q].lines PROVE Judged(q, i)'
  <2>1. CASE q = k
    <3>1. upload'[q].lines[i] = Waiting
      BY <1>2, <1>3, <1>4, <1>6, <2>1
    <3>2. QED
      BY <3>1 DEF Judged, Waiting, Placed
  <2>2. CASE q # k
    BY <1>1, <1>4, <1>6, <2>2 DEF Typed, Judged
  <2>3. QED
    BY <2>1, <2>2
<1>7. Typed'
  BY <1>1, <1>5, <1>6 DEF Typed, MappingTypeOK, RowsKnown
<1>8. Course(k)'
  BY <1>1, <1>2, <1>3, <1>4 DEF Course, Access
<1>9. QED
  BY <1>1, <1>7, <1>8 DEF UploadInv

LEMMA ActivateKeeps ==
  ASSUME UploadInv, NEW u \in Users, Activate(u)
  PROVE  UploadInv'
<1>1. /\ Typed /\ upload' = upload /\ active' = active \cup {u} /\ disturbed' = disturbed \cup Uploads
      /\ rows' = rows /\ deleted' = deleted /\ supervisors' = supervisors
      /\ req' = req /\ suspects' = suspects
  BY DEF UploadInv, Activate, Disturbs, mappingVars
<1>2. Typed'
  BY <1>1 DEF Typed, MappingTypeOK, RowsKnown, UploadsTyped, Judged
<1>3. QED
  BY <1>1, <1>2 DEF UploadInv

(* The requests of SupervisorMapping keep the types, whatever the uploads  *)
(* have done to what those requests read.                                  *)
LEMMA RequestTyped ==
  ASSUME MappingTypeOK, RowsKnown, NEW r \in Requests, NEW t \in {Idle} \cup Tasks,
         req' = [req EXCEPT ![r] = t], suspects' \subseteq Users, supervisors' \subseteq Users,
         rows' \in Seq(Row), DOMAIN rows \subseteq DOMAIN rows', deleted' \subseteq DOMAIN rows',
         \A i \in DOMAIN rows : rows'[i] = rows[i],
         t.at \in {"undelete", "remove"} =>
           t.row \in DOMAIN rows /\ rows[t.row].supervisor = t.supervisor
  PROVE  MappingTypeOK' /\ RowsKnown'
<1>1. /\ req' \in [Requests -> {Idle} \cup Tasks] /\ req'[r] = t
      /\ \A q \in Requests \ {r} : req'[q] = req[q]
  BY OnlyOneRequest DEF MappingTypeOK
<1>2. RowsKnown'
  BY <1>1 DEF RowsKnown
<1>3. QED
  BY <1>1, <1>2 DEF MappingTypeOK

LEMMA RequestsTyped ==
  ASSUME MappingTypeOK, RowsKnown, MappingNext
  PROVE  MappingTypeOK' /\ RowsKnown'
<1>1. PICK r \in Requests :
        \/ \E u, s \in Users : AssignCheck(r, u, s)
        \/ \E i \in DOMAIN rows : RemoveFind(r, i)
        \/ \E s \in Users, role \in Roles : UpdateRead(r, s, role)
        \/ Continue(r)
        \/ RequestFails(r)
  BY DEF MappingNext
<1>2. /\ supervisors \subseteq Users /\ rows \in Seq(Row) /\ deleted \subseteq DOMAIN rows
      /\ suspects \subseteq Users /\ req[r] \in {Idle} \cup Tasks
      /\ \A i \in DOMAIN rows : rows[i] \in Row /\ i \in Nat
  <2>1. rows \in Seq(Row)
    BY DEF MappingTypeOK
  <2>2. QED
    BY <2>1 DEF MappingTypeOK
<1>3. Idle \in {Idle} \cup Tasks /\ Idle.at \notin {"undelete", "remove"}
  BY DEF Idle
<1>4. ASSUME NEW u \in Users, NEW s \in Users, AssignCheck(r, u, s)
      PROVE  MappingTypeOK' /\ RowsKnown'
  <2> DEFINE t == [at |-> "checked", user |-> u, supervisor |-> s]
  <2>1. t \in Tasks /\ t.at = "checked" /\ t.supervisor = s
    BY DEF Tasks
  <2>2. /\ req' = [req EXCEPT ![r] = t] /\ suspects' \subseteq suspects \cup {s}
        /\ UNCHANGED <<supervisors, rows, deleted>>
    BY <1>4 DEF AssignCheck, Begin
  <2> HIDE DEF t
  <2>3. QED
    BY <1>2, <2>1, <2>2, RequestTyped
<1>5. ASSUME NEW i \in DOMAIN rows, RemoveFind(r, i)
      PROVE  MappingTypeOK' /\ RowsKnown'
  <2> DEFINE t == [at |-> "remove", supervisor |-> rows[i].supervisor, row |-> i]
  <2>1. t \in Tasks /\ t.row = i /\ t.supervisor = rows[i].supervisor /\ t.supervisor \in Users
    BY <1>2 DEF Tasks, Row
  <2>2. /\ req' = [req EXCEPT ![r] = t] /\ suspects' \subseteq suspects \cup {t.supervisor}
        /\ UNCHANGED <<supervisors, rows, deleted>>
    BY <1>5 DEF RemoveFind, Begin
  <2> HIDE DEF t
  <2>3. QED
    BY <1>2, <2>1, <2>2, RequestTyped
<1>6. ASSUME NEW s \in Users, NEW role \in Roles, UpdateRead(r, s, role)
      PROVE  MappingTypeOK' /\ RowsKnown'
  <2> DEFINE t == [at |-> "update", supervisor |-> s, role |-> role,
                   was |-> IF s \in supervisors THEN "SUPERVISOR" ELSE "USER"]
  <2>1. t \in Tasks /\ t.at = "update" /\ t.supervisor = s
    BY DEF Tasks
  <2>2. /\ req' = [req EXCEPT ![r] = t] /\ suspects' \subseteq suspects \cup {s}
        /\ UNCHANGED <<supervisors, rows, deleted>>
    BY <1>6 DEF UpdateRead, Begin
  <2> HIDE DEF t
  <2>3. QED
    BY <1>2, <2>1, <2>2, RequestTyped
<1>7. CASE AssignFind(r)
  <2>1. /\ req[r].user \in Users /\ req[r].supervisor \in Users
        /\ UNCHANGED <<supervisors, rows, deleted, suspects>>
    BY <1>2, <1>7, TaskFields DEF AssignFind, Become
  <2>2. PICK t \in {Idle} \cup Tasks :
          /\ req' = [req EXCEPT ![r] = t]
          /\ t.at \in {"undelete", "remove"} =>
               t.row \in DOMAIN rows /\ rows[t.row].supervisor = t.supervisor
    <3> DEFINE u == req[r].user
               s == req[r].supervisor
    <3>1. CASE Become(r, [at |-> "insert", user |-> u, supervisor |-> s])
      <4>1. PICK t : t = [at |-> "insert", user |-> u, supervisor |-> s]
        OBVIOUS
      <4>2. t \in Tasks /\ t.at = "insert"
        BY <2>1, <4>1 DEF Tasks
      <4>3. QED
        BY <3>1, <4>1, <4>2 DEF Become
    <3>2. CASE Become(r, Idle)
      BY <1>3, <3>2 DEF Become
    <3>3. CASE \E i \in RowsOf(u, s) : Become(r, [at |-> "undelete", supervisor |-> s, row |-> i])
      <4>1. PICK i \in RowsOf(u, s) : Become(r, [at |-> "undelete", supervisor |-> s, row |-> i])
        BY <3>3
      <4>2. i \in DOMAIN rows /\ i \in Nat /\ rows[i].supervisor = s
        BY <1>2 DEF RowsOf
      <4>3. PICK t : t = [at |-> "undelete", supervisor |-> s, row |-> i]
        OBVIOUS
      <4>4. t \in Tasks /\ t.row = i /\ t.supervisor = s
        BY <2>1, <4>2, <4>3 DEF Tasks
      <4>5. QED
        BY <4>1, <4>2, <4>3, <4>4 DEF Become
    <3>4. QED
      BY <1>7, <3>1, <3>2, <3>3 DEF AssignFind
  <2>3. QED
    BY <1>2, <2>1, <2>2, RequestTyped
<1>8. CASE InsertLands(r)
  <2>1. [user |-> req[r].user, supervisor |-> req[r].supervisor] \in Row
    BY <1>2, <1>8, TaskFields DEF InsertLands, Row
  <2>2. /\ rows' \in Seq(Row) /\ DOMAIN rows \subseteq DOMAIN rows'
        /\ \A i \in DOMAIN rows : rows'[i] = rows[i]
    BY <1>2, <1>8, <2>1, AppendKeepsRows DEF InsertLands
  <2>3. QED
    BY <1>2, <1>3, <1>8, <2>2, RequestTyped DEF InsertLands, Become
<1>9. CASE AssignUndelete(r)
  BY <1>2, <1>3, <1>9, RequestTyped DEF AssignUndelete, Become
<1>10. CASE RemoveDelete(r)
  <2>1. deleted' \subseteq DOMAIN rows
    BY <1>2, <1>10 DEF RemoveDelete, RowsKnown
  <2>2. QED
    BY <1>2, <1>3, <1>10, <2>1, RequestTyped DEF RemoveDelete, Become
<1>11. CASE UpdateUnmap(r)
  <2>1. deleted' \subseteq DOMAIN rows
    BY <1>2, <1>11 DEF UpdateUnmap
  <2>2. QED
    BY <1>2, <1>3, <1>11, <2>1, RequestTyped DEF UpdateUnmap, Become
<1>12. CASE UpdateWrite(r)
  <2> DEFINE s == req[r].supervisor
  <2>1. s \in Users
    BY <1>2, <1>12, TaskFields DEF UpdateWrite
  <2>2. supervisors' \subseteq Users /\ UNCHANGED <<rows, deleted, suspects>>
    BY <1>2, <1>12, <2>1 DEF UpdateWrite, Become
  <2>3. [at |-> "unmap", supervisor |-> s] \in Tasks
    BY <2>1 DEF Tasks
  <2>4. PICK t \in {Idle} \cup Tasks :
          req' = [req EXCEPT ![r] = t] /\ t.at \notin {"undelete", "remove"}
    BY <1>3, <1>12, <2>3 DEF UpdateWrite, Become
  <2>5. QED
    BY <1>2, <2>2, <2>4, RequestTyped
<1>13. CASE RequestFails(r)
  <2>1. suspects' \subseteq Users
    BY <1>2, <1>13, TaskFields DEF RequestFails
  <2>2. QED
    BY <1>2, <1>3, <1>13, <2>1, RequestTyped DEF RequestFails
<1>14. QED
  BY <1>1, <1>4, <1>5, <1>6, <1>7, <1>8, <1>9, <1>10, <1>11, <1>12, <1>13 DEF Continue

LEMMA RequestsKeep ==
  ASSUME UploadInv, MappingNext, Disturbs({}), UNCHANGED <<active, upload>>
  PROVE  UploadInv'
<1>1. Typed /\ upload' = upload /\ active' = active /\ disturbed' = disturbed \cup Uploads
  BY DEF UploadInv, Disturbs
<1>2. MappingTypeOK' /\ RowsKnown'
  BY <1>1, RequestsTyped DEF Typed
<1>3. Typed'
  BY <1>1, <1>2 DEF Typed, UploadsTyped, Judged
<1>4. QED
  BY <1>1, <1>3 DEF UploadInv

LEMMA UploadInvInit == Init => UploadInv
<1> SUFFICES ASSUME Init PROVE UploadInv
  OBVIOUS
<1>1. MappingTypeOK /\ RowsKnown
  BY InitEstablishes DEF Init, MappingInv
<1>2. \A k \in Uploads : upload[k] = NoUpload
  BY DEF Init
<1>3. NoUpload \in UploadState /\ NoUpload.at = "idle" /\ NoUpload.lines = <<>> /\ NoUpload.file = <<>>
  <2>1. <<>> \in Seq(LineState)
    OBVIOUS
  <2>2. QED
    BY <2>1 DEF NoUpload, UploadState
<1>4. upload \in [Uploads -> UploadState]
  BY <1>3 DEF Init
<1>5. Typed
  BY <1>1, <1>2, <1>3, <1>4, UploadAssumption DEF Init, Typed, UploadsTyped
<1>6. \A k \in Uploads : Course(k)
  BY <1>2, <1>3 DEF Course, Access
<1>7. QED
  BY <1>5, <1>6 DEF UploadInv

LEMMA UploadInvNext == UploadInv /\ [Next]_vars => UploadInv'
<1> SUFFICES ASSUME UploadInv, [Next]_vars PROVE UploadInv'
  OBVIOUS
<1>1. CASE MappingNext /\ Disturbs({}) /\ UNCHANGED <<active, upload>>
  BY <1>1, RequestsKeep
<1>2. ASSUME NEW u \in Users, Activate(u) PROVE UploadInv'
  BY <1>2, ActivateKeeps
<1>3. ASSUME NEW k \in Uploads, NEW file \in Files, Deactivate(k, file) PROVE UploadInv'
  BY <1>3, DeactivateKeeps
<1>4. ASSUME NEW k \in Uploads, UploadStep(k) \/ UploadFails(k) PROVE UploadInv'
  BY <1>4, UnmapAllKeeps, PromoteSupervisorsKeeps, LineFindKeeps, LineUndeleteKeeps,
     LineWriteKeeps, UploadFailsKeeps DEF UploadStep, Awaited
<1>5. ASSUME NEW k \in Uploads, NEW i \in DOMAIN upload[k].lines,
             LineInsertLands(k, i) \/ LineFails(k, i)
      PROVE  UploadInv'
  BY <1>5, LineInsertLandsKeeps, LineFailsKeeps
<1>6. CASE UNCHANGED vars
  <2>1. /\ supervisors' = supervisors /\ rows' = rows /\ deleted' = deleted /\ req' = req
        /\ suspects' = suspects /\ active' = active /\ upload' = upload /\ disturbed' = disturbed
    BY <1>6 DEF vars, mappingVars, uploadVars
  <2>2. Typed'
    BY <2>1 DEF UploadInv, Typed, MappingTypeOK, RowsKnown, UploadsTyped, Judged
  <2>3. ASSUME NEW k, Course(k) PROVE Course(k)'
    <3>1. Live' = Live /\ Promoted(k)' = Promoted(k) /\ \A places : LinesAt(k, places)' = LinesAt(k, places)
      BY <2>1 DEF Live, Promoted, LinesAt
    <3>2. Access(k)' <=> Access(k)
      BY <2>1, <3>1 DEF Access
    <3>3. Mappings(k)' <=> Mappings(k)
      BY <2>1, <3>1 DEF Mappings, LineCourse, Brought
    <3>4. QED
      BY <2>1, <2>3, <3>2, <3>3 DEF Course
  <2>4. QED
    BY <2>1, <2>2, <2>3 DEF UploadInv
<1>7. QED
  BY <1>1, <1>2, <1>3, <1>4, <1>5, <1>6 DEF Next

LEMMA UploadInvariant == Spec => []UploadInv
BY UploadInvInit, UploadInvNext, PTL DEF Spec

(* What UploadInv says when an undisturbed upload is done.                 *)
LEMMA UploadDone ==
  ASSUME UploadInv, NEW k \in Uploads \ disturbed, upload[k].at = "done", Inserting(k) = {}
  PROVE  LET file == upload[k].file
             mapped == { rows[j] : j \in Live }
             bosses == { file[i].supervisor : i \in Assigned(k) }
         IN  /\ mapped \subseteq { PairOf(file[i]) : i \in Assigned(k) }
             /\ \A i \in Assigned(k) :
                  upload[k].lines[i].insert # "failed" => PairOf(file[i]) \in mapped
             /\ active \ Admins = (bosses \cup { file[i].user : i \in Written(k) }) \ Admins
             /\ supervisors \ Admins =
                  (bosses \cup { file[i].user : i \in { j \in Written(k) :
                                                    file[j].role = "SUPERVISOR" } }) \ Admins
<1> DEFINE lines == upload[k].lines
           file == upload[k].file
<1>1. Typed /\ Mappings(k) /\ Access(k) /\ DOMAIN lines = DOMAIN file
  BY DEF UploadInv, Course, Typed, UploadsTyped
<1>2. ASSUME NEW i \in DOMAIN lines
      PROVE  /\ file[i] \in Line /\ lines[i] \in LineState /\ Judged(k, i) /\ LineCourse(k, i)
             /\ lines[i].at \in Answered
             /\ i \in Accepted(k) <=> Verdict(file[i]) \in {"mapped", "find"}
  <2>1. file[i] \in Line /\ lines[i] \in LineState
    BY <1>1, LineOfFile
  <2>2. lines[i].at \in Answered
    BY <1>1 DEF Access, LinesAt
  <2>3. i \in Accepted(k) <=> Verdict(file[i]) \in {"mapped", "find"}
    BY <1>1, <2>1, Verdicts DEF Accepted
  <2>4. QED
    BY <1>1, <2>1, <2>2, <2>3 DEF Typed, Mappings
<1>3. Accepted(k) \subseteq DOMAIN lines
  BY <1>1 DEF Accepted
<1>4. Mapped(k) = LinesAt(k, {"ok", "unsent"})
  <2>1. ASSUME NEW i \in Mapped(k) PROVE i \in LinesAt(k, {"ok", "unsent"})
    <3>1. i \in DOMAIN lines /\ i \in Accepted(k) /\ lines[i].at # "failed"
      BY <1>3, <2>1 DEF Mapped
    <3>2. lines[i].at \in Answered /\ Verdict(file[i]) \in {"mapped", "find"} /\ LineCourse(k, i)
      BY <1>2, <3>1
    <3>3. lines[i].at \notin {"refused", "skipped"}
      BY <3>2 DEF LineCourse
    <3>4. QED
      BY <3>1, <3>2, <3>3 DEF LinesAt, Answered
  <2>2. ASSUME NEW i \in LinesAt(k, {"ok", "unsent"}) PROVE i \in Mapped(k)
    <3>1. i \in DOMAIN lines /\ lines[i].at \in {"ok", "unsent"}
      BY <2>2 DEF LinesAt
    <3>2. Verdict(file[i]) \in {"mapped", "find"}
      BY <1>2, <3>1 DEF Judged, Placed
    <3>3. QED
      BY <1>2, <3>1, <3>2 DEF Mapped
  <2>3. QED
    BY <2>1, <2>2
<1>5. Written(k) = LinesAt(k, {"ok"})
  BY <1>4 DEF Written, LinesAt
<1>6. ASSUME NEW i \in Mapped(k)
      PROVE  /\ i \in DOMAIN lines /\ lines[i].at \in Placed
             /\ i \in Assigned(k) <=> Verdict(file[i]) = "find"
             /\ i \in Assigned(k) => file[i].supervisor \in Users
             /\ i \notin Assigned(k) => file[i].supervisor = None
  <2>1. i \in DOMAIN lines /\ lines[i].at \in {"ok", "unsent"}
    BY <1>4, <1>6 DEF LinesAt
  <2>2. Verdict(file[i]) \in {"mapped", "find"} /\ file[i] \in Line
    BY <1>2, <2>1 DEF Judged, Placed
  <2>3. /\ Verdict(file[i]) = "find" <=> file[i].supervisor # None
        /\ Verdict(file[i]) = "find" => file[i].supervisor \in Users
    BY <2>2, Verdicts
  <2>4. QED
    BY <1>6, <2>1, <2>3 DEF Assigned, Placed
<1>7. ASSUME NEW j \in Live PROVE rows[j] \in { PairOf(file[i]) : i \in Assigned(k) }
  <2>1. PICK i \in DOMAIN lines : Brought(k, i) /\ rows[j] = PairOf(file[i])
    BY <1>1 DEF Mappings
  <2>2. lines[i].at \in Answered /\ lines[i].at \in Placed /\ Verdict(file[i]) = "find"
    BY <1>2, <2>1 DEF Brought
  <2>3. i \in Mapped(k)
    BY <1>4, <2>2 DEF LinesAt, Answered, Placed
  <2>4. QED
    BY <1>6, <2>1, <2>2, <2>3
<1>8. ASSUME NEW i \in Assigned(k), lines[i].insert # "failed"
      PROVE  PairOf(file[i]) \in { rows[j] : j \in Live }
  <2>1. i \in Mapped(k)
    BY DEF Assigned
  <2>2. i \in DOMAIN lines /\ Brought(k, i)
    BY <1>6, <2>1 DEF Brought
  <2>3. lines[i].insert # "sent" /\ lines[i].insert \in {"none", "sent", "failed"}
    BY <1>2, <2>2 DEF Inserting, LineState
  <2>4. LineCourse(k, i)
    BY <1>2, <2>2
  <2>5. PICK j \in Live : rows[j] = PairOf(file[i])
    BY <1>8, <2>2, <2>3, <2>4 DEF LineCourse
  <2>6. QED
    BY <2>5
<1>9. { file[i].supervisor : i \in Assigned(k) }
        = { file[i].supervisor : i \in LinesAt(k, {"ok", "unsent"}) } \cap Users
  <2>1. Assigned(k) \subseteq Mapped(k) /\ None \notin Users
    BY UploadAssumption DEF Assigned
  <2>2. QED
    BY <1>4, <1>6, <2>1
<1>10. { file[i].user : i \in { j \in Written(k) : file[j].role = "SUPERVISOR" } } = Promoted(k)
  BY <1>5 DEF Promoted
<1>11. /\ active \ Admins = ({ file[i].supervisor : i \in Assigned(k) }
                              \cup { file[i].user : i \in Written(k) }) \ Admins
       /\ supervisors \ Admins = ({ file[i].supervisor : i \in Assigned(k) } \cup Promoted(k)) \ Admins
  BY <1>1, <1>5, <1>9 DEF Access
<1>12. QED
  BY <1>7, <1>8, <1>10, <1>11

LEMMA TypedIsTypeOK == Typed => TypeOK
<1> SUFFICES ASSUME Typed, NEW k \in Uploads
             PROVE  /\ upload[k].at \in {"idle", "deactivated", "lines", "done", "failed"}
                    /\ upload[k].file \in Files \cup {<<>>}
                    /\ upload[k].lines \in Seq(LineState)
                    /\ Len(upload[k].lines) = Len(upload[k].file)
  BY DEF Typed, TypeOK
<1>1. /\ upload[k].at \in {"idle", "deactivated", "lines", "done", "failed"}
      /\ upload[k].file \in Files \cup {<<>>}
      /\ upload[k].lines \in Seq(LineState)
      /\ DOMAIN upload[k].lines = DOMAIN upload[k].file
  BY DEF Typed, UploadsTyped, UploadState
<1>2. upload[k].file \in Seq(Line)
  BY <1>1, UploadAssumption
<1>3. Len(upload[k].lines) = Len(upload[k].file)
  BY <1>1, <1>2, LenProperties
<1>4. QED
  BY <1>1, <1>3

(* For any users, files and number of uploads and requests: an upload that *)
(* ran without another writer leaves the mappings, the users with access   *)
(* and the supervisors that its file says and no others, whatever was left *)
(* before it and whichever of its lines failed.                            *)
THEOREM UploadLeavesTheFile == Spec => []UploadIsTheFile
<1>1. UploadInv => UploadIsTheFile
  <2> SUFFICES ASSUME UploadInv PROVE UploadIsTheFile
    OBVIOUS
  <2>1. TypeOK
    BY TypedIsTypeOK DEF UploadInv
  <2>2. QED
    BY <2>1, UploadDone DEF UploadIsTheFile
<1>2. QED
  BY <1>1, UploadInvariant, PTL
=============================================================================
