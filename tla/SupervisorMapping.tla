-------------------------- MODULE SupervisorMapping --------------------------
(***************************************************************************)
(* Who supervises whom in one tenant: the column isSupervisor of           *)
(* provider_users and the table provider_users_supervisors, under the      *)
(* concurrent requests of src/client/user/user.service.ts that change      *)
(* them: addSupervisorMapping (assignSupervisor for every email of the     *)
(* request, concurrently), removeSupervisorMapping and update.             *)
(*                                                                         *)
(* A request is a series of statements; none holds a transaction, so       *)
(* requests interleave at every await.  Only awaits that read or write     *)
(* these tables are steps here; a request that is refused changes nothing  *)
(* and is no step.  assignSupervisor does not await the create of a new    *)
(* row: the request is answered while the INSERT is still under way.       *)
(*                                                                         *)
(* Rows are never removed from the table, so its content is the sequence   *)
(* of all rows (a row's id is its place) and the set of ids with           *)
(* is_deleted.  Nothing in the schema makes (user_id, supervisor_id)       *)
(* unique.                                                                 *)
(***************************************************************************)
EXTENDS Naturals, Sequences, FiniteSets

CONSTANTS Users,
          Requests,     \* bounds how many requests are served at once
          MaxRows       \* bounds the rows of the table

ASSUME RowBoundAssumption == MaxRows \in Nat

VARIABLES supervisors,  \* the users with isSupervisor
          rows,         \* the rows of provider_users_supervisors
          deleted,      \* the ids of the rows with is_deleted
          req,          \* the requests in service
          suspects      \* history, read by no action: see Begin

mappingVars == <<supervisors, rows, deleted, req, suspects>>

Row == [user : Users, supervisor : Users]

Roles == {"none", "USER", "SUPERVISOR"}   \* of an update: "none" gives no role

Idle == [at |-> "idle"]

Tasks ==
  (* The supervisor is checked, the mapping not looked up yet; and the     *)
  (* request is answered, its INSERT under way.                            *)
  [at : {"checked", "insert"}, user : Users, supervisor : Users]
    \cup (* A row is found and about to be written.                        *)
  [at : {"undelete", "remove"}, supervisor : Users, row : Nat]
    \cup (* The user is read; was is the role the snapshot gives it.       *)
  [at : {"update"}, supervisor : Users, role : Roles, was : {"USER", "SUPERVISOR"}]
    \cup (* The role is written, the mappings are about to be deleted.     *)
  [at : {"unmap"}, supervisor : Users]

MappingInit ==
  /\ supervisors \in SUBSET Users
  /\ rows = <<>>
  /\ deleted = {}
  /\ req = [r \in Requests |-> Idle]
  /\ suspects = {}

Live == DOMAIN rows \ deleted

RowsOf(u, s) == { i \in DOMAIN rows : rows[i] = [user |-> u, supervisor |-> s] }

Busy(r) == req[r].at # "idle"

Adds(t) == t.at \in {"checked", "insert"}

Assigns(t) == t.at \in {"checked", "insert", "undelete"}

Updates(t) == t.at \in {"update", "unmap"}

(* Overlapping requests that the code does not keep apart: an update and   *)
(* an assignment or another update of the same supervisor, and two         *)
(* assignments that both look for the same mapping before either has       *)
(* inserted it.  A removal is in nobody's way.                             *)
Conflict(t, v) ==
  /\ t.supervisor = v.supervisor
  /\ \/ Updates(t) /\ (Assigns(v) \/ Updates(v))
     \/ Updates(v) /\ Assigns(t)
     \/ Adds(t) /\ Adds(v) /\ t.user = v.user

(* Request r begins with task t.  When it conflicts with one in service,   *)
(* its supervisor becomes a suspect for good.                              *)
Begin(r, t) ==
  /\ ~Busy(r)
  /\ req' = [req EXCEPT ![r] = t]
  /\ suspects' = IF \E q \in Requests : Busy(q) /\ Conflict(t, req[q])
                 THEN suspects \cup {t.supervisor} ELSE suspects

Become(r, t) == req' = [req EXCEPT ![r] = t] /\ UNCHANGED suspects

HasRoom == Len(rows) + Cardinality({ r \in Requests : Adds(req[r]) }) < MaxRows

(* assignSupervisor up to the await of userSupervisorDao.findOne: refuses  *)
(* the user itself and whoever is no supervisor.                           *)
AssignCheck(r, u, s) ==
  /\ HasRoom
  /\ u # s
  /\ s \in supervisors
  /\ Begin(r, [at |-> "checked", user |-> u, supervisor |-> s])
  /\ UNCHANGED <<supervisors, rows, deleted>>

(* Mutant: a new row is made unless the one that is found is active. *)
AssignFind_InsertsIfDeleted(r) ==
  LET u == req[r].user
      s == req[r].supervisor
  IN  /\ req[r].at = "checked"
      /\ \/ /\ RowsOf(u, s) \subseteq deleted
            /\ Become(r, [at |-> "insert", user |-> u, supervisor |-> s])
         \/ \E i \in RowsOf(u, s) : i \notin deleted /\ Become(r, Idle)
      /\ UNCHANGED <<supervisors, rows, deleted>>

(* Mutant: a row is made whatever is found. *)
AssignFind_AlwaysInserts(r) ==
  /\ req[r].at = "checked"
  /\ Become(r, [at |-> "insert", user |-> req[r].user, supervisor |-> req[r].supervisor])
  /\ UNCHANGED <<supervisors, rows, deleted>>

(* findOne returns any row of the pair, deleted or not.                    *)
AssignFind(r) ==
  LET u == req[r].user
      s == req[r].supervisor
  IN  /\ req[r].at = "checked"
      /\ \/ /\ RowsOf(u, s) = {}
            /\ Become(r, [at |-> "insert", user |-> u, supervisor |-> s])
         \/ \E i \in RowsOf(u, s) :
              IF i \in deleted
              THEN Become(r, [at |-> "undelete", supervisor |-> s, row |-> i])
              ELSE Become(r, Idle)
      /\ UNCHANGED <<supervisors, rows, deleted>>

AssignUndelete(r) ==
  /\ req[r].at = "undelete"
  /\ deleted' = deleted \ {req[r].row}
  /\ Become(r, Idle)
  /\ UNCHANGED <<supervisors, rows>>

InsertLands(r) ==
  /\ req[r].at = "insert"
  /\ rows' = Append(rows, [user |-> req[r].user, supervisor |-> req[r].supervisor])
  /\ Become(r, Idle)
  /\ UNCHANGED <<supervisors, deleted>>

(* removeSupervisorMapping: finds one active row of the pair, if any.      *)
RemoveFind(r, i) ==
  /\ i \in Live
  /\ Begin(r, [at |-> "remove", supervisor |-> rows[i].supervisor, row |-> i])
  /\ UNCHANGED <<supervisors, rows, deleted>>

RemoveDelete(r) ==
  /\ req[r].at = "remove"
  /\ deleted' = deleted \cup {req[r].row}
  /\ Become(r, Idle)
  /\ UNCHANGED <<supervisors, rows>>

(* Mutant: the role before the update is not read. *)
UpdateRead_NoSnapshot(r, s, role) ==
  /\ Begin(r, [at |-> "update", supervisor |-> s, role |-> role])
  /\ UNCHANGED <<supervisors, rows, deleted>>

(* update: appUser is read once, before the validations.                   *)
UpdateRead(r, s, role) ==
  /\ Begin(r, [at |-> "update", supervisor |-> s, role |-> role,
               was |-> IF s \in supervisors THEN "SUPERVISOR" ELSE "USER"])
  /\ UNCHANGED <<supervisors, rows, deleted>>

(* Mutant: the mappings are deleted only for a role that is given. *)
UpdateWrite_KeepsMappings(r) ==
  LET t == req[r]
  IN  /\ t.at = "update"
      /\ supervisors' = CASE t.role = "SUPERVISOR" -> supervisors \cup {t.supervisor}
                          [] t.role = "USER" -> supervisors \ {t.supervisor}
                          [] OTHER -> supervisors
      /\ Become(r, Idle)
      /\ UNCHANGED <<rows, deleted>>

(* Whether the mappings are deleted depends on the snapshot and on the     *)
(* role that is asked for; a request without a role deletes them, too.     *)
UpdateWrite(r) ==
  LET t == req[r]
  IN  /\ t.at = "update"
      /\ supervisors' = CASE t.role = "SUPERVISOR" -> supervisors \cup {t.supervisor}
                          [] t.role = "USER" -> supervisors \ {t.supervisor}
                          [] OTHER -> supervisors
      /\ IF t.was = "SUPERVISOR" /\ t.role # "SUPERVISOR"
         THEN Become(r, [at |-> "unmap", supervisor |-> t.supervisor])
         ELSE Become(r, Idle)
      /\ UNCHANGED <<rows, deleted>>

(* Mutant: the mappings of the user are deleted, not those it supervises. *)
UpdateUnmap_AsUser(r) ==
  /\ req[r].at = "unmap"
  /\ deleted' = deleted \cup { i \in DOMAIN rows : rows[i].user = req[r].supervisor }
  /\ Become(r, Idle)
  /\ UNCHANGED <<supervisors, rows>>

UpdateUnmap(r) ==
  /\ req[r].at = "unmap"
  /\ deleted' = deleted \cup { i \in DOMAIN rows : rows[i].supervisor = req[r].supervisor }
  /\ Become(r, Idle)
  /\ UNCHANGED <<supervisors, rows>>

(* A statement fails, or the server goes down: the request is answered     *)
(* with an error (an INSERT under way fails unnoticed) and what it has     *)
(* written stays.  An update that breaks off between its two writes makes  *)
(* its user a suspect.                                                     *)
RequestFails(r) ==
  /\ Busy(r)
  /\ req' = [req EXCEPT ![r] = Idle]
  /\ suspects' = IF req[r].at = "unmap" THEN suspects \cup {req[r].supervisor}
                 ELSE suspects
  /\ UNCHANGED <<supervisors, rows, deleted>>

Continue(r) ==
  \/ AssignFind(r) \/ AssignUndelete(r) \/ InsertLands(r)
  \/ RemoveDelete(r)
  \/ UpdateWrite(r) \/ UpdateUnmap(r)

MappingNext ==
  \E r \in Requests :
    \/ \E u, s \in Users : AssignCheck(r, u, s)
    \/ \E i \in DOMAIN rows : RemoveFind(r, i)
    \/ \E s \in Users, role \in Roles : UpdateRead(r, s, role)
    \/ Continue(r)
    \/ RequestFails(r)

MappingSafety == MappingInit /\ [][MappingNext]_mappingVars

(* A statement that was sent is answered; nobody must send a request.      *)
MappingSpec == MappingSafety /\ \A r \in Requests : WF_mappingVars(Continue(r))
-----------------------------------------------------------------------------
MappingTypeOK ==
  /\ supervisors \subseteq Users
  /\ rows \in Seq(Row)
  /\ deleted \subseteq DOMAIN rows
  /\ req \in [Requests -> {Idle} \cup Tasks]
  /\ suspects \subseteq Users

(* Whoever stops being a supervisor keeps no active mapping: the role and  *)
(* the mappings are written one after the other, by requests that read     *)
(* before, and yet only conflicting requests about that same supervisor,   *)
(* or an update that breaks off between its writes, leave one behind.      *)
(* findAppUserById grants access on such a mapping alone.                  *)
OrphanFree ==
  \A i \in Live : LET s == rows[i].supervisor
                  IN  \/ s \in supervisors
                      \/ s \in suspects
                      \/ \E r \in Requests : req[r] = [at |-> "unmap", supervisor |-> s]

(* The table has no unique constraint, but without conflicting requests    *)
(* the look-up keeps a pair from getting a second row.                     *)
NoDuplicates ==
  \A i, j \in DOMAIN rows : rows[i] = rows[j] => i = j \/ rows[i].supervisor \in suspects

(* When a removal has written, the pair has no active row left, unless     *)
(* conflicting requests had given it a second one.                         *)
RemovalTakesEffect ==
  [][\A r \in Requests :
       RemoveDelete(r) =>
         \/ req[r].supervisor \in suspects
         \/ \A i \in DOMAIN rows' \ deleted' : rows'[i] # rows[req[r].row]]_mappingVars

(* Whatever else goes on, a demotion that got as far as the role also      *)
(* gets to the mappings, or it is on record as broken off.                 *)
DemotionCuts ==
  \A r \in Requests, s \in Users :
    req[r] = [at |-> "unmap", supervisor |-> s]
      ~> s \in suspects \/ \A i \in Live : rows[i].supervisor # s
=============================================================================
