------------------------------ MODULE UserUpload ------------------------------
(***************************************************************************)
(* The upload of the tenant's user list (processCSV and its helpers in     *)
(* src/client/user/user.service.ts) beside the requests of                 *)
(* SupervisorMapping.  An upload first takes access and supervision from   *)
(* everybody but the admins and then gives it back to whom the file names, *)
(* all its rows at once, in statements of their own.                       *)
(*                                                                         *)
(* An e-mail address of the file stands for the user who has it, or is     *)
(* Unknown.  The invitations leave no trace in the database; a mail that   *)
(* cannot be sent ends its row like a statement that fails.  isAppUser,    *)
(* which is never taken back, names and invitedById are left out.          *)
(***************************************************************************)
EXTENDS SupervisorMapping

CONSTANTS Admins,        \* the users with isAdmin
          Unknown,       \* an address without a user
          None,          \* no address
          Files,         \* the files that are uploaded
          Uploads        \* bounds how many uploads are served at once

Line == [user : Users \cup {Unknown},
         role : {"USER", "SUPERVISOR", "ADMIN", "invalid"},
         supervisor : Users \cup {Unknown, None}]

ASSUME UploadAssumption ==
  /\ Admins \subseteq Users
  /\ Unknown \notin Users /\ None \notin Users /\ Unknown # None
  /\ Files \subseteq Seq(Line)

VARIABLES active,       \* the users with isActive
          upload,       \* the uploads
          disturbed     \* history, read by no action: the uploads that met
                        \* another writer between their start and now

uploadVars == <<active, upload, disturbed>>
vars == <<mappingVars, uploadVars>>

(* at says how far a line has come ("unsent": it failed with its mapping   *)
(* made), insert what became of the create that it does not wait for.      *)
LineState == [at : {"waiting", "undelete", "mapped", "ok", "refused",
                    "skipped", "failed", "unsent"},
              row : Nat, insert : {"none", "sent", "failed"}]

Waiting == [at |-> "waiting", row |-> 0, insert |-> "none"]
NoUpload == [at |-> "idle", file |-> <<>>, lines |-> <<>>]

(* A new tenant: sendEmailInvitation has activated its admins.             *)
Init ==
  /\ MappingInit /\ supervisors = {}
  /\ active = Admins
  /\ upload = [k \in Uploads |-> NoUpload]
  /\ disturbed = {}

Running(k) == upload[k].at \in {"deactivated", "lines"}

Inserting(k) == { i \in DOMAIN upload[k].lines : upload[k].lines[i].insert = "sent" }

Quiet == /\ \A r \in Requests : ~Busy(r)
         /\ \A k \in Uploads : ~Running(k) /\ Inserting(k) = {}

(* A step of another writer than the uploads in K.                         *)
Disturbs(K) == disturbed' = disturbed \cup (Uploads \ K)

LineAt(k, i) == IF upload[k].at = "lines" THEN upload[k].lines[i].at ELSE "stopped"

SetLine(k, i, state) == upload' = [upload EXCEPT ![k].lines[i] = state]

(* The first statement of processCSV.                                      *)
Deactivate(k, file) ==
  /\ ~Running(k) /\ Inserting(k) = {}
  /\ Len(rows) < MaxRows
  /\ active' = active \cap Admins
  /\ supervisors' = supervisors \cap Admins
  /\ upload' = [upload EXCEPT ![k] =
                  [at |-> "deactivated", file |-> file, lines |-> [i \in DOMAIN file |-> Waiting]]]
  /\ disturbed' = IF Quiet THEN Uploads \ {k} ELSE Uploads
  /\ UNCHANGED <<rows, deleted, req, suspects>>

(* The second statement; reading the supervisors the file names gives      *)
(* nothing that can change.                                                *)
UnmapAll(k) ==
  /\ upload[k].at = "deactivated"
  /\ deleted' = DOMAIN rows
  /\ upload' = [upload EXCEPT ![k].at = "lines"]
  /\ Disturbs({k})
  /\ UNCHANGED <<supervisors, rows, req, suspects, active>>

(* The lines that uploadUsers refuses (missing fields, an unknown user,    *)
(* role or supervisor, a supervisor of himself) and those it passes.       *)
Verdict(line) ==
  IF line.user = Unknown \/ line.role = "invalid" THEN "refused"
  ELSE IF line.user \in Admins \/ line.role = "ADMIN" THEN "skipped"
  ELSE IF line.supervisor \in {Unknown, line.user} THEN "refused"
  ELSE IF line.supervisor = None THEN "mapped" ELSE "find"

(* Mutant: a deleted row is taken for a mapping. *)
LineFind_IgnoresDeleted(k, i) ==
  LET line == upload[k].file[i]
      found == RowsOf(line.user, line.supervisor)
  IN  /\ LineAt(k, i) = "waiting"
      /\ \/ /\ Verdict(line) # "find"
            /\ SetLine(k, i, [Waiting EXCEPT !.at = Verdict(line)])
         \/ /\ Verdict(line) = "find" /\ found = {}
            /\ SetLine(k, i, [Waiting EXCEPT !.at = "mapped", !.insert = "sent"])
         \/ /\ Verdict(line) = "find" /\ found # {}
            /\ SetLine(k, i, [Waiting EXCEPT !.at = "mapped"])
      /\ Disturbs({k})
      /\ UNCHANGED <<mappingVars, active>>

(* uploadUsers as far as the look-up of findAndAssignSupervisor (the read  *)
(* of the user before it returns nothing that changes).  The create is not *)
(* awaited.                                                                *)
LineFind(k, i) ==
  LET line == upload[k].file[i]
      found == RowsOf(line.user, line.supervisor)
  IN  /\ LineAt(k, i) = "waiting"
      /\ \/ /\ Verdict(line) # "find"
            /\ SetLine(k, i, [Waiting EXCEPT !.at = Verdict(line)])
         \/ /\ Verdict(line) = "find" /\ found = {}
            /\ SetLine(k, i, [Waiting EXCEPT !.at = "mapped", !.insert = "sent"])
         \/ /\ Verdict(line) = "find"
            /\ \E j \in found :
                 SetLine(k, i, IF j \in deleted
                               THEN [Waiting EXCEPT !.at = "undelete", !.row = j]
                               ELSE [Waiting EXCEPT !.at = "mapped"])
      /\ Disturbs({k})
      /\ UNCHANGED <<mappingVars, active>>

LineUndelete(k, i) ==
  /\ LineAt(k, i) = "undelete"
  /\ deleted' = deleted \ {upload[k].lines[i].row}
  /\ SetLine(k, i, [Waiting EXCEPT !.at = "mapped"])
  /\ Disturbs({k})
  /\ UNCHANGED <<supervisors, rows, req, suspects, active>>

LineInsertLands(k, i) ==
  /\ i \in Inserting(k)
  /\ rows' = Append(rows, [user |-> upload[k].file[i].user,
                           supervisor |-> upload[k].file[i].supervisor])
  /\ upload' = [upload EXCEPT ![k].lines[i].insert = "none"]
  /\ Disturbs({k})
  /\ UNCHANGED <<supervisors, deleted, req, suspects, active>>

(* The invitation is sent, the user updated.                               *)
LineWrite(k, i) ==
  LET line == upload[k].file[i]
  IN  /\ LineAt(k, i) = "mapped"
      /\ active' = active \cup {line.user}
      /\ supervisors' = IF line.role = "SUPERVISOR" THEN supervisors \cup {line.user}
                        ELSE supervisors
      /\ upload' = [upload EXCEPT ![k].lines[i].at = "ok"]
      /\ Disturbs({k})
      /\ UNCHANGED <<rows, deleted, req, suspects>>

(* A statement or a mail of the line fails: the others go on.              *)
LineFails(k, i) ==
  /\ \/ /\ LineAt(k, i) \in {"waiting", "undelete"}
        /\ upload' = [upload EXCEPT ![k].lines[i].at = "failed"]
     \/ /\ LineAt(k, i) = "mapped"
        /\ upload' = [upload EXCEPT ![k].lines[i].at = "unsent"]
     \/ /\ i \in Inserting(k)
        /\ upload' = [upload EXCEPT ![k].lines[i].insert = "failed"]
  /\ Disturbs({k})
  /\ UNCHANGED <<mappingVars, active>>

(* uploadedSupervisorEmails: also of the lines whose mail failed.          *)
UploadedSupervisors(k) ==
  { upload[k].file[i].supervisor :
      i \in { j \in DOMAIN upload[k].lines : upload[k].lines[j].at \in {"ok", "unsent"} } }

(* Mutant: a line that failed is waited for. *)
AllAnswered_OnlySuccess(k) ==
  upload[k].at = "lines" /\ \A i \in DOMAIN upload[k].lines :
    LineAt(k, i) \in {"ok", "refused", "skipped"}

AllAnswered(k) ==
  upload[k].at = "lines" /\ \A i \in DOMAIN upload[k].lines :
    LineAt(k, i) \in {"ok", "refused", "skipped", "failed", "unsent"}

(* Mutant: the supervisors are not activated. *)
PromoteSupervisors_Inactive(k) ==
  /\ AllAnswered(k)
  /\ supervisors' = supervisors \cup (UploadedSupervisors(k) \cap Users)
  /\ upload' = [upload EXCEPT ![k].at = "done"]
  /\ Disturbs({k})
  /\ UNCHANGED <<rows, deleted, req, suspects, active>>

(* createAndSendInvitationToSupervisor, when every line is answered.       *)
PromoteSupervisors(k) ==
  /\ AllAnswered(k)
  /\ supervisors' = supervisors \cup (UploadedSupervisors(k) \cap Users)
  /\ active' = active \cup (UploadedSupervisors(k) \cap Users)
  /\ upload' = [upload EXCEPT ![k].at = "done"]
  /\ Disturbs({k})
  /\ UNCHANGED <<rows, deleted, req, suspects>>

(* A statement of processCSV itself fails: what is written stays.          *)
UploadFails(k) ==
  /\ \/ upload[k].at = "deactivated"
     \/ upload[k].at = "lines" /\ \A i \in DOMAIN upload[k].lines : LineAt(k, i) = "waiting"
     \/ AllAnswered(k)
  /\ upload' = [upload EXCEPT ![k].at = "failed"]
  /\ Disturbs({k})
  /\ UNCHANGED <<mappingVars, active>>

(* activateUsers, for one address.                                         *)
Activate(u) ==
  /\ active' = active \cup {u}
  /\ Disturbs({})
  /\ UNCHANGED <<mappingVars, upload>>

Awaited(k, i) ==
  LineFind(k, i) \/ LineUndelete(k, i) \/ LineWrite(k, i)

UploadStep(k) ==
  \/ UnmapAll(k) \/ PromoteSupervisors(k)
  \/ \E i \in DOMAIN upload[k].lines : Awaited(k, i)

Next ==
  \/ MappingNext /\ Disturbs({}) /\ UNCHANGED <<active, upload>>
  \/ \E u \in Users : Activate(u)
  \/ \E k \in Uploads :
       \/ \E file \in Files : Deactivate(k, file)
       \/ UploadStep(k) \/ UploadFails(k)
       \/ \E i \in DOMAIN upload[k].lines : LineInsertLands(k, i) \/ LineFails(k, i)

(* The statements and mails of an upload are answered, one way or another. *)
Spec ==
  /\ Init /\ [][Next]_vars
  /\ \A k \in Uploads : WF_vars(UploadStep(k))
-----------------------------------------------------------------------------
TypeOK ==
  /\ MappingTypeOK
  /\ active \subseteq Users
  /\ \A k \in Uploads :
       /\ upload[k].at \in {"idle", "deactivated", "lines", "done", "failed"}
       /\ upload[k].file \in Files \cup {<<>>}
       /\ upload[k].lines \in Seq(LineState)
       /\ Len(upload[k].lines) = Len(upload[k].file)
  /\ disturbed \subseteq Uploads

(* What the file says: the lines that are neither refused nor about an     *)
(* admin, without those that failed before (after) their mapping was made. *)
Accepted(k) ==
  { i \in DOMAIN upload[k].file :
      LET line == upload[k].file[i]
      IN  /\ line.user \in Users \ Admins
          /\ line.role \in {"USER", "SUPERVISOR"}
          /\ line.supervisor \in (Users \ {line.user}) \cup {None} }

Mapped(k) == { i \in Accepted(k) : upload[k].lines[i].at # "failed" }

Written(k) == { i \in Mapped(k) : upload[k].lines[i].at # "unsent" }

Assigned(k) == { i \in Mapped(k) : upload[k].file[i].supervisor # None }

PairOf(line) == [user |-> line.user, supervisor |-> line.supervisor]

(* An upload that ran without another writer leaves what its file says and *)
(* nothing else, whatever earlier uploads, races and failures had left:    *)
(* the mappings, and of the users who are no admins those with access and  *)
(* the supervisors.  A line that fails takes nothing from the others.  And *)
(* all is of its type.                                                     *)
UploadIsTheFile ==
  /\ TypeOK
  /\ \A k \in Uploads \ disturbed :
       upload[k].at = "done" /\ Inserting(k) = {} =>
         LET file == upload[k].file
             mapped == { rows[j] : j \in Live }
             bosses == { file[i].supervisor : i \in Assigned(k) }
         IN  /\ mapped \subseteq { PairOf(file[i]) : i \in Assigned(k) }
             /\ \A i \in Assigned(k) :
                  upload[k].lines[i].insert # "failed" => PairOf(file[i]) \in mapped
             /\ active \ Admins = (bosses \cup { file[i].user : i \in Written(k) }) \ Admins
             /\ supervisors \ Admins =
                  (bosses \cup { file[i].user : i \in { j \in Written(k) :
                                                    file[j].role = "SUPERVISOR" } }) \ Admins

(* An upload that began is answered.                                       *)
UploadEnds == \A k \in Uploads : Running(k) ~> ~Running(k)
=============================================================================
