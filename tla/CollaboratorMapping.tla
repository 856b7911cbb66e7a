------------------------- MODULE CollaboratorMapping -------------------------
(***************************************************************************)
(* The table provider_users_collaborators of one tenant under concurrent   *)
(* requests (userCollaboratorMapping.services.ts): adding a collaborator,  *)
(* changing the dates of his access, removing him, and the upload of a     *)
(* file, which removes the mappings in its scope (one user's, or all) and  *)
(* then makes those of its lines, all at once.                             *)
(*                                                                         *)
(* No request holds a transaction and (user_id, collaborator_id) is not    *)
(* unique.  A look-up takes any one row of a pair, while a write changes   *)
(* all of them, and writes back the history that the look-up read.  Adding *)
(* several collaborators in one request is a task for each, as they run    *)
(* concurrently and independently.                                         *)
(*                                                                         *)
(* A row's id is its place; rows are never taken out.                      *)
(***************************************************************************)
EXTENDS Integers, Sequences, FiniteSets, SequencesExt

CONSTANTS Users, Null,
          Expiry,       \* defaultCollaboratorExpiryDuration, Null if not set
          Asked,        \* the dates requests come with
          Files,        \* the files that are uploaded
          Slots,        \* bounds the tasks in service at once
          MaxRows,      \* bounds the rows of the table,
          MaxHistory,   \* the length of a row's history
          Days          \* and the days on which all this happens

Dates == Int \cup {Null}
Window == [start : Int, end : Dates]

(* A line that does not pass the schema of its fields is not valid. *)
Line == [user : Users, collaborator : Users, asked : [start : Dates, end : Dates],
         valid : BOOLEAN]

ASSUME CollaboratorAssumption ==
  /\ Null \notin Int
  /\ Expiry \in Nat \cup {Null}
  /\ Asked \subseteq [start : Dates, end : Dates]
  /\ Files \subseteq [scope : SUBSET Users, lines : Seq(Line)]
  /\ MaxRows \in Nat /\ MaxHistory \in Nat /\ Days \subseteq Int

VARIABLES rows, deleted,    \* the rows, and the ids of those with is_deleted
          task,             \* the tasks in service
          upload,           \* the file being uploaded, if any
          suspects,         \* history, read by no action: the pairs that
                            \* conflicting tasks were about
          disturbed         \* history: whether the upload met another writer

vars == <<rows, deleted, task, upload, suspects, disturbed>>

Row == [user : Users, collaborator : Users, window : Window, history : Seq(Window)]

Idle == [at |-> "idle"]
NoFile == [scope |-> {}, lines |-> <<>>]

Init ==
  /\ rows = <<>> /\ deleted = {}
  /\ task = [s \in Slots |-> Idle]
  /\ upload = NoFile
  /\ suspects = {} /\ disturbed = FALSE

Pair(t) == <<t.user, t.collaborator>>
RowsOf(p) == { i \in DOMAIN rows : Pair(rows[i]) = p }
LiveOf(p) == RowsOf(p) \ deleted

Busy(s) == task[s].at \notin {"idle", "done", "failed"}
OfUpload(s) == task[s].at # "idle" /\ task[s].kind = "upload"

Conflict(t, v) ==
  /\ Pair(t) = Pair(v)
  /\ \/ t.kind # "remove" /\ v.kind # "remove"
     \/ "update" \in {t.kind, v.kind}

(* The tasks that new ones conflict with make their pairs suspects.        *)
Suspect(new) ==
  suspects' = suspects \cup { Pair(t) : t \in { t \in new :
                                \E s \in Slots : Busy(s) /\ Conflict(t, task[s]) } }

Disturb == disturbed' = (disturbed \/ upload # NoFile)

Begin(s, t) ==
  /\ task[s] = Idle
  /\ task' = [task EXCEPT ![s] = t]
  /\ Suspect({t})
  /\ Disturb
  /\ UNCHANGED <<rows, deleted, upload>>

Become(s, t) ==
  /\ task' = [task EXCEPT ![s] = t]
  /\ (IF OfUpload(s) THEN UNCHANGED disturbed ELSE Disturb)
  /\ UNCHANGED <<upload, suspects>>

(* A task is answered; what became of the lines of an upload is kept until *)
(* all of them are.                                                        *)
Settle(s, at) ==
  Become(s, IF OfUpload(s)
            THEN [at |-> at, kind |-> "upload", user |-> task[s].user,
                  collaborator |-> task[s].collaborator]
            ELSE Idle)

(* A request that is not about oneself: assignCollaborator refuses those. *)
Submit(s, kind, u, c, asked) ==
  /\ u # c
  /\ Begin(s, [at |-> "begin", kind |-> kind, user |-> u, collaborator |-> c, asked |-> asked])

(* Mutant: a deleted row counts as a mapping. *)
CheckMapping_AnyRow(s) ==
  LET t == task[s]
      mapped == RowsOf(Pair(t)) # {}
  IN  /\ t.at = "begin"
      /\ IF mapped = (t.kind = "add") THEN Become(s, Idle)
         ELSE Become(s, [t EXCEPT !.at = IF t.kind = "remove" THEN "remove" ELSE "assign"])
      /\ UNCHANGED <<rows, deleted>>

(* addCollaboratorMappings refuses a pair that is mapped, the others one   *)
(* that is not.                                                            *)
CheckMapping(s) ==
  LET t == task[s]
      mapped == LiveOf(Pair(t)) # {}
  IN  /\ t.at = "begin"
      /\ IF mapped = (t.kind = "add") THEN Become(s, Idle)
         ELSE Become(s, [t EXCEPT !.at = IF t.kind = "remove" THEN "remove" ELSE "assign"])
      /\ UNCHANGED <<rows, deleted>>

(* Mutant: the start that is filled in is only used for the end. *)
AccessDuration_NullStart(asked, today) ==
  [start |-> asked.start,
   end |-> IF asked.end # Null \/ Expiry = Null THEN asked.end ELSE today + Expiry]

(* findAccessDuration *)
AccessDuration(asked, today) ==
  LET start == IF asked.start = Null THEN today ELSE asked.start
  IN  [start |-> start,
       end |-> IF asked.end # Null \/ Expiry = Null THEN asked.end ELSE start + Expiry]

Chosen(t, at, past, today) ==
  [at |-> at, kind |-> t.kind, user |-> t.user, collaborator |-> t.collaborator,
   window |-> AccessDuration(t.asked, today), past |-> past]

(* Mutant: the look-up leaves out the rows that are deleted. *)
FindMapping_OnlyLive(s) ==
  LET t == task[s]
      found == LiveOf(Pair(t))
  IN  /\ t.at = "assign"
      /\ \E today \in Days :
           \/ found = {} /\ Become(s, Chosen(t, "insert", <<>>, today))
           \/ \E i \in found : Become(s, Chosen(t, "write", rows[i].history, today))
      /\ UNCHANGED <<rows, deleted>>

(* createOrUpdateCollaboratorMapping up to its look-up.  A history that is *)
(* a single object, as create leaves it, is spread into the new one as an  *)
(* array of one is.                                                        *)
FindMapping(s) ==
  LET t == task[s]
      found == RowsOf(Pair(t))
  IN  /\ t.at = "assign"
      /\ \E today \in Days :
           \/ found = {} /\ Become(s, Chosen(t, "insert", <<>>, today))
           \/ \E i \in found : Become(s, Chosen(t, "write", rows[i].history, today))
      /\ UNCHANGED <<rows, deleted>>

InsertMapping(s) ==
  LET t == task[s]
  IN  /\ t.at = "insert"
      /\ Len(rows) < MaxRows
      /\ rows' = Append(rows, [user |-> t.user, collaborator |-> t.collaborator,
                               window |-> t.window, history |-> <<t.window>>])
      /\ Settle(s, "done")
      /\ UNCHANGED deleted

(* Mutant: the history is not written. *)
WriteMapping_KeepsHistory(s) ==
  LET t == task[s]
      found == RowsOf(Pair(t))
  IN  /\ t.at = "write"
      /\ Len(t.past) < MaxHistory
      /\ rows' = [i \in DOMAIN rows |->
                    IF i \in found
                    THEN [rows[i] EXCEPT !.window = t.window]
                    ELSE rows[i]]
      /\ deleted' = deleted \ found
      /\ Settle(s, "done")

(* Mutant: the history begins anew. *)
WriteMapping_DropsHistory(s) ==
  LET t == task[s]
      found == RowsOf(Pair(t))
  IN  /\ t.at = "write"
      /\ Len(t.past) < MaxHistory
      /\ rows' = [i \in DOMAIN rows |->
                    IF i \in found
                    THEN [rows[i] EXCEPT !.window = t.window,
                                         !.history = <<t.window>>]
                    ELSE rows[i]]
      /\ deleted' = deleted \ found
      /\ Settle(s, "done")

(* The update of all rows of the pair. *)
WriteMapping(s) ==
  LET t == task[s]
      found == RowsOf(Pair(t))
  IN  /\ t.at = "write"
      /\ Len(t.past) < MaxHistory
      /\ rows' = [i \in DOMAIN rows |->
                    IF i \in found
                    THEN [rows[i] EXCEPT !.window = t.window,
                                         !.history = Append(t.past, t.window)]
                    ELSE rows[i]]
      /\ deleted' = deleted \ found
      /\ Settle(s, "done")

RemoveMapping(s) ==
  /\ task[s].at = "remove"
  /\ deleted' = deleted \cup RowsOf(Pair(task[s]))
  /\ Settle(s, "done")
  /\ UNCHANGED rows

(* A statement fails: the request is answered with an error.               *)
Fail(s) ==
  /\ Busy(s)
  /\ Settle(s, "failed")
  /\ UNCHANGED <<rows, deleted>>

Wiped(scope) == { i \in DOMAIN rows : rows[i].user \in scope }

(* What a wipe of the scope conflicts with: changes of dates under way.    *)
WipeConflicts(scope) ==
  { Pair(task[s]) : s \in { s \in Slots : /\ Busy(s) /\ task[s].kind = "update"
                                          /\ task[s].user \in scope } }

(* removeAllCollaborators *)
RemoveAll(u) ==
  /\ deleted' = deleted \cup Wiped({u})
  /\ suspects' = suspects \cup WipeConflicts({u})
  /\ Disturb
  /\ UNCHANGED <<rows, task, upload>>

(* Mutant: the first line of a pair counts. *)
Kept_First(lines) == { i \in DOMAIN lines :
                         \A k \in DOMAIN lines : k < i => Pair(lines[k]) # Pair(lines[i]) }

(* The lines that count: the last one of each pair.                        *)
Kept(lines) == { i \in DOMAIN lines :
                   \A k \in DOMAIN lines : k > i => Pair(lines[k]) # Pair(lines[i]) }

(* Those that pass the schema and are not about oneself.                   *)
Passed(lines) == { i \in Kept(lines) : lines[i].valid /\ lines[i].user # lines[i].collaborator }

LineTask(line) == [at |-> "assign", kind |-> "upload", user |-> line.user,
                   collaborator |-> line.collaborator, asked |-> line.asked]

(* Both uploads up to the assignment of the lines, which slots serve.      *)
Upload(file) ==
  /\ upload = NoFile /\ file # NoFile
  /\ \E serve \in Injection(Passed(file.lines), { s \in Slots : task[s] = Idle }) :
       task' = [s \in Slots |->
                  IF \E i \in DOMAIN serve : serve[i] = s
                  THEN LineTask(file.lines[CHOOSE i \in DOMAIN serve : serve[i] = s])
                  ELSE task[s]]
  /\ deleted' = deleted \cup Wiped(file.scope)
  /\ upload' = file
  /\ LET new == { LineTask(file.lines[i]) : i \in Passed(file.lines) }
     IN  suspects' = suspects \cup WipeConflicts(file.scope)
                      \cup { Pair(t) : t \in { t \in new :
                               \E s \in Slots : Busy(s) /\ Conflict(t, task[s]) } }
  /\ disturbed' = \E s \in Slots : Busy(s)
  /\ UNCHANGED rows

UploadSettled == upload # NoFile /\ \A s \in Slots : OfUpload(s) => ~Busy(s)

(* The answer to an upload. *)
UploadAnswer ==
  /\ UploadSettled
  /\ task' = [s \in Slots |-> IF OfUpload(s) THEN Idle ELSE task[s]]
  /\ upload' = NoFile
  /\ disturbed' = FALSE
  /\ UNCHANGED <<rows, deleted, suspects>>

Continue(s) == CheckMapping(s) \/ FindMapping(s) \/ InsertMapping(s) \/ WriteMapping(s) \/ RemoveMapping(s)

Next ==
  \/ \E s \in Slots :
       \/ \E u, c \in Users, asked \in Asked :
            \E kind \in {"add", "update"} : Submit(s, kind, u, c, asked)
       \/ \E u, c \in Users : Submit(s, "remove", u, c, [start |-> Null, end |-> Null])
       \/ Continue(s) \/ Fail(s)
  \/ \E u \in Users : RemoveAll(u)
  \/ \E file \in Files : Upload(file)
  \/ UploadAnswer

Spec == Init /\ [][Next]_vars
-----------------------------------------------------------------------------
TypeOK ==
  /\ rows \in Seq(Row)
  /\ deleted \subseteq DOMAIN rows
  /\ \A s \in Slots :
       \/ task[s] = Idle
       \/ /\ task[s].at \in {"begin", "assign", "insert", "write", "remove", "done", "failed"}
          /\ task[s].kind \in {"add", "update", "remove", "upload"}
          /\ Pair(task[s]) \in Users \X Users
          /\ task[s].at \in {"insert", "write"} => /\ task[s].window \in Window
                                                   /\ task[s].past \in Seq(Window)
  /\ upload \in Files \cup {NoFile}
  /\ suspects \subseteq Users \X Users
  /\ disturbed \in BOOLEAN

(* The look-up keeps a pair from getting a second row, although nothing in *)
(* the schema does, unless two tasks that assign it overlapped.            *)
OneRowPerPair ==
  \A i, j \in DOMAIN rows :
    Pair(rows[i]) = Pair(rows[j]) => i = j \/ Pair(rows[i]) \in suspects

(* What a row grants is what its history says last, also when several rows *)
(* of a pair were written with the history of one of them.                 *)
HistoryEndsWithWindow ==
  \A i \in DOMAIN rows : rows[i].history # <<>> /\ Last(rows[i].history) = rows[i].window

(* The history forgets nothing: a write that puts back what it read before *)
(* drops an entry only if two tasks that assign the pair overlapped.       *)
HistoryGrows ==
  [][\A i \in DOMAIN rows :
       IsPrefix(rows[i].history, rows'[i].history) \/ Pair(rows[i]) \in suspects]_vars

(* A change of dates looks for a live mapping and later writes is_deleted  *)
(* back to false: it brings back a removed mapping only if the removal     *)
(* came in between.                                                        *)
UpdateRevivesNothing ==
  [][\A s \in Slots :
       WriteMapping(s) /\ task[s].kind = "update" =>
         RowsOf(Pair(task[s])) \cap deleted = {} \/ Pair(task[s]) \in suspects]_vars

LinesOf(p) == { i \in DOMAIN upload.lines : Pair(upload.lines[i]) = p }

LiveWindows(p) == { rows[i].window : i \in LiveOf(p) }

(* A pair of the scope ends as its last line in the file says: not mapped  *)
(* when there is none or that one is refused, or else with its dates.      *)
AsTheFileSays(p) ==
  LET last == CHOOSE i \in LinesOf(p) : \A k \in LinesOf(p) : k <= i
      asked == upload.lines[last].asked
  IN  IF LinesOf(p) = {} \/ p[1] = p[2] \/ ~upload.lines[last].valid
      THEN LiveOf(p) = {}
      ELSE \E w \in LiveWindows(p) :
             /\ LiveWindows(p) = {w}
             /\ asked.start # Null => w.start = asked.start
             /\ asked.end # Null => w.end = asked.end

(* An upload that met no other writer leaves what the file says, but for   *)
(* the pairs whose line failed, whatever duplicates and half-done requests *)
(* were left before it.                                                    *)
UploadIsTheFile ==
  UploadSettled /\ ~disturbed =>
    \A u \in upload.scope, c \in Users :
      \/ AsTheFileSays(<<u, c>>)
      \/ \E s \in Slots : OfUpload(s) /\ Pair(task[s]) = <<u, c>> /\ task[s].at = "failed"

(* fetchActiveCollaboratorByUserId: the query that contact.service.ts asks *)
(* whose contacts a user gets to see.  As SQL reads it, the OR of the end  *)
(* date is an alternative to all that stands before it.                    *)
ActiveCollaborators(u, day) ==
  { rows[i].collaborator : i \in { i \in DOMAIN rows :
      \/ /\ rows[i].user = u /\ i \notin deleted
         /\ rows[i].window.start < day
         /\ rows[i].window.end = Null
      \/ rows[i].window.end # Null /\ rows[i].window.end > day } }

(* What the comment at the query says: a collaborator is active through a  *)
(* mapping of that user that is not deleted, has begun and has not ended.  *)
ActiveAreGranted ==
  \A u \in Users, day \in Days : \A c \in ActiveCollaborators(u, day) :
    \E i \in LiveOf(<<u, c>>) : /\ rows[i].window.start < day
                                /\ \/ rows[i].window.end = Null
                                   \/ rows[i].window.end > day
=============================================================================
