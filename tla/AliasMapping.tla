----------------------------- MODULE AliasMapping -----------------------------
(***************************************************************************)
(* The table provider_users_aliases of one tenant (userAlias.service.ts,   *)
(* userAlias.dao.ts): who may read whose mail as his alias, and when.      *)
(*                                                                         *)
(* It looks like the table of CollaboratorMapping but is written           *)
(* differently.  The create of an added alias is not awaited.  A removal   *)
(* goes through the same update as a change of dates, which always fills   *)
(* in dates and writes a history: so it replaces the dates by those of a   *)
(* mapping without any and the history by itself.  Removing all aliases    *)
(* of a user does neither.  A change of dates leaves is_deleted alone.     *)
(*                                                                         *)
(* A row's id is its place; rows are never taken out.  Emails stand for    *)
(* users; what is refused before the first look-up of a mapping (unknown   *)
(* or deleted users, malformed requests) and the historical dates, which   *)
(* are stored as they come, are left out.                                  *)
(***************************************************************************)
EXTENDS Integers, Sequences, FiniteSets, SequencesExt

CONSTANTS Users, Null,
          Expiry,       \* defaultAliasExpiryDuration, Null if not set
          Asked,        \* the dates requests come with
          Files,        \* the files that are uploaded
          Slots,        \* bounds the tasks in service at once
          MaxRows,      \* bounds the rows of the table,
          MaxHistory,   \* the length of a row's history
          Days          \* and the days on which all this happens

Dates == Int \cup {Null}

(* custom is isCustomAccessDurationSet; a removal leaves it undefined.     *)
Dated == [custom : BOOLEAN, start : Dates, end : Dates]
NoDates == [custom |-> FALSE, start |-> Null, end |-> Null]

Line == [user : Users, alias : Users, asked : Dated]

ASSUME AliasAssumption ==
  /\ Null \notin Int
  /\ Expiry \in Nat \cup {Null}
  /\ Asked \subseteq Dated
  /\ Files \subseteq [scope : SUBSET Users, lines : Seq(Line)]
  /\ \A file \in Files : \A i \in DOMAIN file.lines :   \* getIsCustomAccessDurationSet
       LET asked == file.lines[i].asked
       IN  asked.custom = (asked.start # Null \/ asked.end # Null)
  /\ MaxRows \in Nat /\ MaxHistory \in Nat /\ Days \subseteq Int

VARIABLES rows, deleted,    \* the rows, and the ids of those with is_deleted
          task,             \* the tasks in service
          upload,           \* the file being uploaded, if any
          suspects,         \* history, read by no action: the pairs that were
                            \* looked up while an INSERT of theirs was under way
          disturbed         \* history: whether the upload met another writer

vars == <<rows, deleted, task, upload, suspects, disturbed>>

(* An entry of the history: what was written, and whether that was the     *)
(* removal.                                                                *)
Entry == [start : Int, end : Dates, removal : {"yes", "no"}]
Row == [user : Users, alias : Users, start : Int, end : Dates, history : Seq(Entry)]

Idle == [at |-> "idle"]
NoFile == [scope |-> {}, lines |-> <<>>]

Init ==
  /\ rows = <<>> /\ deleted = {}
  /\ task = [s \in Slots |-> Idle]
  /\ upload = NoFile
  /\ suspects = {} /\ disturbed = FALSE

Pair(t) == <<t.user, t.alias>>
RowsOf(p) == { i \in DOMAIN rows : Pair(rows[i]) = p }
LiveOf(p) == RowsOf(p) \ deleted

Busy(s) == task[s].at \notin {"idle", "done", "failed"}
OfUpload(s) == task[s].at # "idle" /\ task[s].kind = "upload"

Disturb == disturbed' = (disturbed \/ upload # NoFile)

(* Mutant: the start that is filled in is only used for the end. *)
AccessDate_NullStart(asked, today, removal) ==
  [start |-> asked.start, removal |-> removal,
   end |-> IF asked.custom /\ asked.end # Null THEN asked.end
           ELSE IF Expiry = Null THEN Null ELSE today + Expiry]

(* getAliasAccessDate and the history entry made of its result. *)
AccessDate(asked, today, removal) ==
  LET start == IF asked.start = Null THEN today ELSE asked.start
  IN  [start |-> start, removal |-> removal,
       end |-> IF asked.custom /\ asked.end # Null THEN asked.end
               ELSE IF Expiry = Null THEN Null ELSE start + Expiry]

Become(s, t) ==
  /\ task' = [task EXCEPT ![s] = t]
  /\ (IF OfUpload(s) THEN UNCHANGED disturbed ELSE Disturb)
  /\ UNCHANGED upload

(* A task is answered; what became of the lines of an upload is kept until *)
(* all of them are.                                                        *)
Settle(s, at) ==
  /\ Become(s, IF OfUpload(s)
               THEN [at |-> at, kind |-> "upload", user |-> task[s].user, alias |-> task[s].alias]
               ELSE Idle)
  /\ UNCHANGED suspects

(* What comes after the look-up of a row of pair p: the write of entry,    *)
(* after the history that was read.                                        *)
WillWrite(kind, p, entry, past) ==
  [at |-> "write", kind |-> kind, user |-> p[1], alias |-> p[2], entry |-> entry, past |-> past]

WillInsert(kind, p, entry) ==
  [at |-> "insert", kind |-> kind, user |-> p[1], alias |-> p[2], entry |-> entry]

Inserting(p) == \E s \in Slots : task[s].at = "insert" /\ Pair(task[s]) = p

(* A look-up that finds no row starts an INSERT. *)
FindNone(s, kind, p, entry) ==
  /\ RowsOf(p) = {}
  /\ Become(s, WillInsert(kind, p, entry))
  /\ suspects' = IF Inserting(p) THEN suspects \cup {p} ELSE suspects

(* Mutant: a mapping that was deleted is created anew. *)
AddAlias_CreatesAnew(s, u, a, asked) ==
  LET p == <<u, a>>
  IN  /\ task[s] = Idle /\ u # a
      /\ \E today \in Days :
           LET entry == AccessDate(asked, today, "no")
           IN  /\ LiveOf(p) = {}
               /\ Become(s, WillInsert("add", p, entry))
               /\ suspects' = IF Inserting(p) THEN suspects \cup {p} ELSE suspects
      /\ UNCHANGED <<rows, deleted>>

(* assignAlias for one email of addAliasMapping, up to its look-up, which  *)
(* takes any one row.  One that is live refuses the alias.                 *)
AddAlias(s, u, a, asked) ==
  LET p == <<u, a>>
  IN  /\ task[s] = Idle /\ u # a
      /\ \E today \in Days :
           LET entry == AccessDate(asked, today, "no")
           IN  \/ FindNone(s, "add", p, entry)
               \/ \E i \in RowsOf(p) \cap deleted :
                    /\ Become(s, WillWrite("add", p, entry, rows[i].history))
                    /\ UNCHANGED suspects
      /\ UNCHANGED <<rows, deleted>>

(* updateAliasAccess up to its look-up of a live mapping. *)
UpdateAccess(s, u, a, asked) ==
  /\ task[s] = Idle
  /\ \E today \in Days, i \in LiveOf(<<u, a>>) :
       Become(s, WillWrite("update", <<u, a>>, AccessDate(asked, today, "no"), rows[i].history))
  /\ UNCHANGED <<rows, deleted, suspects>>

(* removeAliasMapping up to its look-up; its update gets no history.       *)
RemoveAlias(s, u, a) ==
  /\ task[s] = Idle /\ LiveOf(<<u, a>>) # {}
  /\ \E today \in Days :
       Become(s, WillWrite("remove", <<u, a>>, AccessDate(NoDates, today, "yes"), <<>>))
  /\ UNCHANGED <<rows, deleted, suspects>>

InsertLands(s) ==
  LET t == task[s]
  IN  /\ t.at = "insert"
      /\ Len(rows) < MaxRows
      /\ rows' = Append(rows, [user |-> t.user, alias |-> t.alias, start |-> t.entry.start,
                               end |-> t.entry.end, history |-> <<t.entry>>])
      /\ Settle(s, "done")
      /\ UNCHANGED deleted

(* The dates and the history that an update writes into rows of ids. *)
Rewritten(ids, entry, past) ==
  [i \in DOMAIN rows |->
     IF i \in ids THEN [rows[i] EXCEPT !.start = entry.start, !.end = entry.end,
                                       !.history = Append(past, entry)]
     ELSE rows[i]]

(* Mutant: a mapping is brought back as it is. *)
WriteMapping_AsItIs(s) ==
  LET t == task[s]
      found == RowsOf(Pair(t))
  IN  /\ t.at = "write" /\ Len(t.past) < MaxHistory
      /\ rows' = IF t.kind = "add" THEN rows ELSE Rewritten(found, t.entry, t.past)
      /\ deleted' = CASE t.kind = "remove" -> deleted \cup found
                      [] t.kind = "update" -> deleted
                      [] OTHER -> deleted \ found
      /\ Settle(s, "done")

(* The update of all rows of the pair; only a change of dates says nothing *)
(* about is_deleted.                                                       *)
WriteMapping(s) ==
  LET t == task[s]
      found == RowsOf(Pair(t))
  IN  /\ t.at = "write" /\ Len(t.past) < MaxHistory
      /\ rows' = Rewritten(found, t.entry, t.past)
      /\ deleted' = CASE t.kind = "remove" -> deleted \cup found
                      [] t.kind = "update" -> deleted
                      [] OTHER -> deleted \ found
      /\ Settle(s, "done")

(* A statement fails: the request is answered with an error, or nobody     *)
(* notices when it is the create of an added alias.                        *)
Fail(s) ==
  /\ Busy(s)
  /\ Settle(s, "failed")
  /\ UNCHANGED <<rows, deleted>>

InScope(scope) == { i \in DOMAIN rows : rows[i].user \in scope }

(* removeAllAliases *)
RemoveAll(u) ==
  /\ deleted' = deleted \cup InScope({u})
  /\ Disturb
  /\ UNCHANGED <<rows, task, upload, suspects>>

(* The lines that count: the last one of each pair, unless it is refused.  *)
Kept(lines) == { i \in DOMAIN lines :
                   \A k \in DOMAIN lines : k > i => Pair(lines[k]) # Pair(lines[i]) }

(* A line has custom dates when it has one of the two; the schema wants    *)
(* the start then.                                                         *)
Valid(line) == /\ line.asked.custom => line.asked.start # Null
               /\ line.user # line.alias

(* Mutant: the refusals of the schema do not end the line. *)
Passed_Unchecked(lines) == { i \in Kept(lines) : lines[i].user # lines[i].alias }

Passed(lines) == { i \in Kept(lines) : Valid(lines[i]) }

LineTask(line) == [at |-> "assign", kind |-> "upload", user |-> line.user, alias |-> line.alias,
                   asked |-> line.asked]

(* Both uploads up to the assignment of the lines, which slots serve: the  *)
(* removal of all mappings in the scope (one user's, or everybody's) is an *)
(* update as that of a single one.                                         *)
Upload(file) ==
  /\ upload = NoFile /\ file # NoFile
  /\ \E serve \in Injection(Passed(file.lines), { s \in Slots : task[s] = Idle }) :
       task' = [s \in Slots |->
                  IF \E i \in DOMAIN serve : serve[i] = s
                  THEN LineTask(file.lines[CHOOSE i \in DOMAIN serve : serve[i] = s])
                  ELSE task[s]]
  /\ \E today \in Days :
       rows' = Rewritten(InScope(file.scope), AccessDate(NoDates, today, "yes"), <<>>)
  /\ deleted' = deleted \cup InScope(file.scope)
  /\ upload' = file
  /\ disturbed' = \E s \in Slots : Busy(s)
  /\ UNCHANGED suspects

(* createOrUpdateAliasMapping up to its look-up. *)
FindMapping(s) ==
  LET p == Pair(task[s])
  IN  /\ task[s].at = "assign"
      /\ \E today \in Days :
           LET entry == AccessDate(task[s].asked, today, "no")
           IN  \/ FindNone(s, "upload", p, entry)
               \/ \E i \in RowsOf(p) :
                    /\ Become(s, WillWrite("upload", p, entry, rows[i].history))
                    /\ UNCHANGED suspects
      /\ UNCHANGED <<rows, deleted>>

UploadSettled == upload # NoFile /\ \A s \in Slots : OfUpload(s) => ~Busy(s)

(* The answer to an upload. *)
UploadAnswer ==
  /\ UploadSettled
  /\ task' = [s \in Slots |-> IF OfUpload(s) THEN Idle ELSE task[s]]
  /\ upload' = NoFile
  /\ disturbed' = FALSE
  /\ UNCHANGED <<rows, deleted, suspects>>

Next ==
  \/ \E s \in Slots :
       \/ \E u, a \in Users :
            \/ \E asked \in Asked : AddAlias(s, u, a, asked) \/ UpdateAccess(s, u, a, asked)
            \/ RemoveAlias(s, u, a)
       \/ FindMapping(s) \/ InsertLands(s) \/ WriteMapping(s) \/ Fail(s)
  \/ \E u \in Users : RemoveAll(u)
  \/ \E file \in Files : Upload(file)
  \/ UploadAnswer

Spec == Init /\ [][Next]_vars
-----------------------------------------------------------------------------
TypeOK ==
  /\ rows \in Seq(Row)
  /\ deleted \subseteq DOMAIN rows
  /\ \A s \in Slots :
       \/ task[s] = Idle
       \/ /\ task[s].at \in {"assign", "insert", "write", "done", "failed"}
          /\ task[s].kind \in {"add", "update", "remove", "upload"}
          /\ Pair(task[s]) \in Users \X Users
          /\ task[s].at \in {"insert", "write"} => task[s].entry \in Entry
          /\ task[s].at = "write" => task[s].past \in Seq(Entry)
  /\ upload \in Files \cup {NoFile}
  /\ suspects \subseteq Users \X Users
  /\ disturbed \in BOOLEAN

(* A pair gets a second row only if it was looked up while an INSERT of    *)
(* its first one was under way, which includes the create that the answer  *)
(* to an added alias does not wait for.                                    *)
OneRowPerPair ==
  \A i, j \in DOMAIN rows :
    Pair(rows[i]) = Pair(rows[j]) => i = j \/ Pair(rows[i]) \in suspects

(* The dates of a row are those of the last entry of its history, and a    *)
(* mapping that is live was not written by a removal last: its dates are   *)
(* those somebody asked for, never those a removal or a wipe filled in,    *)
(* although removals, changes and uploads write over each other.           *)
GrantedWasAsked ==
  \A i \in DOMAIN rows :
    /\ rows[i].history # <<>>
    /\ LET last == Last(rows[i].history)
       IN  /\ last.start = rows[i].start /\ last.end = rows[i].end
           /\ i \notin deleted => last.removal = "no"

LinesOf(p) == { i \in DOMAIN upload.lines : Pair(upload.lines[i]) = p }
LiveDates(p) == { [start |-> rows[i].start, end |-> rows[i].end] : i \in LiveOf(p) }

(* A pair of the scope ends as its last line in the file says: not mapped  *)
(* when there is none or that one is refused, or else with its dates.      *)
AsTheFileSays(p) ==
  LET last == CHOOSE i \in LinesOf(p) : \A k \in LinesOf(p) : k <= i
      asked == upload.lines[last].asked
  IN  IF LinesOf(p) = {} \/ p[1] = p[2] \/ ~Valid(upload.lines[last])
      THEN LiveOf(p) = {}
      ELSE \E d \in LiveDates(p) :
             /\ LiveDates(p) = {d}
             /\ asked.start # Null => d.start = asked.start
             /\ asked.end # Null => d.end = asked.end

(* An upload that met no other writer leaves what the file says, but for   *)
(* the pairs whose line failed, whatever duplicates, late creates and      *)
(* half-done requests were left before it.                                 *)
UploadIsTheFile ==
  UploadSettled /\ ~disturbed =>
    \A u \in upload.scope, a \in Users :
      \/ AsTheFileSays(<<u, a>>)
      \/ \E s \in Slots : OfUpload(s) /\ Pair(task[s]) = <<u, a>> /\ task[s].at = "failed"
=============================================================================
