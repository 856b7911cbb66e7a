-------------------------- MODULE AliasMappingProofs ---------------------------
(***************************************************************************)
(* What TLAPS proves of AliasMapping for every set of users and files, and *)
(* for every bound: the types, when a pair may get a second row, and that  *)
(* no live mapping has the dates of a removal.                             *)
(***************************************************************************)
EXTENDS AliasMapping, SequenceTheorems, WellFoundedInduction, TLAPS

Entries(removal) == [start : Int, end : Dates, removal : {removal}]

(* The tasks: what they may write follows from their kind.                 *)
Tasks ==
  {Idle}
    \cup [at : {"assign"}, kind : {"upload"}, user : Users, alias : Users, asked : Dated]
    \cup [at : {"insert"}, kind : {"add", "upload"}, user : Users, alias : Users,
          entry : Entries("no")]
    \cup [at : {"write"}, kind : {"add", "update", "upload"}, user : Users, alias : Users,
          entry : Entries("no"), past : Seq(Entry)]
    \cup [at : {"write"}, kind : {"remove"}, user : Users, alias : Users,
          entry : Entries("yes"), past : Seq(Entry)]
    \cup [at : {"done", "failed"}, kind : {"upload"}, user : Users, alias : Users]

Typed ==
  /\ rows \in Seq(Row) /\ deleted \subseteq DOMAIN rows
  /\ task \in [Slots -> Tasks]
  /\ upload \in Files \cup {NoFile}
  /\ suspects \subseteq Users \X Users /\ disturbed \in BOOLEAN

(* An INSERT that is under way makes the only row of its pair, unless the  *)
(* pair is suspect.                                                        *)
Alone(s) ==
  task[s].at = "insert" /\ Pair(task[s]) \notin suspects =>
    /\ RowsOf(Pair(task[s])) = {}
    /\ \A q \in Slots : task[q].at = "insert" /\ Pair(task[q]) = Pair(task[s]) => q = s

Unique == OneRowPerPair /\ \A s \in Slots : Alone(s)

IInv == Typed /\ Unique /\ GrantedWasAsked

LEMMA TaskFields ==
  ASSUME NEW t \in Tasks
  PROVE  /\ t.at \in {"idle", "assign", "insert", "write", "done", "failed"}
         /\ t.at = "idle" <=> t = Idle
         /\ t # Idle => Pair(t) \in Users \X Users /\ t.user \in Users /\ t.alias \in Users
         /\ t # Idle => t.kind \in {"add", "update", "remove", "upload"}
         /\ t.at = "assign" => t.asked \in Dated
         /\ t.at = "insert" => t.entry \in Entry /\ t.entry.removal = "no"
         /\ t.at = "write" => t.entry \in Entry /\ t.past \in Seq(Entry)
         /\ t.at = "write" /\ t.kind # "remove" => t.entry.removal = "no"
  BY DEF Tasks, Idle, Pair, Entries, Entry

LEMMA TypedImpliesTypeOK == Typed => TypeOK
<1> SUFFICES ASSUME Typed PROVE TypeOK
  OBVIOUS
<1>1. ASSUME NEW s \in Slots, task[s] # Idle
      PROVE  /\ task[s].at \in {"assign", "insert", "write", "done", "failed"}
             /\ task[s].kind \in {"add", "update", "remove", "upload"}
             /\ Pair(task[s]) \in Users \X Users
             /\ task[s].at \in {"insert", "write"} => task[s].entry \in Entry
             /\ task[s].at = "write" => task[s].past \in Seq(Entry)
  <2>1. task[s] \in Tasks
    BY DEF Typed
  <2>2. QED
    BY <1>1, <2>1, TaskFields
<1>2. QED
  BY <1>1 DEF Typed, TypeOK

(* What is written always has a start.                                     *)
LEMMA Dating ==
  ASSUME NEW asked \in Dated, NEW today \in Int, NEW removal \in {"yes", "no"}
  PROVE  AccessDate(asked, today, removal) \in Entries(removal)
<1>1. /\ asked.start \in Dates /\ asked.end \in Dates /\ Null \notin Int
      /\ Expiry \in Nat \cup {Null}
  BY AliasAssumption DEF Dated
<1> DEFINE start == IF asked.start = Null THEN today ELSE asked.start
           end == IF asked.custom /\ asked.end # Null THEN asked.end
                  ELSE IF Expiry = Null THEN Null ELSE start + Expiry
<1>2. start \in Int
  BY <1>1 DEF Dates
<1>3. end \in Dates
  <2> HIDE DEF start
  <2>1. Expiry # Null => start + Expiry \in Int
    BY <1>1, <1>2
  <2>2. QED
    BY <1>1, <2>1 DEF Dates
<1>4. AccessDate(asked, today, removal) = [start |-> start, removal |-> removal, end |-> end]
  BY DEF AccessDate
<1>5. QED
  <2> HIDE DEF start, end
  <2>1. QED
    BY <1>2, <1>3, <1>4 DEF Entries

LEMMA NoDatesDated == NoDates \in Dated
  BY DEF NoDates, Dated, Dates

(* What a row becomes when it is written.                                  *)
Written(row, entry, past) ==
  [row EXCEPT !.start = entry.start, !.end = entry.end, !.history = Append(past, entry)]

LEMMA WrittenRow ==
  ASSUME NEW row \in Row, NEW entry \in Entry, NEW past \in Seq(Entry),
         NEW new, new = Written(row, entry, past)
  PROVE  /\ new \in Row /\ Pair(new) = Pair(row)
         /\ new.history # <<>> /\ Last(new.history) = entry
         /\ new.start = entry.start /\ new.end = entry.end
<1>1. /\ Append(past, entry) \in Seq(Entry) /\ Append(past, entry) # <<>>
      /\ Last(Append(past, entry)) = entry
  BY DEF Last
<1>2. new.history = Append(past, entry) /\ new.start = entry.start /\ new.end = entry.end
      /\ new.user = row.user /\ new.alias = row.alias
  BY DEF Row, Written
<1>3. entry.start \in Int /\ entry.end \in Dates
  BY DEF Entry
<1>4. new \in Row
  BY <1>1, <1>3 DEF Row, Written
<1>5. QED
  BY <1>1, <1>2, <1>4 DEF Pair

(* Updates change neither the rows there are nor whose they are.           *)
LEMMA Rewriting ==
  ASSUME rows \in Seq(Row), NEW ids, NEW entry \in Entry, NEW past \in Seq(Entry),
         NEW new, new = Rewritten(ids, entry, past)
  PROVE  /\ new \in Seq(Row) /\ DOMAIN new = DOMAIN rows
         /\ \A i \in DOMAIN rows : Pair(new[i]) = Pair(rows[i])
         /\ \A i \in DOMAIN rows \ ids : new[i] = rows[i]
         /\ \A i \in DOMAIN rows \cap ids :
              /\ new[i].history # <<>> /\ Last(new[i].history) = entry
              /\ new[i].start = entry.start /\ new[i].end = entry.end
<1>1. DOMAIN rows = 1 .. Len(rows) /\ Len(rows) \in Nat /\ \A i \in DOMAIN rows : rows[i] \in Row
  OBVIOUS
<1>2. new = [i \in DOMAIN rows |->
               IF i \in ids THEN [rows[i] EXCEPT !.start = entry.start, !.end = entry.end,
                                                 !.history = Append(past, entry)]
               ELSE rows[i]]
  BY DEF Rewritten
<1>3. DOMAIN new = DOMAIN rows
  BY <1>2
<1>4. ASSUME NEW i \in DOMAIN rows, i \in ids
      PROVE  /\ new[i] \in Row /\ Pair(new[i]) = Pair(rows[i])
             /\ new[i].history # <<>> /\ Last(new[i].history) = entry
             /\ new[i].start = entry.start /\ new[i].end = entry.end
  <2>1. new[i] = Written(rows[i], entry, past)
    BY <1>2, <1>4 DEF Written
  <2>2. rows[i] \in Row
    BY <1>1
  <2>3. QED
    BY <2>1, <2>2, WrittenRow
<1>5. ASSUME NEW i \in DOMAIN rows, i \notin ids PROVE new[i] = rows[i]
  BY <1>2, <1>5
<1>6. new \in [1 .. Len(rows) -> Row]
  BY <1>1, <1>2, <1>3, <1>4, <1>5
<1>7. new \in Seq(Row)
  BY <1>1, <1>6, SeqDef
<1>8. QED
  BY <1>3, <1>4, <1>5, <1>7

-----------------------------------------------------------------------------
(* The table.                                                              *)
SameRows == DOMAIN rows' = DOMAIN rows /\ \A i \in DOMAIN rows : Pair(rows'[i]) = Pair(rows[i])

(* A write keeps GrantedWasAsked if it makes nothing live but what it      *)
(* writes with dates that somebody asked for.                              *)
LEMMA WriteKeeps ==
  ASSUME Typed, GrantedWasAsked,
         NEW ids, NEW entry \in Entry, NEW past \in Seq(Entry),
         rows' = Rewritten(ids, entry, past),
         \A i \in DOMAIN rows : i \notin deleted' =>
           (i \in ids /\ entry.removal = "no") \/ (i \notin ids /\ i \notin deleted)
  PROVE  rows' \in Seq(Row) /\ SameRows /\ GrantedWasAsked'
<1>1. rows \in Seq(Row)
  BY DEF Typed
<1>2. /\ rows' \in Seq(Row) /\ DOMAIN rows' = DOMAIN rows
      /\ \A i \in DOMAIN rows : Pair(rows'[i]) = Pair(rows[i])
      /\ \A i \in DOMAIN rows \ ids : rows'[i] = rows[i]
      /\ \A i \in DOMAIN rows \cap ids :
           /\ rows'[i].history # <<>> /\ Last(rows'[i].history) = entry
           /\ rows'[i].start = entry.start /\ rows'[i].end = entry.end
  BY <1>1, Rewriting
<1>3. ASSUME NEW i \in DOMAIN rows
      PROVE  /\ rows'[i].history # <<>>
             /\ Last(rows'[i].history).start = rows'[i].start
             /\ Last(rows'[i].history).end = rows'[i].end
             /\ i \notin deleted' => Last(rows'[i].history).removal = "no"
  <2>1. CASE i \in ids
    BY <1>2, <2>1
  <2>2. CASE i \notin ids
    BY <1>2, <2>2 DEF GrantedWasAsked
  <2>3. QED
    BY <2>1, <2>2
<1>4. GrantedWasAsked'
  BY <1>2, <1>3 DEF GrantedWasAsked
<1>5. QED
  BY <1>2, <1>4 DEF SameRows

LEMMA SameTable ==
  ASSUME Typed, GrantedWasAsked, rows' = rows, deleted \subseteq deleted'
  PROVE  SameRows /\ GrantedWasAsked'
BY DEF SameRows, GrantedWasAsked

(* The tasks.                                                              *)
NoNewInserts ==
  /\ \A q \in Slots : task'[q].at = "insert" => task'[q] = task[q]
  /\ suspects \subseteq suspects'

LEMMA SameRowsOf == ASSUME SameRows, NEW p PROVE RowsOf(p)' = RowsOf(p)
BY DEF SameRows, RowsOf

LEMMA UniqueKept ==
  ASSUME Unique, SameRows, NoNewInserts
  PROVE  Unique'
<1>1. OneRowPerPair'
  BY DEF Unique, OneRowPerPair, SameRows, NoNewInserts
<1>2. ASSUME NEW s \in Slots, task'[s].at = "insert", Pair(task'[s]) \notin suspects'
      PROVE  /\ RowsOf(Pair(task[s]))' = {}
             /\ \A q \in Slots : task'[q].at = "insert" /\ Pair(task'[q]) = Pair(task'[s]) => q = s
  <2>1. task'[s] = task[s] /\ Pair(task[s]) \notin suspects
    BY <1>2 DEF NoNewInserts
  <2>2. /\ RowsOf(Pair(task[s])) = {}
        /\ \A q \in Slots : task[q].at = "insert" /\ Pair(task[q]) = Pair(task[s]) => q = s
    BY <1>2, <2>1 DEF Unique, Alone
  <2>3. RowsOf(Pair(task[s]))' = {}
    BY <2>1, <2>2 DEF SameRows, RowsOf
  <2>4. QED
    BY <2>1, <2>2, <2>3 DEF NoNewInserts
<1>3. QED
  BY <1>1, <1>2 DEF Unique, Alone

LEMMA Becomes ==
  ASSUME Typed, NEW s \in Slots, NEW t \in Tasks, Become(s, t)
  PROVE  /\ task' \in [Slots -> Tasks] /\ task'[s] = t
         /\ \A q \in Slots : q # s => task'[q] = task[q]
         /\ upload' = upload /\ disturbed' \in BOOLEAN
<1>1. task \in [Slots -> Tasks] /\ disturbed \in BOOLEAN
  BY DEF Typed
<1>2. task' = [task EXCEPT ![s] = t] /\ upload' = upload
  BY DEF Become
<1>3. disturbed' \in BOOLEAN
  BY <1>1 DEF Become, Disturb
<1>4. QED
  BY <1>1, <1>2, <1>3

LEMMA Settled ==
  ASSUME Typed, NEW s \in Slots, task[s] # Idle, NEW at \in {"done", "failed"}, Settle(s, at)
  PROVE  /\ task' \in [Slots -> Tasks] /\ upload' = upload /\ disturbed' \in BOOLEAN
         /\ suspects' = suspects /\ NoNewInserts /\ task'[s].at # "insert"
         /\ \A q \in Slots : q # s => task'[q] = task[q]
<1> DEFINE rest == [at |-> at, kind |-> "upload", user |-> task[s].user, alias |-> task[s].alias]
           t == IF OfUpload(s) THEN rest ELSE Idle
<1>1. task[s] \in Tasks
  BY DEF Typed
<1>2. rest \in Tasks /\ rest.at # "insert"
  BY <1>1, TaskFields DEF Tasks
<1>3. Idle \in Tasks /\ Idle.at # "insert"
  BY DEF Tasks, Idle
<1>4. t \in Tasks /\ t.at # "insert"
  BY <1>2, <1>3
<1>5. Become(s, t) /\ suspects' = suspects
  BY DEF Settle
<1> HIDE DEF t
<1>6. /\ task' \in [Slots -> Tasks] /\ task'[s] = t
      /\ \A q \in Slots : q # s => task'[q] = task[q]
      /\ upload' = upload /\ disturbed' \in BOOLEAN
  BY <1>4, <1>5, Becomes
<1>7. NoNewInserts
  BY <1>4, <1>5, <1>6 DEF NoNewInserts
<1>8. QED
  BY <1>4, <1>5, <1>6, <1>7

LEMMA WillWriteTyped ==
  ASSUME NEW kind \in {"add", "update", "upload", "remove"}, NEW u \in Users, NEW a \in Users,
         NEW removal \in {"yes", "no"}, removal = "yes" <=> kind = "remove",
         NEW entry \in Entries(removal), NEW past \in Seq(Entry)
  PROVE  /\ WillWrite(kind, <<u, a>>, entry, past) \in Tasks
         /\ WillWrite(kind, <<u, a>>, entry, past).at # "insert"
BY DEF WillWrite, Tasks

LEMMA WillInsertTyped ==
  ASSUME NEW kind \in {"add", "upload"}, NEW u \in Users, NEW a \in Users,
         NEW entry \in Entries("no")
  PROVE  /\ WillInsert(kind, <<u, a>>, entry) \in Tasks
         /\ WillInsert(kind, <<u, a>>, entry).at = "insert"
         /\ Pair(WillInsert(kind, <<u, a>>, entry)) = <<u, a>>
BY DEF WillInsert, Tasks, Pair

(* A look-up that finds a row starts no INSERT.                            *)
LEMMA FoundKeeps ==
  ASSUME IInv, NEW s \in Slots, NEW t \in Tasks, t.at # "insert",
         Become(s, t), UNCHANGED <<rows, deleted, suspects>>
  PROVE  IInv'
<1>1. Typed /\ Unique /\ GrantedWasAsked
  BY DEF IInv
<1>2. /\ task' \in [Slots -> Tasks] /\ task'[s] = t
      /\ \A q \in Slots : q # s => task'[q] = task[q]
      /\ upload' = upload /\ disturbed' \in BOOLEAN
  BY <1>1, Becomes
<1>3. SameRows /\ GrantedWasAsked'
  BY <1>1, SameTable
<1>4. NoNewInserts
  BY <1>2 DEF NoNewInserts
<1>5. Unique'
  BY <1>1, <1>3, <1>4, UniqueKept
<1>6. Typed'
  BY <1>1, <1>2 DEF Typed
<1>7. QED
  BY <1>3, <1>5, <1>6 DEF IInv

(* One that finds none does, and makes the pair suspect if another one is  *)
(* under way.                                                              *)
LEMMA NoneKeeps ==
  ASSUME IInv, NEW s \in Slots, NEW kind \in {"add", "upload"}, NEW u \in Users, NEW a \in Users,
         NEW entry \in Entries("no"), FindNone(s, kind, <<u, a>>, entry),
         UNCHANGED <<rows, deleted>>
  PROVE  IInv'
<1> DEFINE p == <<u, a>>
           t == WillInsert(kind, p, entry)
<1>1. Typed /\ Unique /\ GrantedWasAsked
  BY DEF IInv
<1>2. t \in Tasks /\ t.at = "insert" /\ Pair(t) = p
  BY WillInsertTyped
<1>3. /\ RowsOf(p) = {} /\ Become(s, t)
      /\ suspects' = IF Inserting(p) THEN suspects \cup {p} ELSE suspects
  BY DEF FindNone
<1> HIDE DEF t
<1>4. /\ task' \in [Slots -> Tasks] /\ task'[s] = t
      /\ \A q \in Slots : q # s => task'[q] = task[q]
      /\ upload' = upload /\ disturbed' \in BOOLEAN
  BY <1>1, <1>2, <1>3, Becomes
<1>5. SameRows /\ GrantedWasAsked'
  BY <1>1, SameTable
<1>6. p \in Users \X Users
  OBVIOUS
<1> HIDE DEF p
<1>7. Typed'
  BY <1>1, <1>3, <1>4, <1>6 DEF Typed
<1>8. OneRowPerPair'
  <2>1. suspects \subseteq suspects'
    BY <1>3
  <2>2. QED
    BY <1>1, <2>1 DEF Unique, OneRowPerPair, Pair
<1>9. ASSUME NEW r \in Slots, task'[r].at = "insert", Pair(task'[r]) \notin suspects'
      PROVE  /\ \A i \in DOMAIN rows : Pair(rows[i]) # Pair(task'[r])
             /\ \A q \in Slots : task'[q].at = "insert" /\ Pair(task'[q]) = Pair(task'[r]) => q = r
  <2>1. CASE r = s
    <3>1. Pair(task'[r]) = p /\ p \notin suspects'
      BY <1>2, <1>4, <1>9, <2>1
    <3>2. ~Inserting(p)
      BY <1>3, <3>1
    <3>3. \A i \in DOMAIN rows : Pair(rows[i]) # p
      BY <1>3 DEF RowsOf
    <3>4. ASSUME NEW q \in Slots, q # s, task'[q].at = "insert", Pair(task'[q]) = p PROVE FALSE
      BY <1>4, <3>2, <3>4 DEF Inserting
    <3>5. QED
      BY <2>1, <3>1, <3>3, <3>4
  <2>2. CASE r # s
    <3>1. task'[r] = task[r] /\ Pair(task[r]) \notin suspects
      BY <1>3, <1>4, <1>9, <2>2
    <3>2. /\ \A i \in DOMAIN rows : Pair(rows[i]) # Pair(task[r])
          /\ \A q \in Slots : task[q].at = "insert" /\ Pair(task[q]) = Pair(task[r]) => q = r
      BY <1>1, <1>9, <3>1 DEF Unique, Alone, RowsOf
    <3>3. Pair(task[r]) # p
      <4>1. CASE Inserting(p)
        BY <1>3, <1>9, <3>1, <4>1
      <4>2. CASE ~Inserting(p)
        BY <1>9, <3>1, <4>2 DEF Inserting
      <4>3. QED
        BY <4>1, <4>2
    <3>4. \A q \in Slots : task'[q].at = "insert" /\ Pair(task'[q]) = Pair(task'[r]) => q = r
      BY <1>2, <1>4, <3>1, <3>2, <3>3
    <3>5. QED
      BY <3>1, <3>2, <3>4
  <2>3. QED
    BY <2>1, <2>2
<1>10. \A r \in Slots : Alone(r)'
  BY <1>9 DEF Alone, RowsOf
<1>11. QED
  BY <1>5, <1>7, <1>8, <1>10 DEF IInv, Unique
-----------------------------------------------------------------------------
(* The actions, one by one.                                                *)
LEMMA InvInit == Init => IInv
<1> SUFFICES ASSUME Init PROVE IInv
  OBVIOUS
<1>1. Idle \in Tasks /\ Idle.at # "insert"
  BY DEF Tasks, Idle
<1>2. rows = <<>> /\ deleted = {} /\ task = [s \in Slots |-> Idle]
      /\ upload = NoFile /\ suspects = {} /\ disturbed = FALSE
  BY DEF Init
<1>3. Typed
  <2>1. rows \in Seq(Row)
    BY <1>2
  <2>2. task \in [Slots -> Tasks]
    BY <1>1, <1>2
  <2>3. QED
    BY <1>2, <2>1, <2>2 DEF Typed
<1>4. Unique
  BY <1>1, <1>2 DEF Unique, OneRowPerPair, Alone
<1>5. GrantedWasAsked
  BY <1>2 DEF GrantedWasAsked
<1>6. QED
  BY <1>3, <1>4, <1>5 DEF IInv

LEMMA HistoryTyped ==
  ASSUME Typed, NEW p, NEW i \in RowsOf(p) PROVE rows[i].history \in Seq(Entry)
<1>1. rows \in Seq(Row) /\ i \in DOMAIN rows
  BY DEF Typed, RowsOf
<1>2. rows[i] \in Row
  BY <1>1
<1>3. QED
  BY <1>2 DEF Row

LEMMA AddAliasKeeps ==
  ASSUME IInv, NEW s \in Slots, NEW u \in Users, NEW a \in Users, NEW asked \in Asked,
         AddAlias(s, u, a, asked)
  PROVE  IInv'
<1>1. asked \in Dated /\ Days \subseteq Int
  BY AliasAssumption
<1>2. PICK today \in Days :
        \/ FindNone(s, "add", <<u, a>>, AccessDate(asked, today, "no"))
        \/ \E i \in RowsOf(<<u, a>>) \cap deleted :
             /\ Become(s, WillWrite("add", <<u, a>>, AccessDate(asked, today, "no"), rows[i].history))
             /\ UNCHANGED suspects
  BY DEF AddAlias
<1>3. UNCHANGED <<rows, deleted>>
  BY DEF AddAlias
<1>4. AccessDate(asked, today, "no") \in Entries("no")
  BY <1>1, Dating
<1>5. CASE FindNone(s, "add", <<u, a>>, AccessDate(asked, today, "no"))
  BY <1>3, <1>4, <1>5, NoneKeeps
<1>6. CASE \E i \in RowsOf(<<u, a>>) \cap deleted :
             /\ Become(s, WillWrite("add", <<u, a>>, AccessDate(asked, today, "no"), rows[i].history))
             /\ UNCHANGED suspects
  <2>1. PICK i \in RowsOf(<<u, a>>) :
          /\ Become(s, WillWrite("add", <<u, a>>, AccessDate(asked, today, "no"), rows[i].history))
          /\ UNCHANGED suspects
    BY <1>6
  <2>2. rows[i].history \in Seq(Entry)
    BY HistoryTyped DEF IInv
  <2>3. /\ WillWrite("add", <<u, a>>, AccessDate(asked, today, "no"), rows[i].history) \in Tasks
        /\ WillWrite("add", <<u, a>>, AccessDate(asked, today, "no"), rows[i].history).at # "insert"
    BY <1>4, <2>2, WillWriteTyped
  <2>4. QED
    BY <1>3, <2>1, <2>3, FoundKeeps
<1>7. QED
  BY <1>2, <1>5, <1>6

LEMMA UpdateAccessKeeps ==
  ASSUME IInv, NEW s \in Slots, NEW u \in Users, NEW a \in Users, NEW asked \in Asked,
         UpdateAccess(s, u, a, asked)
  PROVE  IInv'
<1>1. asked \in Dated /\ Days \subseteq Int
  BY AliasAssumption
<1>2. PICK today \in Days, i \in LiveOf(<<u, a>>) :
        Become(s, WillWrite("update", <<u, a>>, AccessDate(asked, today, "no"), rows[i].history))
  BY DEF UpdateAccess
<1>3. UNCHANGED <<rows, deleted, suspects>>
  BY DEF UpdateAccess
<1>4. AccessDate(asked, today, "no") \in Entries("no")
  BY <1>1, Dating
<1>5. rows[i].history \in Seq(Entry)
  BY HistoryTyped DEF IInv, LiveOf
<1>6. /\ WillWrite("update", <<u, a>>, AccessDate(asked, today, "no"), rows[i].history) \in Tasks
      /\ WillWrite("update", <<u, a>>, AccessDate(asked, today, "no"), rows[i].history).at # "insert"
  BY <1>4, <1>5, WillWriteTyped
<1>7. QED
  BY <1>2, <1>3, <1>6, FoundKeeps

LEMMA RemoveAliasKeeps ==
  ASSUME IInv, NEW s \in Slots, NEW u \in Users, NEW a \in Users, RemoveAlias(s, u, a)
  PROVE  IInv'
<1>1. PICK today \in Days :
        Become(s, WillWrite("remove", <<u, a>>, AccessDate(NoDates, today, "yes"), <<>>))
  BY DEF RemoveAlias
<1>2. UNCHANGED <<rows, deleted, suspects>>
  BY DEF RemoveAlias
<1>3. AccessDate(NoDates, today, "yes") \in Entries("yes")
  BY AliasAssumption, NoDatesDated, Dating
<1>4. <<>> \in Seq(Entry)
  OBVIOUS
<1>5. /\ WillWrite("remove", <<u, a>>, AccessDate(NoDates, today, "yes"), <<>>) \in Tasks
      /\ WillWrite("remove", <<u, a>>, AccessDate(NoDates, today, "yes"), <<>>).at # "insert"
  BY <1>3, <1>4, WillWriteTyped
<1>6. QED
  BY <1>1, <1>2, <1>5, FoundKeeps

LEMMA FindMappingKeeps ==
  ASSUME IInv, NEW s \in Slots, FindMapping(s)
  PROVE  IInv'
<1> DEFINE u == task[s].user
           a == task[s].alias
           asked == task[s].asked
<1>1. task[s] \in Tasks /\ task[s].at = "assign"
  BY DEF IInv, Typed, FindMapping
<1>2. task[s] # Idle
  BY <1>1 DEF Idle
<1>3. u \in Users /\ a \in Users /\ asked \in Dated /\ Days \subseteq Int
  BY <1>1, <1>2, TaskFields, AliasAssumption
<1>4. PICK today \in Days :
        \/ FindNone(s, "upload", <<u, a>>, AccessDate(asked, today, "no"))
        \/ \E i \in RowsOf(<<u, a>>) :
             /\ Become(s, WillWrite("upload", <<u, a>>, AccessDate(asked, today, "no"), rows[i].history))
             /\ UNCHANGED suspects
  BY DEF FindMapping, Pair
<1>5. UNCHANGED <<rows, deleted>>
  BY DEF FindMapping
<1> HIDE DEF u, a, asked
<1>6. AccessDate(asked, today, "no") \in Entries("no")
  BY <1>3, Dating
<1>7. CASE FindNone(s, "upload", <<u, a>>, AccessDate(asked, today, "no"))
  BY <1>3, <1>5, <1>6, <1>7, NoneKeeps
<1>8. CASE \E i \in RowsOf(<<u, a>>) :
             /\ Become(s, WillWrite("upload", <<u, a>>, AccessDate(asked, today, "no"), rows[i].history))
             /\ UNCHANGED suspects
  <2>1. PICK i \in RowsOf(<<u, a>>) :
          /\ Become(s, WillWrite("upload", <<u, a>>, AccessDate(asked, today, "no"), rows[i].history))
          /\ UNCHANGED suspects
    BY <1>8
  <2>2. rows[i].history \in Seq(Entry)
    BY HistoryTyped DEF IInv
  <2>3. /\ WillWrite("upload", <<u, a>>, AccessDate(asked, today, "no"), rows[i].history) \in Tasks
        /\ WillWrite("upload", <<u, a>>, AccessDate(asked, today, "no"), rows[i].history).at # "insert"
    BY <1>3, <1>6, <2>2, WillWriteTyped
  <2>4. QED
    BY <1>5, <2>1, <2>3, FoundKeeps
<1>9. QED
  BY <1>4, <1>7, <1>8

LEMMA WriteMappingKeeps ==
  ASSUME IInv, NEW s \in Slots, WriteMapping(s)
  PROVE  IInv'
<1> DEFINE t == task[s]
           found == RowsOf(Pair(t))
<1>1. Typed /\ Unique /\ GrantedWasAsked
  BY DEF IInv
<1>2. /\ t.at = "write" /\ rows' = Rewritten(found, t.entry, t.past) /\ Settle(s, "done")
      /\ deleted' = CASE t.kind = "remove" -> deleted \cup found
                      [] t.kind = "update" -> deleted
                      [] OTHER -> deleted \ found
  BY DEF WriteMapping
<1>3. t \in Tasks
  BY <1>1 DEF Typed
<1>4. t.entry \in Entry /\ t.past \in Seq(Entry) /\ (t.kind # "remove" => t.entry.removal = "no")
      /\ t # Idle
  BY <1>2, <1>3, TaskFields DEF Idle
<1>5. found \subseteq DOMAIN rows /\ deleted \subseteq DOMAIN rows
  BY <1>1 DEF RowsOf, Typed
<1>6. /\ task' \in [Slots -> Tasks] /\ upload' = upload /\ disturbed' \in BOOLEAN
      /\ suspects' = suspects /\ NoNewInserts
  BY <1>1, <1>2, <1>4, Settled
<1> HIDE DEF t, found
<1>7. \A i \in DOMAIN rows : i \notin deleted' =>
        (i \in found /\ t.entry.removal = "no") \/ (i \notin found /\ i \notin deleted)
  BY <1>2, <1>4
<1>8. rows' \in Seq(Row) /\ SameRows /\ GrantedWasAsked'
  BY <1>1, <1>2, <1>4, <1>7, WriteKeeps
<1>9. deleted' \subseteq DOMAIN rows'
  <2>1. deleted' \subseteq DOMAIN rows
    BY <1>2, <1>5
  <2>2. QED
    BY <1>8, <2>1 DEF SameRows
<1>10. Unique'
  BY <1>1, <1>6, <1>8, UniqueKept
<1>11. Typed'
  BY <1>1, <1>6, <1>8, <1>9 DEF Typed
<1>12. QED
  BY <1>8, <1>10, <1>11 DEF IInv

LEMMA FailKeeps ==
  ASSUME IInv, NEW s \in Slots, Fail(s)
  PROVE  IInv'
<1>1. Typed /\ Unique /\ GrantedWasAsked
  BY DEF IInv
<1>2. task[s] # Idle /\ Settle(s, "failed") /\ rows' = rows /\ deleted' = deleted
  BY DEF Fail, Busy, Idle
<1>3. /\ task' \in [Slots -> Tasks] /\ upload' = upload /\ disturbed' \in BOOLEAN
      /\ suspects' = suspects /\ NoNewInserts
  BY <1>1, <1>2, Settled
<1>4. SameRows /\ GrantedWasAsked'
  BY <1>1, <1>2, SameTable
<1>5. Unique'
  BY <1>1, <1>3, <1>4, UniqueKept
<1>6. Typed'
  BY <1>1, <1>2, <1>3 DEF Typed
<1>7. QED
  BY <1>4, <1>5, <1>6 DEF IInv

LEMMA RemoveAllKeeps ==
  ASSUME IInv, NEW u \in Users, RemoveAll(u)
  PROVE  IInv'
<1>1. Typed /\ Unique /\ GrantedWasAsked
  BY DEF IInv
<1>2. /\ deleted' = deleted \cup InScope({u})
      /\ rows' = rows /\ task' = task /\ upload' = upload /\ suspects' = suspects
  BY DEF RemoveAll
<1>3. disturbed' \in BOOLEAN
  BY <1>1 DEF RemoveAll, Disturb, Typed
<1>4. deleted' \subseteq DOMAIN rows'
  BY <1>1, <1>2 DEF InScope, Typed
<1>5. SameRows /\ GrantedWasAsked'
  BY <1>1, <1>2, SameTable
<1>6. NoNewInserts
  BY <1>2 DEF NoNewInserts
<1>7. Unique'
  BY <1>1, <1>5, <1>6, UniqueKept
<1>8. Typed'
  BY <1>1, <1>2, <1>3, <1>4 DEF Typed
<1>9. QED
  BY <1>5, <1>7, <1>8 DEF IInv

LEMMA UploadAnswerKeeps ==
  ASSUME IInv, UploadAnswer
  PROVE  IInv'
<1>1. Typed /\ Unique /\ GrantedWasAsked
  BY DEF IInv
<1>2. /\ task' = [s \in Slots |-> IF OfUpload(s) THEN Idle ELSE task[s]]
      /\ upload' = NoFile /\ disturbed' = FALSE
      /\ rows' = rows /\ deleted' = deleted /\ suspects' = suspects
  BY DEF UploadAnswer
<1>3. Idle \in Tasks /\ Idle.at # "insert"
  BY DEF Tasks, Idle
<1>4. \A q \in Slots : task'[q] = Idle \/ task'[q] = task[q]
  BY <1>2
<1>5. task' \in [Slots -> Tasks]
  BY <1>1, <1>2, <1>3 DEF Typed
<1>6. NoNewInserts
  BY <1>2, <1>3, <1>4 DEF NoNewInserts
<1>7. SameRows /\ GrantedWasAsked'
  BY <1>1, <1>2, SameTable
<1>8. Unique'
  BY <1>1, <1>6, <1>7, UniqueKept
<1>9. Typed'
  BY <1>1, <1>2, <1>5 DEF Typed
<1>10. QED
  BY <1>7, <1>8, <1>9 DEF IInv

(* The row that is added is the only one of its pair, unless the pair is   *)
(* suspect.                                                                *)
LEMMA InsertLandsKeeps ==
  ASSUME IInv, NEW s \in Slots, InsertLands(s)
  PROVE  IInv'
<1> DEFINE t == task[s]
           new == [user |-> t.user, alias |-> t.alias, start |-> t.entry.start,
                   end |-> t.entry.end, history |-> <<t.entry>>]
<1>1. Typed /\ Unique /\ GrantedWasAsked
  BY DEF IInv
<1>2. t.at = "insert" /\ rows' = Append(rows, new) /\ Settle(s, "done") /\ deleted' = deleted
  BY DEF InsertLands
<1>3. t \in Tasks /\ rows \in Seq(Row) /\ deleted \subseteq DOMAIN rows
  BY <1>1 DEF Typed
<1>4. /\ t # Idle /\ t.user \in Users /\ t.alias \in Users
      /\ t.entry \in Entry /\ t.entry.removal = "no"
  BY <1>2, <1>3, TaskFields DEF Idle
<1>5. /\ new \in Row /\ Pair(new) = Pair(t) /\ new.history # <<>>
      /\ Last(new.history) = t.entry /\ new.start = t.entry.start /\ new.end = t.entry.end
  <2>1. t.entry.start \in Int /\ t.entry.end \in Dates /\ <<t.entry>> \in Seq(Entry)
    BY <1>4 DEF Entry
  <2>2. new \in Row
    BY <1>4, <2>1 DEF Row
  <2>3. QED
    BY <2>2 DEF Pair, Last
<1>6. /\ task' \in [Slots -> Tasks] /\ upload' = upload /\ disturbed' \in BOOLEAN
      /\ suspects' = suspects /\ task'[s].at # "insert"
      /\ \A q \in Slots : q # s => task'[q] = task[q]
  BY <1>1, <1>2, <1>4, Settled
<1>7. s \in Slots
  OBVIOUS
<1>8. Pair(t) \notin suspects =>
        /\ \A i \in DOMAIN rows : Pair(rows[i]) # Pair(t)
        /\ \A q \in Slots : task[q].at = "insert" /\ Pair(task[q]) = Pair(t) => q = s
  BY <1>1, <1>2 DEF Unique, Alone, RowsOf
<1> HIDE DEF new, t
<1>9. /\ rows' \in Seq(Row) /\ DOMAIN rows' = DOMAIN rows \cup {Len(rows) + 1}
      /\ Len(rows) + 1 \notin DOMAIN rows
      /\ rows'[Len(rows) + 1] = new /\ \A i \in DOMAIN rows : rows'[i] = rows[i]
  BY <1>2, <1>3, <1>5
<1>10. Typed'
  BY <1>1, <1>2, <1>3, <1>6, <1>9 DEF Typed
<1>11. GrantedWasAsked'
  <2>1. ASSUME NEW i \in DOMAIN rows'
        PROVE  /\ rows'[i].history # <<>>
               /\ Last(rows'[i].history).start = rows'[i].start
               /\ Last(rows'[i].history).end = rows'[i].end
               /\ i \notin deleted' => Last(rows'[i].history).removal = "no"
    <3>1. CASE i \in DOMAIN rows
      BY <1>1, <1>2, <1>9, <3>1 DEF GrantedWasAsked
    <3>2. CASE i = Len(rows) + 1
      BY <1>4, <1>5, <1>9, <3>2
    <3>3. QED
      BY <1>9, <3>1, <3>2
  <2>2. QED
    BY <2>1 DEF GrantedWasAsked
<1>12. OneRowPerPair'
  <2>1. ASSUME NEW i \in DOMAIN rows', NEW j \in DOMAIN rows', Pair(rows'[i]) = Pair(rows'[j]), i # j
        PROVE  Pair(rows'[i]) \in suspects'
    <3>1. CASE i \in DOMAIN rows /\ j \in DOMAIN rows
      BY <1>1, <1>6, <1>9, <2>1, <3>1 DEF Unique, OneRowPerPair
    <3>2. CASE i = Len(rows) + 1 /\ j \in DOMAIN rows
      BY <1>5, <1>6, <1>8, <1>9, <2>1, <3>2
    <3>3. CASE j = Len(rows) + 1 /\ i \in DOMAIN rows
      BY <1>5, <1>6, <1>8, <1>9, <2>1, <3>3
    <3>4. QED
      BY <1>9, <2>1, <3>1, <3>2, <3>3
  <2>2. QED
    BY <2>1 DEF OneRowPerPair, Pair
<1>13. ASSUME NEW q \in Slots, task'[q].at = "insert", Pair(task'[q]) \notin suspects'
       PROVE  /\ \A i \in DOMAIN rows' : Pair(rows'[i]) # Pair(task'[q])
              /\ \A r \in Slots : task'[r].at = "insert" /\ Pair(task'[r]) = Pair(task'[q]) => r = q
  <2>1. q # s /\ task'[q] = task[q] /\ Pair(task[q]) \notin suspects /\ task[q].at = "insert"
    BY <1>6, <1>13
  <2>2. /\ \A i \in DOMAIN rows : Pair(rows[i]) # Pair(task[q])
        /\ \A r \in Slots : task[r].at = "insert" /\ Pair(task[r]) = Pair(task[q]) => r = q
    BY <1>1, <2>1 DEF Unique, Alone, RowsOf
  <2>3. Pair(t) # Pair(task[q])
    BY <1>2, <1>7, <2>1, <2>2 DEF t
  <2>4. ASSUME NEW i \in DOMAIN rows' PROVE Pair(rows'[i]) # Pair(task'[q])
    <3>1. CASE i \in DOMAIN rows
      BY <1>9, <2>1, <2>2, <3>1
    <3>2. CASE i = Len(rows) + 1
      BY <1>5, <1>9, <2>1, <2>3, <3>2
    <3>3. QED
      BY <1>9, <3>1, <3>2
  <2>5. ASSUME NEW r \in Slots, task'[r].at = "insert", Pair(task'[r]) = Pair(task'[q]) PROVE r = q
    BY <1>6, <2>1, <2>2, <2>5
  <2>6. QED
    BY <2>4, <2>5
<1>14. \A q \in Slots : Alone(q)'
  BY <1>13 DEF Alone, RowsOf
<1>15. QED
  BY <1>10, <1>11, <1>12, <1>14 DEF IInv, Unique

LEMMA UploadKeeps ==
  ASSUME IInv, NEW file \in Files, Upload(file)
  PROVE  IInv'
<1>1. Typed /\ Unique /\ GrantedWasAsked
  BY DEF IInv
<1>2. PICK serve \in Injection(Passed(file.lines), { s \in Slots : task[s] = Idle }) :
        task' = [s \in Slots |->
                   IF \E i \in DOMAIN serve : serve[i] = s
                   THEN LineTask(file.lines[CHOOSE i \in DOMAIN serve : serve[i] = s])
                   ELSE task[s]]
  BY DEF Upload
<1>3. PICK today \in Days :
        rows' = Rewritten(InScope(file.scope), AccessDate(NoDates, today, "yes"), <<>>)
  BY DEF Upload
<1>4. /\ deleted' = deleted \cup InScope(file.scope) /\ upload' = file
      /\ disturbed' \in BOOLEAN /\ suspects' = suspects
  BY DEF Upload
<1>5. file.lines \in Seq(Line) /\ today \in Int
  BY AliasAssumption
<1>6. DOMAIN serve \subseteq DOMAIN file.lines
  BY <1>2 DEF Injection, IsInjective, Passed, Kept
<1>7. ASSUME NEW line \in Line PROVE LineTask(line) \in Tasks /\ LineTask(line).at = "assign"
  BY <1>7 DEF Line, LineTask, Tasks
<1>8. ASSUME NEW s \in Slots
      PROVE  /\ task'[s] \in Tasks
             /\ task'[s].at = "insert" => task'[s] = task[s]
  <2>1. CASE \E i \in DOMAIN serve : serve[i] = s
    <3> DEFINE i == CHOOSE i \in DOMAIN serve : serve[i] = s
    <3>1. task'[s] = LineTask(file.lines[i])
      BY <1>2, <2>1
    <3>2. i \in DOMAIN file.lines
      BY <1>6, <2>1
    <3> HIDE DEF i
    <3>3. file.lines[i] \in Line
      BY <1>5, <3>2
    <3>4. QED
      BY <1>7, <3>1, <3>3
  <2>2. CASE ~ \E i \in DOMAIN serve : serve[i] = s
    BY <1>1, <1>2, <2>2 DEF Typed
  <2>3. QED
    BY <2>1, <2>2
<1>9. task' \in [Slots -> Tasks]
  <2>1. task' = [s \in Slots |-> task'[s]]
    BY <1>2
  <2>2. QED
    BY <1>8, <2>1
<1>10. NoNewInserts
  BY <1>4, <1>8 DEF NoNewInserts
<1>11. AccessDate(NoDates, today, "yes") \in Entry /\ <<>> \in Seq(Entry)
  <2>1. AccessDate(NoDates, today, "yes") \in Entries("yes")
    BY <1>5, NoDatesDated, Dating
  <2>2. QED
    BY <2>1 DEF Entries, Entry
<1>12. rows' \in Seq(Row) /\ SameRows /\ GrantedWasAsked'
  <2>1. \A i \in DOMAIN rows : i \notin deleted' =>
          i \notin InScope(file.scope) /\ i \notin deleted
    BY <1>4
  <2>2. QED
    BY <1>1, <1>3, <1>11, <2>1, WriteKeeps
<1>13. deleted' \subseteq DOMAIN rows'
  BY <1>1, <1>4, <1>12 DEF Typed, InScope, SameRows
<1>14. Unique'
  BY <1>1, <1>10, <1>12, UniqueKept
<1>15. Typed'
  BY <1>1, <1>4, <1>9, <1>12, <1>13 DEF Typed
<1>16. QED
  BY <1>12, <1>14, <1>15 DEF IInv

LEMMA InvNext == IInv /\ [Next]_vars => IInv'
<1> SUFFICES ASSUME IInv, [Next]_vars PROVE IInv'
  OBVIOUS
<1>1. ASSUME NEW s \in Slots, NEW u \in Users, NEW a \in Users, NEW asked \in Asked,
             AddAlias(s, u, a, asked) \/ UpdateAccess(s, u, a, asked)
      PROVE  IInv'
  BY <1>1, AddAliasKeeps, UpdateAccessKeeps
<1>2. ASSUME NEW s \in Slots, NEW u \in Users, NEW a \in Users, RemoveAlias(s, u, a)
      PROVE  IInv'
  BY <1>2, RemoveAliasKeeps
<1>3. ASSUME NEW s \in Slots, FindMapping(s) \/ InsertLands(s) \/ WriteMapping(s) \/ Fail(s)
      PROVE  IInv'
  BY <1>3, FindMappingKeeps, InsertLandsKeeps, WriteMappingKeeps, FailKeeps
<1>4. ASSUME NEW u \in Users, RemoveAll(u) PROVE IInv'
  BY <1>4, RemoveAllKeeps
<1>5. ASSUME NEW file \in Files, Upload(file) PROVE IInv'
  BY <1>5, UploadKeeps
<1>6. CASE UploadAnswer
  BY <1>6, UploadAnswerKeeps
<1>7. CASE UNCHANGED vars
  BY <1>7 DEF vars, IInv, Typed, Unique, OneRowPerPair, Alone, RowsOf, GrantedWasAsked
<1>8. QED
  BY <1>1, <1>2, <1>3, <1>4, <1>5, <1>6, <1>7 DEF Next

LEMMA InductiveInvariant == Spec => []IInv
  BY InvInit, InvNext, PTL DEF Spec

-----------------------------------------------------------------------------
(* Rows, tasks and the upload have the types the code gives them, and a    *)
(* deleted mapping is one of the table.                                    *)
THEOREM TypeCorrect == Spec => []TypeOK
<1>1. IInv => TypeOK
  BY TypedImpliesTypeOK DEF IInv
<1>2. QED
  BY <1>1, InductiveInvariant, PTL

(* For every number of requests in service, a pair gets a second row only  *)
(* if it was looked up while an INSERT of it was under way; no removal,    *)
(* change, wipe or failure makes one.                                      *)
THEOREM OneRow == Spec => []OneRowPerPair
<1>1. IInv => OneRowPerPair
  BY DEF IInv, Unique
<1>2. QED
  BY <1>1, InductiveInvariant, PTL

(* Whatever writes over whatever, a live mapping has the dates of a        *)
(* request or a line, which are also those its history ends with.          *)
THEOREM GrantedAsked == Spec => []GrantedWasAsked
<1>1. IInv => GrantedWasAsked
  BY DEF IInv
<1>2. QED
  BY <1>1, InductiveInvariant, PTL

-----------------------------------------------------------------------------
(* What an upload leaves.                                                  *)
(* Dates that are those asked for, wherever some were asked for.           *)
Agrees(w, asked) ==
  /\ asked.start # Null => w.start = asked.start
  /\ asked.end # Null => w.end = asked.end

Agreed(p, asked) == \E w \in LiveDates(p) : LiveDates(p) = {w} /\ Agrees(w, asked)

(* A slot does, or has done, what a line of the file is to.                *)
OnCourse(s, i) ==
  LET t == task[s]
      p == Pair(upload.lines[i])
      asked == upload.lines[i].asked
  IN  /\ Pair(t) = p
      /\ t.at \in {"assign", "insert", "write", "done", "failed"}
      /\ t.at = "assign" => t.asked = asked
      /\ t.at \in {"insert", "write"} => Agrees(t.entry, asked)
      /\ t.at = "insert" => RowsOf(p) = {}
      /\ t.at = "write" => RowsOf(p) # {}
      /\ t.at = "done" => Agreed(p, asked)

Serves(s, p) == task[s] # Idle /\ Pair(task[s]) = p

(* Nobody but the slots of the upload is at work, and each of its lines    *)
(* that count has one; pairs of its scope without one are not mapped.      *)
Undisturbed ==
  /\ \A s \in Slots : task[s] # Idle =>
       /\ task[s].kind = "upload"
       /\ \E i \in Passed(upload.lines) : OnCourse(s, i)
  /\ \A s, q \in Slots : task[s] # Idle /\ Serves(q, Pair(task[s])) => q = s
  /\ \A i \in Passed(upload.lines) : \E s \in Slots : Serves(s, Pair(upload.lines[i]))
  /\ \A u \in upload.scope, a \in Users :
       (\A s \in Slots : ~Serves(s, <<u, a>>)) => LiveOf(<<u, a>>) = {}

UploadInv ==
  /\ upload = NoFile => \A s \in Slots : ~OfUpload(s)
  /\ upload # NoFile /\ ~disturbed => Undisturbed

FullInv == IInv /\ UploadInv

Over == {"idle", "done", "failed"}

(* A task that is not idle has a kind.                                     *)
LEMMA UploadSlot ==
  ASSUME Typed, NEW s \in Slots
  PROVE  /\ OfUpload(s) <=> task[s] # Idle /\ task[s].kind = "upload"
         /\ task[s].at \notin Over => task[s] # Idle
  BY TaskFields DEF Typed, OfUpload, Over, Idle

LEMMA DatesAgree ==
  ASSUME NEW asked, asked.end # Null => asked.custom, NEW today, NEW removal
  PROVE  Agrees(AccessDate(asked, today, removal), asked)
BY DEF AccessDate, Agrees

(* What a step leaves of the rows of a pair, as the upload sees them.      *)
SameFor(p) == RowsOf(p)' = RowsOf(p) /\ LiveOf(p)' = LiveOf(p) /\ LiveDates(p)' = LiveDates(p)

LEMMA OnCourseKept ==
  ASSUME NEW s \in Slots, NEW i, OnCourse(s, i), task'[s] = task[s], upload' = upload,
         SameFor(Pair(upload.lines[i]))
  PROVE  OnCourse(s, i)'
<1> DEFINE p == Pair(upload.lines[i])
           asked == upload.lines[i].asked
<1>1. Agreed(p, asked)' <=> Agreed(p, asked)
  BY DEF SameFor, Agreed, Agrees
<1>2. Pair(upload.lines[i])' = p /\ (upload.lines[i].asked)' = asked /\ Pair(task[s])' = Pair(task[s])
  BY DEF Pair
<1>3. Agrees(task[s].entry, asked)' <=> Agrees(task[s].entry, asked)
  BY DEF Agrees
<1>4. RowsOf(p)' = RowsOf(p)
  BY DEF SameFor
<1>5. QED
  BY <1>1, <1>2, <1>3, <1>4 DEF OnCourse

(* A slot of the upload goes on.                                           *)
LEMMA CourseKept ==
  ASSUME Typed, Undisturbed, NEW s \in Slots, task[s] # Idle, upload' = upload,
         \A q \in Slots : q # s => task'[q] = task[q],
         task'[s] # Idle, task'[s].kind = "upload", Pair(task'[s]) = Pair(task[s]),
         \A i \in Passed(upload.lines) : OnCourse(s, i) => OnCourse(s, i)',
         \A p : p # Pair(task[s]) => SameFor(p)
  PROVE  Undisturbed'
<1>1. ASSUME NEW q \in Slots PROVE (task'[q] # Idle <=> task[q] # Idle)
                                   /\ (task[q] # Idle => Pair(task'[q]) = Pair(task[q]))
  BY DEF Pair
<1>2. Passed(upload.lines)' = Passed(upload.lines)
  BY DEF Passed, Kept, Pair
<1>3. ASSUME NEW q \in Slots, task'[q] # Idle
      PROVE  /\ task'[q].kind = "upload"
             /\ \E i \in Passed(upload.lines)' : OnCourse(q, i)'
  <2>2. PICK i \in Passed(upload.lines) : OnCourse(q, i) /\ task[q].kind = "upload"
    BY <1>1, <1>3 DEF Undisturbed
  <2>3. CASE q = s
    BY <1>2, <2>2, <2>3
  <2>4. CASE q # s
    <3>1. ~Serves(q, Pair(task[s]))
      BY <2>4 DEF Undisturbed
    <3>2. Pair(upload.lines[i]) # Pair(task[s])
      BY <1>1, <1>3, <2>2, <3>1 DEF Serves, OnCourse
    <3>3. OnCourse(q, i)'
      BY <2>2, <2>4, <3>2, OnCourseKept
    <3>4. QED
      BY <1>2, <2>2, <2>4, <3>3
  <2>5. QED
    BY <2>3, <2>4
<1>4. ASSUME NEW q \in Slots, NEW r \in Slots, task'[q] # Idle, task'[r] # Idle,
             Pair(task'[r]) = Pair(task'[q])
      PROVE  r = q
  <2>1. task[q] # Idle /\ Serves(r, Pair(task[q]))
    BY <1>1, <1>4 DEF Serves
  <2>2. QED
    BY <2>1 DEF Undisturbed
<1>5. ASSUME NEW i \in Passed(upload.lines)'
      PROVE  \E q \in Slots : task'[q] # Idle /\ Pair(task'[q]) = Pair(upload'.lines[i])
  <2>1. i \in Passed(upload.lines) /\ Pair(upload'.lines[i]) = Pair(upload.lines[i])
    BY DEF Passed, Kept, Pair
  <2>2. PICK q \in Slots : Serves(q, Pair(upload.lines[i]))
    BY <2>1 DEF Undisturbed
  <2>3. QED
    BY <1>1, <2>1, <2>2 DEF Serves
<1>6. ASSUME NEW u \in upload'.scope, NEW a \in Users,
             \A q \in Slots : ~(task'[q] # Idle /\ Pair(task'[q]) = <<u, a>>)
      PROVE  LiveOf(<<u, a>>)' = {}
  <2>1. \A q \in Slots : ~Serves(q, <<u, a>>)
    BY <1>1, <1>6 DEF Serves
  <2>2. LiveOf(<<u, a>>) = {} /\ <<u, a>> # Pair(task[s])
    BY <2>1 DEF Undisturbed, Serves
  <2>3. QED
    BY <2>2 DEF SameFor
<1>7. QED
  BY <1>3, <1>4, <1>5, <1>6 DEF Undisturbed, Serves
(* Any other writer disturbs the upload.                                   *)
LEMMA OthersDisturb ==
  ASSUME UploadInv, upload' = upload, upload # NoFile => disturbed',
         \A s \in Slots : task'[s].at # "idle" /\ task'[s].kind = "upload" => OfUpload(s)
  PROVE  UploadInv'
BY DEF UploadInv, OfUpload

LEMMA OtherBecomes ==
  ASSUME FullInv, NEW s \in Slots, NEW t, ~OfUpload(s), Become(s, t),
         t = Idle \/ t.kind # "upload"
  PROVE  UploadInv'
<1>1. /\ \A q \in Slots : q # s => task'[q] = task[q]
      /\ task'[s] = t /\ upload' = upload
      /\ upload # NoFile => disturbed'
  BY DEF Become, Disturb, FullInv, IInv, Typed
<1>2. ASSUME NEW q \in Slots, task'[q].at # "idle", task'[q].kind = "upload"
      PROVE  OfUpload(q)
  <2>1. q # s
    BY <1>1, <1>2 DEF Idle
  <2>2. QED
    BY <1>1, <1>2, <2>1 DEF OfUpload
<1>3. QED
  BY <1>1, <1>2, OthersDisturb DEF FullInv

LEMMA OtherSettles ==
  ASSUME FullInv, NEW s \in Slots, NEW at, ~OfUpload(s), Settle(s, at)
  PROVE  UploadInv'
BY OtherBecomes DEF Settle

(* A slot of the upload turns to t.                                        *)
LEMMA SlotBecomes ==
  ASSUME FullInv, NEW s \in Slots, NEW t, OfUpload(s), Become(s, t),
         t # Idle, t.kind = "upload", Pair(t) = Pair(task[s]),
         \A i \in Passed(upload.lines) : ~disturbed /\ OnCourse(s, i) => OnCourse(s, i)',
         \A p : p # Pair(task[s]) => SameFor(p)
  PROVE  UploadInv'
<1>1. /\ \A q \in Slots : q # s => task'[q] = task[q]
      /\ task'[s] = t /\ upload' = upload /\ disturbed' = disturbed
  BY DEF Become, FullInv, IInv, Typed
<1>2. upload # NoFile
  BY DEF FullInv, UploadInv
<1>3. ASSUME ~disturbed PROVE Undisturbed'
  <2>1. Undisturbed /\ task[s] # Idle /\ Typed
    BY <1>2, <1>3, UploadSlot DEF FullInv, IInv, UploadInv
  <2>2. QED
    BY <1>1, <1>3, <2>1, CourseKept
<1>4. QED
  BY <1>1, <1>2, <1>3 DEF UploadInv

LEMMA SlotSettles ==
  ASSUME FullInv, NEW s \in Slots, OfUpload(s), NEW at \in {"done", "failed"}, Settle(s, at),
         \A i \in Passed(upload.lines) :
           ~disturbed /\ OnCourse(s, i) /\ at = "done" =>
             Agreed(Pair(upload.lines[i]), upload.lines[i].asked)',
         \A p : p # Pair(task[s]) => SameFor(p)
  PROVE  UploadInv'
<1> DEFINE t == [at |-> at, kind |-> "upload", user |-> task[s].user,
                 alias |-> task[s].alias]
<1>1. Become(s, t) /\ Pair(t) = Pair(task[s]) /\ t.at = at /\ t.kind = "upload" /\ t # Idle
  BY DEF Settle, Pair, Idle
<1> HIDE DEF t
<1>2. task'[s] = t /\ upload' = upload
  BY <1>1 DEF Become, FullInv, IInv, Typed
<1>3. ASSUME NEW i \in Passed(upload.lines), ~disturbed, OnCourse(s, i)
      PROVE  OnCourse(s, i)'
  <2>1. Pair(upload'.lines[i]) = Pair(upload.lines[i]) /\ upload'.lines[i].asked = upload.lines[i].asked
    BY <1>2
  <2>2. Pair(task'[s]) = Pair(upload.lines[i]) /\ task'[s].at \in {"done", "failed"}
    BY <1>1, <1>2, <1>3 DEF OnCourse
  <2>3. task'[s].at = "done" => Agreed(Pair(upload.lines[i]), upload.lines[i].asked)'
    BY <1>1, <1>2, <1>3
  <2>4. QED
    BY <2>1, <2>2, <2>3 DEF OnCourse
<1>4. QED
  BY <1>1, <1>3, SlotBecomes

(* The steps, one by one.                                                  *)
LEMMA RequestUpload ==
  ASSUME FullInv, NEW s \in Slots, NEW u, NEW a, NEW asked,
         AddAlias(s, u, a, asked) \/ UpdateAccess(s, u, a, asked) \/ RemoveAlias(s, u, a)
  PROVE  UploadInv'
<1>1. task[s] = Idle
  BY DEF AddAlias, UpdateAccess, RemoveAlias
<1>2. ~OfUpload(s)
  BY <1>1 DEF OfUpload, Idle
<1>3. PICK t : Become(s, t) /\ t.kind \in {"add", "update", "remove"}
  <2>1. ASSUME NEW kind, NEW p, NEW entry, NEW past
        PROVE  /\ WillWrite(kind, p, entry, past).kind = kind
               /\ WillInsert(kind, p, entry).kind = kind
    BY DEF WillWrite, WillInsert
  <2>2. CASE AddAlias(s, u, a, asked)
    BY <2>1, <2>2 DEF AddAlias, FindNone
  <2>3. CASE UpdateAccess(s, u, a, asked)
    BY <2>1, <2>3 DEF UpdateAccess
  <2>4. CASE RemoveAlias(s, u, a)
    BY <2>1, <2>4 DEF RemoveAlias
  <2>5. QED
    BY <2>2, <2>3, <2>4
<1>4. QED
  BY <1>2, <1>3, OtherBecomes

LEMMA SameTableFor ==
  ASSUME UNCHANGED <<rows, deleted>>
  PROVE  \A p : SameFor(p)
BY DEF SameFor, LiveDates, LiveOf, RowsOf

LEMMA FindMappingUpload ==
  ASSUME FullInv, NEW s \in Slots, FindMapping(s)
  PROVE  UploadInv'
<1>1. task[s] \in Tasks /\ task[s].at = "assign" /\ UNCHANGED <<rows, deleted>>
  BY DEF FullInv, IInv, Typed, FindMapping
<1>2. OfUpload(s)
  BY <1>1 DEF Tasks, Idle, OfUpload
<1>3. PICK t :
        /\ Become(s, t) /\ t.at \in {"insert", "write"} /\ t.kind = "upload"
        /\ Pair(t) = Pair(task[s])
        /\ \E today : t.entry = AccessDate(task[s].asked, today, "no")
        /\ t.at = "insert" => RowsOf(Pair(task[s])) = {}
        /\ t.at = "write" => RowsOf(Pair(task[s])) # {}
  <2> DEFINE p == Pair(task[s])
  <2>1. PICK today \in Days :
          LET entry == AccessDate(task[s].asked, today, "no")
          IN  \/ FindNone(s, "upload", p, entry)
              \/ \E i \in RowsOf(p) : Become(s, WillWrite("upload", p, entry, rows[i].history))
    BY DEF FindMapping
  <2> DEFINE entry == AccessDate(task[s].asked, today, "no")
  <2>2. CASE FindNone(s, "upload", p, entry)
    BY <2>2 DEF FindNone, WillInsert, Pair
  <2>3. CASE \E i \in RowsOf(p) : Become(s, WillWrite("upload", p, entry, rows[i].history))
    BY <2>3 DEF WillWrite, Pair
  <2>4. QED
    BY <2>1, <2>2, <2>3
<1>4. t # Idle
  BY <1>3 DEF Idle
<1>5. task'[s] = t /\ upload' = upload /\ rows' = rows /\ deleted' = deleted
  BY <1>1, <1>3 DEF Become, FullInv, IInv, Typed
<1>6. ASSUME NEW i \in Passed(upload.lines), OnCourse(s, i)
      PROVE  OnCourse(s, i)'
  <2>1. /\ Pair(task[s]) = Pair(upload.lines[i]) /\ task[s].asked = upload.lines[i].asked
    BY <1>1, <1>6 DEF OnCourse
  <2>2. RowsOf(Pair(upload.lines[i]))' = RowsOf(Pair(upload.lines[i]))
    BY <1>5 DEF RowsOf, Pair
  <2>3. upload \in Files /\ i \in DOMAIN upload.lines
    BY <1>2 DEF FullInv, UploadInv, IInv, Typed, Passed, Kept
  <2>4. upload.lines[i].asked.end # Null => upload.lines[i].asked.custom
    BY <2>3, AliasAssumption
  <2>5. Agrees(task'[s].entry, upload'.lines[i].asked)
    BY <1>3, <1>5, <2>1, <2>4, DatesAgree
  <2>6. QED
    BY <1>3, <1>5, <2>1, <2>2, <2>5 DEF OnCourse, Agrees
<1>7. \A p : SameFor(p)
  BY <1>5, SameTableFor
<1>8. QED
  BY <1>2, <1>3, <1>4, <1>6, <1>7, SlotBecomes

LEMMA FailUpload ==
  ASSUME FullInv, NEW s \in Slots, Fail(s)
  PROVE  UploadInv'
<1>1. Settle(s, "failed") /\ \A p : SameFor(p)
  BY SameTableFor DEF Fail
<1>2. CASE ~OfUpload(s)
  BY <1>1, <1>2, OtherSettles
<1>3. CASE OfUpload(s)
  BY <1>1, <1>3, SlotSettles
<1>4. QED
  BY <1>2, <1>3
(* A row that no step rewrites stays what it is to the upload.             *)
LEMMA SameForWhere ==
  ASSUME NEW p, RowsOf(p)' = RowsOf(p), LiveOf(p)' = LiveOf(p),
         \A i \in RowsOf(p) : rows'[i] = rows[i]
  PROVE  SameFor(p)
<1>1. \A i \in LiveOf(p) : rows'[i] = rows[i]
  BY DEF LiveOf
<1>2. LiveDates(p)' = LiveDates(p)
  BY <1>1 DEF LiveDates
<1>3. QED
  BY <1>2 DEF SameFor

(* Rows that are all live and have the dates of entry are agreed.          *)
LEMMA AllAgreed ==
  ASSUME NEW p, NEW asked, NEW entry, Agrees(entry, asked), LiveOf(p)' # {},
         \A i \in LiveOf(p)' : rows'[i].start = entry.start /\ rows'[i].end = entry.end
  PROVE  Agreed(p, asked)'
<1> DEFINE d == [start |-> entry.start, end |-> entry.end]
<1>1. LiveDates(p)' = {d}
  BY DEF LiveDates
<1>2. d.start = entry.start /\ d.end = entry.end
  OBVIOUS
<1> HIDE DEF d
<1>3. Agrees(d, asked)'
  BY <1>2 DEF Agrees
<1>4. QED
  BY <1>1, <1>3 DEF Agreed

LEMMA InsertLandsUpload ==
  ASSUME FullInv, NEW s \in Slots, InsertLands(s)
  PROVE  UploadInv'
<1> DEFINE n == Len(rows) + 1
<1>0. PICK p : p = Pair(task[s])
  OBVIOUS
<1>1. /\ Typed /\ task[s].at = "insert" /\ Settle(s, "done") /\ deleted' = deleted
  BY DEF FullInv, IInv, InsertLands
<1>2. /\ DOMAIN rows' = DOMAIN rows \cup {n} /\ n \notin DOMAIN rows
      /\ Pair(rows'[n]) = p /\ rows'[n].start = task[s].entry.start
      /\ rows'[n].end = task[s].entry.end
      /\ \A i \in DOMAIN rows : rows'[i] = rows[i]
  <2> DEFINE new == [user |-> task[s].user, alias |-> task[s].alias,
                     start |-> task[s].entry.start, end |-> task[s].entry.end,
                     history |-> <<task[s].entry>>]
  <2>1. rows \in Seq(Row) /\ rows' = Append(rows, new)
    BY <1>1 DEF Typed, InsertLands
  <2>2. Pair(new) = p /\ new.start = task[s].entry.start /\ new.end = task[s].entry.end
    BY <1>0 DEF Pair
  <2> HIDE DEF new
  <2>3. rows'[n] = new /\ DOMAIN rows' = DOMAIN rows \cup {n} /\ n \notin DOMAIN rows
        /\ \A i \in DOMAIN rows : rows'[i] = rows[i]
    BY <2>1
  <2>4. QED
    BY <2>2, <2>3
<1>3. deleted \subseteq DOMAIN rows
  BY <1>1 DEF Typed
<1> HIDE DEF n
<1>4. ASSUME NEW q, q # p PROVE SameFor(q)
  <2>1. RowsOf(q)' = RowsOf(q)
    BY <1>2, <1>4 DEF RowsOf, Pair
  <2>2. LiveOf(q)' = LiveOf(q)
    BY <1>1, <2>1 DEF LiveOf
  <2>3. \A i \in RowsOf(q) : rows'[i] = rows[i]
    BY <1>2 DEF RowsOf
  <2>4. QED
    BY <2>1, <2>2, <2>3, SameForWhere
<1>5. CASE ~OfUpload(s)
  BY <1>1, <1>5, OtherSettles
<1>6. CASE OfUpload(s)
  <2>1. ASSUME NEW i \in Passed(upload.lines), OnCourse(s, i)
        PROVE  Agreed(Pair(upload.lines[i]), upload.lines[i].asked)'
    <3>1. PICK asked : asked = upload.lines[i].asked
      OBVIOUS
    <3>2. /\ Pair(upload.lines[i]) = p /\ RowsOf(p) = {} /\ Agrees(task[s].entry, asked)
      BY <1>0, <1>1, <2>1, <3>1 DEF OnCourse
    <3>3. RowsOf(p)' = {n}
      BY <1>2, <3>2 DEF RowsOf, Pair
    <3>4. LiveOf(p)' = {n}
      BY <1>1, <1>2, <1>3, <3>3 DEF LiveOf
    <3>5. Agreed(p, asked)'
      BY <1>2, <3>2, <3>4, AllAgreed
    <3>6. upload' = upload
      BY <1>1 DEF Settle, Become
    <3>7. QED
      BY <3>1, <3>2, <3>5, <3>6 DEF Agreed, Agrees, Pair
  <2>2. QED
    BY <1>0, <1>1, <1>4, <1>6, <2>1, SlotSettles
<1>7. QED
  BY <1>5, <1>6

LEMMA WriteMappingUpload ==
  ASSUME FullInv, NEW s \in Slots, WriteMapping(s)
  PROVE  UploadInv'
<1>0. PICK p : p = Pair(task[s])
  OBVIOUS
<1>1. /\ Typed /\ task[s].at = "write" /\ Settle(s, "done")
      /\ rows' = Rewritten(RowsOf(p), task[s].entry, task[s].past)
      /\ deleted' \in {deleted \cup RowsOf(p), deleted, deleted \ RowsOf(p)}
  BY <1>0 DEF FullInv, IInv, WriteMapping
<1>2. OfUpload(s) => deleted' = deleted \ RowsOf(p)
  BY <1>0 DEF WriteMapping, OfUpload
<1>3. task[s].entry \in Entry /\ task[s].past \in Seq(Entry)
  BY <1>1, TaskFields DEF Typed
<1>4. /\ DOMAIN rows' = DOMAIN rows /\ \A i \in DOMAIN rows : Pair(rows'[i]) = Pair(rows[i])
      /\ \A i \in DOMAIN rows \ RowsOf(p) : rows'[i] = rows[i]
      /\ \A i \in DOMAIN rows \cap RowsOf(p) :
           rows'[i].start = task[s].entry.start /\ rows'[i].end = task[s].entry.end
  <2>1. rows \in Seq(Row)
    BY <1>1 DEF Typed
  <2>2. QED
    BY <1>1, <1>3, <2>1, Rewriting
<1>5. \A q : RowsOf(q)' = RowsOf(q)
  BY <1>4 DEF RowsOf, Pair
<1>6. ASSUME NEW q, q # p PROVE SameFor(q)
  <2>1. RowsOf(q) \cap RowsOf(p) = {} /\ RowsOf(q) \subseteq DOMAIN rows
    BY <1>6 DEF RowsOf
  <2>2. LiveOf(q)' = LiveOf(q)
    BY <1>1, <1>5, <2>1 DEF LiveOf
  <2>3. \A i \in RowsOf(q) : rows'[i] = rows[i]
    BY <1>4, <2>1
  <2>4. QED
    BY <1>5, <2>2, <2>3, SameForWhere
<1>7. CASE ~OfUpload(s)
  BY <1>1, <1>7, OtherSettles
<1>8. CASE OfUpload(s)
  <2>1. ASSUME NEW i \in Passed(upload.lines), OnCourse(s, i)
        PROVE  Agreed(Pair(upload.lines[i]), upload.lines[i].asked)'
    <3>1. PICK asked : asked = upload.lines[i].asked
      OBVIOUS
    <3>2. /\ Pair(upload.lines[i]) = p /\ RowsOf(p) # {} /\ Agrees(task[s].entry, asked)
      BY <1>0, <1>1, <2>1, <3>1 DEF OnCourse
    <3>3. LiveOf(p)' = RowsOf(p) /\ RowsOf(p) \subseteq DOMAIN rows
      BY <1>2, <1>5, <1>8 DEF LiveOf, RowsOf
    <3>4. Agreed(p, asked)'
      BY <1>4, <3>2, <3>3, AllAgreed
    <3>5. upload' = upload
      BY <1>1 DEF Settle, Become
    <3>6. QED
      BY <3>1, <3>2, <3>4, <3>5 DEF Agreed, Agrees, Pair
  <2>2. QED
    BY <1>0, <1>1, <1>6, <1>8, <2>1, SlotSettles
<1>9. QED
  BY <1>7, <1>8

LEMMA RemoveAllUpload ==
  ASSUME FullInv, NEW u \in Users, RemoveAll(u)
  PROVE  UploadInv'
<1>1. upload' = upload /\ task' = task
  BY DEF RemoveAll
<1>2. upload # NoFile => disturbed'
  BY DEF RemoveAll, Disturb
<1>3. QED
  BY <1>1, <1>2, OthersDisturb DEF FullInv, OfUpload

(* The lines that count are of different pairs.                            *)
LEMMA PassedLines ==
  ASSUME NEW lines \in Seq(Line)
  PROVE  /\ Passed(lines) \subseteq DOMAIN lines /\ DOMAIN lines \subseteq Nat
         /\ \A i, j \in Passed(lines) : Pair(lines[i]) = Pair(lines[j]) => i = j
<1>1. Passed(lines) \subseteq DOMAIN lines
  BY DEF Passed, Kept
<1>2. DOMAIN lines \subseteq Nat
  OBVIOUS
<1>3. \A i, j \in Passed(lines) : i < j => Pair(lines[i]) # Pair(lines[j])
  BY <1>1 DEF Passed, Kept
<1>4. ASSUME NEW i \in Passed(lines), NEW j \in Passed(lines), Pair(lines[i]) = Pair(lines[j])
      PROVE  i = j
  <2>1. ~(i < j) /\ ~(j < i)
    BY <1>3, <1>4
  <2>2. i \in Nat /\ j \in Nat
    BY <1>1, <1>2
  <2>3. QED
    BY <2>1, <2>2
<1>5. QED
  BY <1>1, <1>2, <1>4

(* The lines of a file that nobody is in the way of.                       *)
LEMMA UploadUpload ==
  ASSUME FullInv, NEW file \in Files, Upload(file)
  PROVE  UploadInv'
<1> DEFINE lines == file.lines
           passed == Passed(lines)
<1>1. /\ Typed /\ upload = NoFile /\ upload' = file /\ file # NoFile
      /\ deleted' = deleted \cup InScope(file.scope)
      /\ disturbed' = \E s \in Slots : Busy(s)
  BY DEF FullInv, IInv, Upload
<1>2. SUFFICES ASSUME \A s \in Slots : ~Busy(s) PROVE Undisturbed'
  BY <1>1 DEF UploadInv
<1>3. ASSUME NEW s \in Slots PROVE task[s] = Idle
  <2>1. task[s] \in Tasks /\ ~OfUpload(s) /\ task[s].at \in Over
    BY <1>1, <1>2 DEF Typed, FullInv, UploadInv, Busy, Over
  <2>2. QED
    BY <2>1 DEF Tasks, OfUpload, Over, Idle
<1>4. PICK serve \in Injection(passed, { s \in Slots : task[s] = Idle }) :
        task' = [s \in Slots |->
                   IF \E i \in DOMAIN serve : serve[i] = s
                   THEN LineTask(lines[CHOOSE i \in DOMAIN serve : serve[i] = s])
                   ELSE task[s]]
  BY DEF Upload
<1>5. lines \in Seq(Line)
  BY AliasAssumption
<1>6. /\ passed \subseteq DOMAIN lines
      /\ \A i, j \in passed : Pair(lines[i]) = Pair(lines[j]) => i = j
  BY <1>5, PassedLines
<1>7. /\ DOMAIN serve = passed /\ \A i \in passed : serve[i] \in Slots
      /\ \A i, j \in passed : serve[i] = serve[j] => i = j
  BY <1>4 DEF Injection, IsInjective
<1> HIDE DEF passed, lines
<1>8. ASSUME NEW i \in passed
      PROVE  /\ LineTask(lines[i]) # Idle /\ LineTask(lines[i]).at = "assign"
             /\ LineTask(lines[i]).kind = "upload" /\ LineTask(lines[i]).asked = lines[i].asked
             /\ Pair(LineTask(lines[i])) = Pair(lines[i])
  BY DEF LineTask, Pair, Idle
<1>9. ASSUME NEW i \in passed PROVE task'[serve[i]] = LineTask(lines[i])
  <2> DEFINE k == CHOOSE k \in DOMAIN serve : serve[k] = serve[i]
  <2>1. k \in passed /\ serve[k] = serve[i]
    BY <1>7
  <2>2. k = i
    BY <1>7, <2>1
  <2>3. task'[serve[i]] = LineTask(lines[k])
    BY <1>4, <1>7
  <2>4. QED
    BY <2>2, <2>3
<1>10. ASSUME NEW s \in Slots, task'[s] # Idle
       PROVE  \E i \in passed : serve[i] = s
  BY <1>3, <1>4, <1>7, <1>10
<1>11. passed = Passed(upload'.lines) /\ lines = upload'.lines
  BY <1>1 DEF passed, lines
<1>12. ASSUME NEW s \in Slots, task'[s] # Idle
       PROVE  /\ task'[s].kind = "upload"
              /\ \E i \in Passed(upload.lines)' : OnCourse(s, i)'
  <2>1. PICK i \in passed : task'[s] = LineTask(lines[i])
    BY <1>9, <1>10, <1>12
  <2>2. OnCourse(s, i)'
    BY <1>8, <1>11, <2>1 DEF OnCourse
  <2>3. Passed(upload.lines)' = passed
    BY <1>11 DEF Passed, Kept, Pair
  <2>4. QED
    BY <1>8, <2>1, <2>2, <2>3
<1>13. ASSUME NEW s \in Slots, NEW q \in Slots, task'[s] # Idle, task'[q] # Idle,
              Pair(task'[q]) = Pair(task'[s])
       PROVE  q = s
  <2>1. PICK i \in passed : serve[i] = s
    BY <1>10, <1>13
  <2>2. PICK j \in passed : serve[j] = q
    BY <1>10, <1>13
  <2>3. Pair(lines[i]) = Pair(lines[j])
    BY <1>8, <1>9, <1>13, <2>1, <2>2
  <2>4. QED
    BY <1>6, <2>1, <2>2, <2>3
<1>14. ASSUME NEW i \in passed
       PROVE  \E s \in Slots : task'[s] # Idle /\ Pair(task'[s]) = Pair(lines[i])
  BY <1>7, <1>8, <1>9
<1>15. ASSUME NEW u \in file.scope, NEW a \in Users PROVE LiveOf(<<u, a>>)' = {}
  <2>1. \A i \in RowsOf(<<u, a>>)' : i \in DOMAIN rows /\ rows[i].user = u
    <3>1. PICK entry \in Entry, past \in Seq(Entry) : rows' = Rewritten(InScope(file.scope), entry, past)
      <4>1. PICK today \in Days :
              rows' = Rewritten(InScope(file.scope), AccessDate(NoDates, today, "yes"), <<>>)
        BY DEF Upload
      <4>2. AccessDate(NoDates, today, "yes") \in Entries("yes")
        BY AliasAssumption, NoDatesDated, Dating
      <4>3. AccessDate(NoDates, today, "yes") \in Entry /\ <<>> \in Seq(Entry)
        BY <4>2 DEF Entries, Entry
      <4>4. QED
        BY <4>1, <4>3
    <3>3. rows \in Seq(Row)
      BY <1>1 DEF Typed
    <3>4. DOMAIN rows' = DOMAIN rows /\ \A i \in DOMAIN rows : Pair(rows'[i]) = Pair(rows[i])
      BY <3>1, <3>3, Rewriting
    <3>5. ASSUME NEW i \in DOMAIN rows, Pair(rows'[i]) = <<u, a>> PROVE rows[i].user = u
      BY <3>4, <3>5 DEF Pair
    <3>6. QED
      BY <3>4, <3>5 DEF RowsOf, Pair
  <2>2. QED
    BY <1>1, <2>1 DEF LiveOf, InScope
<1>16. QED
  <2>1. Passed(upload.lines)' = passed
    BY <1>11 DEF Passed, Kept, Pair
  <2>2. \A i \in Passed(upload.lines)' : \E s \in Slots : Serves(s, Pair(upload.lines[i]))'
    BY <1>11, <1>14, <2>1 DEF Serves, Pair
  <2>3. QED
    BY <1>1, <1>12, <1>13, <1>15, <2>2 DEF Undisturbed, Serves

LEMMA UploadAnswerUpload ==
  ASSUME FullInv, UploadAnswer
  PROVE  UploadInv'
<1>1. upload' = NoFile /\ \A s \in Slots : task'[s] = IF OfUpload(s) THEN Idle ELSE task[s]
  BY DEF UploadAnswer
<1>2. ASSUME NEW s \in Slots PROVE ~(task'[s].at # "idle" /\ task'[s].kind = "upload")
  BY <1>1 DEF OfUpload, Idle
<1>3. QED
  BY <1>1, <1>2 DEF UploadInv, OfUpload

LEMMA UploadNext == FullInv /\ [Next]_vars => UploadInv'
<1> SUFFICES ASSUME FullInv, [Next]_vars PROVE UploadInv'
  OBVIOUS
<1>1. ASSUME NEW s \in Slots, NEW u \in Users, NEW a \in Users, NEW asked,
             AddAlias(s, u, a, asked) \/ UpdateAccess(s, u, a, asked) \/ RemoveAlias(s, u, a)
      PROVE  UploadInv'
  BY <1>1, RequestUpload
<1>2. ASSUME NEW s \in Slots, FindMapping(s) \/ InsertLands(s) \/ WriteMapping(s)
      PROVE  UploadInv'
  BY <1>2, FindMappingUpload, InsertLandsUpload, WriteMappingUpload
<1>3. ASSUME NEW s \in Slots, Fail(s) PROVE UploadInv'
  BY <1>3, FailUpload
<1>4. ASSUME NEW u \in Users, RemoveAll(u) PROVE UploadInv'
  BY <1>4, RemoveAllUpload
<1>5. ASSUME NEW file \in Files, Upload(file) PROVE UploadInv'
  BY <1>5, UploadUpload
<1>6. CASE UploadAnswer
  BY <1>6, UploadAnswerUpload
<1>7. CASE UNCHANGED vars
  <2>1. /\ upload' = upload /\ disturbed' = disturbed
        /\ \A s \in Slots : task'[s] = task[s]
    BY <1>7 DEF vars
  <2>2. \A p : SameFor(p)
    BY <1>7, SameTableFor DEF vars
  <2>3. ASSUME Undisturbed PROVE Undisturbed'
    <3>1. \A s \in Slots, i \in Passed(upload.lines) : OnCourse(s, i) => OnCourse(s, i)'
      BY <2>1, <2>2, OnCourseKept
    <3>2. Passed(upload.lines)' = Passed(upload.lines)
      BY <2>1 DEF Passed, Kept, Pair
    <3>3. \A i : Pair(upload.lines[i])' = Pair(upload.lines[i])
      BY <2>1 DEF Pair
    <3>4. \A s \in Slots : Pair(task[s])' = Pair(task[s])
      BY <2>1 DEF Pair
    <3>5. QED
      BY <2>1, <2>2, <2>3, <3>1, <3>2, <3>3, <3>4 DEF Undisturbed, Serves, SameFor
  <2>4. QED
    BY <2>1, <2>3 DEF FullInv, UploadInv, OfUpload
<1>8. QED
  BY <1>1, <1>2, <1>3, <1>4, <1>5, <1>6, <1>7 DEF Next

LEMMA FullInvariant == Spec => []FullInv
<1>1. Init => FullInv
  BY InvInit DEF Init, FullInv, UploadInv, OfUpload, Idle
<1>2. FullInv /\ [Next]_vars => FullInv'
  BY InvNext, UploadNext DEF FullInv
<1>3. QED
  BY <1>1, <1>2, PTL DEF Spec

(* Of the lines of a pair there is a last one.                             *)
LEMMA LastLineExists ==
  ASSUME NEW n \in Nat, NEW S \in SUBSET (1 .. n), S # {}
  PROVE  \E i \in S : \A k \in S : k <= i
<1> DEFINE T == { n - i : i \in S }
<1>1. T \in SUBSET Nat /\ T # {}
  <2>1. \A i \in S : n - i \in Nat
    OBVIOUS
  <2>2. PICK i \in S : TRUE
    OBVIOUS
  <2>3. n - i \in T
    OBVIOUS
  <2>4. QED
    BY <2>1, <2>3
<1>2. PICK m \in T : \A k \in T : ~ (<<k, m>> \in OpToRel(<, Nat))
  <2> HIDE DEF T
  <2>1. QED
    BY <1>1, NatLessThanWellFounded, WFMin
<1>3. \A k \in T : ~ (k < m)
  BY <1>1, <1>2 DEF OpToRel
<1>4. PICK i \in S : m = n - i
  OBVIOUS
<1>5. ASSUME NEW k \in S PROVE k <= i
  <2>1. ~ (n - k < n - i)
    BY <1>3, <1>4
  <2>2. QED
    BY <2>1
<1>6. QED
  BY <1>5

LEMMA UploadEndsAsTheFile == FullInv => UploadIsTheFile
<1> SUFFICES ASSUME FullInv, UploadSettled, ~disturbed, NEW u \in upload.scope, NEW a \in Users,
                    \A s \in Slots : ~(OfUpload(s) /\ Pair(task[s]) = <<u, a>> /\ task[s].at = "failed")
             PROVE  AsTheFileSays(<<u, a>>)
  BY DEF UploadIsTheFile
<1> DEFINE lines == upload.lines
           p == <<u, a>>
<1>1. Typed /\ Undisturbed /\ upload \in Files
  BY DEF FullInv, IInv, UploadInv, UploadSettled, Typed
<1>2. lines \in Seq(Line)
  BY <1>1, AliasAssumption
<1>3. /\ Passed(lines) \subseteq DOMAIN lines
      /\ \A i, j \in Passed(lines) : Pair(lines[i]) = Pair(lines[j]) => i = j
  BY <1>2, PassedLines
<1> DEFINE last == CHOOSE i \in LinesOf(p) : \A k \in LinesOf(p) : k <= i
<1>4. CASE LinesOf(p) = {} \/ p[1] = p[2] \/ ~Valid(lines[last])
  <2>1. \A s \in Slots : ~Serves(s, p)
    <3>1. SUFFICES ASSUME NEW s \in Slots, Serves(s, p) PROVE FALSE
      OBVIOUS
    <3>2. PICK i \in Passed(lines) : Pair(lines[i]) = p
      BY <1>1, <3>1 DEF Undisturbed, OnCourse, Serves
    <3>3. /\ i \in LinesOf(p) /\ i \in Kept(lines) /\ Valid(lines[i])
          /\ lines[i].user # lines[i].alias
      BY <1>3, <3>2 DEF LinesOf, Passed, Valid
    <3>4. \A k \in LinesOf(p) : k <= i
      <4>1. \A k \in DOMAIN lines : k > i => Pair(lines[k]) # p
        BY <3>2, <3>3 DEF Kept
      <4>2. LinesOf(p) \subseteq DOMAIN lines /\ DOMAIN lines \subseteq Nat
        BY <1>2 DEF LinesOf
      <4>3. QED
        BY <3>3, <4>1, <4>2 DEF LinesOf
    <3>5. last = i
      <4>1. last \in LinesOf(p) /\ \A k \in LinesOf(p) : k <= last
        BY <3>3, <3>4
      <4>2. LinesOf(p) \subseteq Nat
        BY <1>2 DEF LinesOf
      <4> HIDE DEF last
      <4>3. QED
        BY <3>3, <3>4, <4>1, <4>2
    <3>6. p[1] # p[2]
      BY <3>2, <3>3 DEF Pair
    <3>7. QED
      BY <1>4, <3>3, <3>5, <3>6
  <2>2. LiveOf(p) = {}
    BY <1>1, <2>1 DEF Undisturbed
  <2>3. QED
    BY <1>4, <2>2 DEF AsTheFileSays
<1>5. CASE LinesOf(p) # {} /\ p[1] # p[2] /\ Valid(lines[last])
  <2>1. last \in LinesOf(p) /\ \A k \in LinesOf(p) : k <= last
    <3>1. LinesOf(p) \in SUBSET (1 .. Len(lines)) /\ Len(lines) \in Nat
      BY <1>2 DEF LinesOf
    <3>2. \E i \in LinesOf(p) : \A k \in LinesOf(p) : k <= i
      BY <1>5, <3>1, LastLineExists
    <3>3. QED
      BY <3>2
  <2> HIDE DEF last
  <2>2. last \in Passed(lines) /\ Pair(lines[last]) = p
    <3>1. last \in DOMAIN lines /\ Pair(lines[last]) = p /\ DOMAIN lines \subseteq Nat
      BY <1>2, <2>1 DEF LinesOf
    <3>2. \A k \in DOMAIN lines : k > last => Pair(lines[k]) # p
      BY <2>1, <3>1 DEF LinesOf
    <3>3. lines[last].user # lines[last].alias
      BY <1>5, <3>1 DEF Pair
    <3>4. QED
      BY <1>5, <3>1, <3>2, <3>3 DEF Passed, Kept
  <2>3. PICK s \in Slots : Serves(s, p)
    BY <1>1, <2>2 DEF Undisturbed
  <2>4. PICK i \in Passed(lines) : OnCourse(s, i) /\ task[s].kind = "upload"
    BY <1>1, <2>3 DEF Undisturbed, Serves
  <2>5. i = last
    BY <1>3, <2>2, <2>3, <2>4 DEF Serves, OnCourse
  <2>6. task[s].at = "done"
    <3>1. OfUpload(s) /\ ~Busy(s)
      BY <1>1, <2>3, <2>4, UploadSlot DEF Serves, UploadSettled
    <3>2. task[s].at \in {"assign", "insert", "write", "done", "failed"} /\ task[s].at # "failed"
      BY <2>3, <2>4, <3>1 DEF OnCourse, Serves
    <3>3. QED
      BY <3>1, <3>2 DEF Busy
  <2>7. Agreed(p, lines[last].asked)
    BY <2>2, <2>4, <2>5, <2>6 DEF OnCourse
  <2>8. QED
    BY <1>5, <2>7 DEF AsTheFileSays, Agreed, Agrees, last
<1>6. QED
  BY <1>4, <1>5

(* Whatever files, slots and requests before and after it, an upload that  *)
(* met no other writer leaves the mappings that its file says, but for the *)
(* pairs whose line failed.                                                *)
THEOREM UploadLeavesTheFile == Spec => []UploadIsTheFile
BY FullInvariant, UploadEndsAsTheFile, PTL
=============================================================================
