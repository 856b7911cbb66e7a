---------------------------- MODULE VisibilityProofs ----------------------------
(***************************************************************************)
(* What TLAPS proves of what users are shown of each other's mail.         *)
(*                                                                         *)
(* Of SuppressionList, for every set of users, lists, items and callers:   *)
(* the flags are those asked for, and a reader gets the contents that go   *)
(* with them, but for the overlaps the module names.                       *)
(*                                                                         *)
(* Of ContactAccess, for any colleagues, contacts, mail, grants, searches  *)
(* and number of changes: what a reader is shown was granted to him, and   *)
(* what was granted to him all along he is shown.                          *)
(*                                                                         *)
(* Of ThreadListing, for any threads, copies, mail, dates and size of a    *)
(* page: going through the pages misses no row that nothing happened to,   *)
(* and what they show the dates allowed.                                   *)
(***************************************************************************)
EXTENDS SuppressionList, ContactAccess, ThreadListing,
        FiniteSetTheorems, WellFoundedInduction, TLAPS

USE SuppressionAssumption

Task == {Free} \cup [at : {"clear"}, user : Users]
               \cup [at : {"flag"}, users : SUBSET Users, resets : {"yes", "no"}]

(* While a request reads and the flags were always those asked for, they   *)
(* still are, and it has been noted who is on the list and who is not.     *)
Noted == Reading /\ watch # Apart =>
           /\ suppressed = wanted
           /\ wanted \subseteq watch.held /\ Users \ wanted \subseteq watch.free

SuppressionInv == SuppressionTypeOK /\ SuppressionIsAsAsked /\ Noted /\ HidesAsAsked

(* A task is told by its at, and has the fields that go with it.           *)
LEMMA TaskFields ==
  ASSUME NEW t \in Task
  PROVE  /\ t.at = "flag" => t.users \subseteq Users /\ t.resets \in {"yes", "no"} /\ t # Free
         /\ t.at = "clear" => t.user \in Users /\ t # Free
         /\ t # Free => t.at \in {"flag", "clear"}
  BY DEF Task, Free

LEMMA SuppressionInitInv == SuppressionInit => SuppressionInv
<1> SUFFICES ASSUME SuppressionInit PROVE SuppressionInv
  OBVIOUS
<1>1. SuppressionTypeOK
  BY DEF SuppressionInit, SuppressionTypeOK, Free
<1>2. Pending = {}
  BY DEF SuppressionInit, Pending, Free
<1>3. SuppressionIsAsAsked /\ Noted /\ HidesAsAsked
  BY <1>2 DEF SuppressionInit, SuppressionIsAsAsked, Noted, HidesAsAsked, Reading
<1>4. QED
  BY <1>1, <1>3 DEF SuppressionInv

(* What one task adds to what several do.                                  *)
LEMMA WithoutOne ==
  ASSUME NEW S, NEW f, NEW c
  PROVE  /\ c \in S => UNION { f[d].users : d \in S }
                          = (UNION { f[d].users : d \in S \ {c} }) \cup f[c].users
         /\ c \notin S => S \ {c} = S
<1>1. ASSUME c \in S, NEW u
      PROVE  u \in UNION { f[d].users : d \in S }
               <=> u \in (UNION { f[d].users : d \in S \ {c} }) \cup f[c].users
  <2>1. ASSUME u \in UNION { f[d].users : d \in S }
        PROVE  u \in (UNION { f[d].users : d \in S \ {c} }) \cup f[c].users
    <3>1. PICK d \in S : u \in f[d].users
      BY <2>1
    <3>2. CASE d = c
      <4>1. u \in f[c].users
        BY <3>1, <3>2
      <4>2. QED
        BY <4>1
    <3>3. CASE d # c
      <4>1. d \in S \ {c}
        BY <3>3
      <4>2. QED
        BY <3>1, <4>1
    <3>4. QED
      BY <3>2, <3>3
  <2>2. ASSUME u \in (UNION { f[d].users : d \in S \ {c} }) \cup f[c].users
        PROVE  u \in UNION { f[d].users : d \in S }
    <3>1. CASE u \in f[c].users
      BY <1>1, <3>1
    <3>2. CASE u \in UNION { f[d].users : d \in S \ {c} }
      <4>1. PICK d \in S \ {c} : u \in f[d].users
        BY <3>2
      <4>2. QED
        BY <4>1
    <3>3. QED
      BY <2>2, <3>1, <3>2
  <2>3. QED
    BY <2>1, <2>2
<1>2. c \notin S => S \ {c} = S
  OBVIOUS
<1>3. QED
  BY <1>1, <1>2

(* The steps of the list, one by one: types and flags.                     *)
LEMMA ListKeeps ==
  ASSUME SuppressionInv, ListNext
  PROVE  /\ suppressed' \subseteq Users /\ wanted' \subseteq Users
         /\ crossed' \in BOOLEAN /\ call' \in [Callers -> Task]
         /\ SuppressionIsAsAsked'
<1> USE DEF SuppressionInv, SuppressionTypeOK
<1>0. call \in [Callers -> Task]
  BY DEF Task
<1>1. CASE RemoveUserSuppressionList
  <2>1. Pending' = Pending
    BY <1>1 DEF RemoveUserSuppressionList, Pending
  <2>2. ~crossed' => Pending' = {}
    BY <1>1, <2>1 DEF RemoveUserSuppressionList
  <2>3. Pending' = {} => UNION { call'[c].users : c \in Pending' } = {}
    OBVIOUS
  <2>4. SuppressionIsAsAsked'
    BY <1>1, <2>2, <2>3 DEF RemoveUserSuppressionList, SuppressionIsAsAsked
  <2>5. QED
    BY <1>0, <1>1, <2>4 DEF RemoveUserSuppressionList
<1>2. CASE UserUploadResets
  <2>1. Pending' = Pending
    BY <1>2 DEF UserUploadResets, Pending
  <2>2. ~crossed' => UNION { call[c].users : c \in Pending } \subseteq Admins
    BY <1>2 DEF UserUploadResets
  <2>3. SuppressionIsAsAsked'
    BY <1>2, <2>1, <2>2 DEF UserUploadResets, SuppressionIsAsAsked
  <2>4. QED
    BY <1>0, <1>2, <2>3 DEF UserUploadResets
<1>3. ASSUME NEW c \in Callers, NEW list \in Lists, UploadCSV(c, list)
      PROVE  /\ suppressed' \subseteq Users /\ wanted' \subseteq Users
             /\ crossed' \in BOOLEAN /\ call' \in [Callers -> Task]
             /\ SuppressionIsAsAsked'
  <2>1. WillFlag(list, "yes") \in Task /\ WillFlag(list, "yes").users = list \cap Users
        /\ WillFlag(list, "yes").at = "flag" /\ WillFlag(list, "yes").resets = "yes"
    BY DEF WillFlag, Task
  <2>2. call' = [call EXCEPT ![c] = WillFlag(list, "yes")]
    BY <1>3 DEF UploadCSV, Goes
  <2>3. call' \in [Callers -> Task]
    BY <1>0, <2>1, <2>2
  <2>4. call'[c] = WillFlag(list, "yes") /\ \A d \in Callers \ {c} : call'[d] = call[d]
    BY <1>0, <2>2
  <2>5. ~crossed' => Pending = {}
    BY <1>3 DEF UploadCSV
  <2>6. \A d \in Callers : d \in Pending' <=> call'[d].at = "flag" /\ call'[d].resets = "yes"
    BY DEF Pending
  <2>7. \A d \in Callers : d \in Pending <=> call[d].at = "flag" /\ call[d].resets = "yes"
    BY DEF Pending
  <2>8. Pending' \subseteq Callers
    BY DEF Pending
  <2>9. ~crossed' => Pending' = {c}
    BY <2>1, <2>4, <2>5, <2>6, <2>7, <2>8
  <2>10. ~crossed' => UNION { call'[d].users : d \in Pending' } = list \cap Users
    BY <1>0, <2>1, <2>2, <2>9
  <2>11. SuppressionIsAsAsked'
    BY <1>3, <2>10 DEF UploadCSV, SuppressionIsAsAsked
  <2>12. QED
    BY <1>3, <2>3, <2>11 DEF UploadCSV
<1>4. ASSUME NEW c \in Callers, NEW list \in Lists, UploadUsers(c, list)
      PROVE  /\ suppressed' \subseteq Users /\ wanted' \subseteq Users
             /\ crossed' \in BOOLEAN /\ call' \in [Callers -> Task]
             /\ SuppressionIsAsAsked'
  <2>1. WillFlag(list, "no") \in Task /\ WillFlag(list, "no").resets = "no"
    BY DEF WillFlag, Task
  <2>2. call' = [call EXCEPT ![c] = WillFlag(list, "no")] /\ call[c] = Free
    BY <1>4 DEF UploadUsers, Goes
  <2>3. call' \in [Callers -> Task]
    BY <1>0, <2>1, <2>2
  <2>4. Pending' = Pending /\ \A d \in Pending : call'[d] = call[d]
    BY <1>0, <2>1, <2>2 DEF Pending, Free
  <2>5. UNION { call'[d].users : d \in Pending' } = UNION { call[d].users : d \in Pending }
    BY <2>4
  <2>6. QED
    BY <1>4, <2>3, <2>5 DEF UploadUsers, SuppressionIsAsAsked
<1>5. ASSUME NEW c \in Callers, FlagUsers(c)
      PROVE  /\ suppressed' \subseteq Users /\ wanted' \subseteq Users
             /\ crossed' \in BOOLEAN /\ call' \in [Callers -> Task]
             /\ SuppressionIsAsAsked'
  <2>1. call[c] \in Task /\ call[c].at = "flag"
    BY <1>0, <1>5 DEF FlagUsers
  <2>2. call[c].users \subseteq Users
    BY <2>1, TaskFields
  <2>3. call' = [call EXCEPT ![c] = Free] /\ Free \in Task
    BY <1>5 DEF FlagUsers, Goes, Task
  <2>4. call' \in [Callers -> Task]
    BY <1>0, <2>3
  <2>5. Pending' = Pending \ {c} /\ \A d \in Pending \ {c} : call'[d] = call[d]
    BY <1>0, <2>3 DEF Pending, Free
  <2>6. /\ c \in Pending => UNION { call[d].users : d \in Pending }
                              = (UNION { call[d].users : d \in Pending \ {c} }) \cup call[c].users
        /\ c \notin Pending => Pending \ {c} = Pending
    BY WithoutOne
  <2>7. UNION { call'[d].users : d \in Pending' } = UNION { call[d].users : d \in Pending \ {c} }
    BY <2>5
  <2>8. c \in Pending <=> call[c].resets = "yes"
    BY <2>1 DEF Pending
  <2>9. SuppressionIsAsAsked'
    BY <1>5, <2>6, <2>8, <2>7 DEF FlagUsers, SuppressionIsAsAsked
  <2>10. QED
    BY <1>5, <2>2, <2>4, <2>9 DEF FlagUsers
<1>6. ASSUME NEW c \in Callers, NEW u \in Users, RemoveUserSuppression(c, u)
      PROVE  /\ suppressed' \subseteq Users /\ wanted' \subseteq Users
             /\ crossed' \in BOOLEAN /\ call' \in [Callers -> Task]
             /\ SuppressionIsAsAsked'
  <2>1. call' = [call EXCEPT ![c] = [at |-> "clear", user |-> u]] /\ call[c] = Free
    BY <1>6 DEF RemoveUserSuppression, Goes
  <2>2. call' \in [Callers -> Task]
    BY <1>0, <2>1 DEF Task
  <2>3. Pending' = Pending /\ \A d \in Pending : call'[d] = call[d]
    BY <1>0, <2>1 DEF Pending, Free
  <2>4. UNION { call'[d].users : d \in Pending' } = UNION { call[d].users : d \in Pending }
    BY <2>3
  <2>5. QED
    BY <1>6, <2>2, <2>4 DEF RemoveUserSuppression, SuppressionIsAsAsked
<1>7. ASSUME NEW c \in Callers, ClearUser(c)
      PROVE  /\ suppressed' \subseteq Users /\ wanted' \subseteq Users
             /\ crossed' \in BOOLEAN /\ call' \in [Callers -> Task]
             /\ SuppressionIsAsAsked'
  <2>1. call[c].at = "clear" /\ call' = [call EXCEPT ![c] = Free] /\ Free \in Task
    BY <1>7 DEF ClearUser, Goes, Task
  <2>2. call' \in [Callers -> Task]
    BY <1>0, <2>1
  <2>3. Pending' = Pending /\ \A d \in Pending : call'[d] = call[d]
    BY <1>0, <2>1 DEF Pending, Free
  <2>4. UNION { call'[d].users : d \in Pending' } = UNION { call[d].users : d \in Pending }
    BY <2>3
  <2>5. ~crossed' => call[c].user \notin UNION { call[d].users : d \in Pending }
    BY <1>7 DEF ClearUser
  <2>6. SuppressionIsAsAsked'
    BY <1>7, <2>4, <2>5 DEF ClearUser, SuppressionIsAsAsked
  <2>7. QED
    BY <1>7, <2>2, <2>6 DEF ClearUser
<1>8. ASSUME NEW c \in Callers, CallFails(c)
      PROVE  /\ suppressed' \subseteq Users /\ wanted' \subseteq Users
             /\ crossed' \in BOOLEAN /\ call' \in [Callers -> Task]
             /\ SuppressionIsAsAsked'
  <2>1. call' = [call EXCEPT ![c] = Free] /\ Free \in Task
    BY <1>8 DEF CallFails, Goes, Task
  <2>2. call' \in [Callers -> Task]
    BY <1>0, <2>1
  <2>3. c \notin Pending => (Pending' = Pending /\ \A d \in Pending : call'[d] = call[d])
    BY <1>0, <2>1 DEF Pending, Free
  <2>4. ~crossed' =>
          UNION { call'[d].users : d \in Pending' } = UNION { call[d].users : d \in Pending }
    <3>1. ~crossed' => c \notin Pending
      BY <1>8 DEF CallFails
    <3>2. QED
      BY <2>3, <3>1
  <2>5. QED
    BY <1>8, <2>2, <2>4 DEF CallFails, SuppressionIsAsAsked
<1>9. QED
  BY <1>1, <1>2, <1>3, <1>4, <1>5, <1>6, <1>7, <1>8 DEF ListNext

(* The list changes under a reading request.                               *)
LEMMA ListStep == ASSUME SuppressionInv, ListNext, Watched PROVE SuppressionInv'
<1>1. /\ suppressed' \subseteq Users /\ wanted' \subseteq Users
      /\ crossed' \in BOOLEAN /\ call' \in [Callers -> Task]
      /\ SuppressionIsAsAsked'
  BY ListKeeps
<1>2. left' = left /\ shown' = shown /\ hidden' = hidden /\ (Reading' <=> Reading)
  BY DEF Watched, Reading
<1>3. CASE Reading /\ watch # Apart
  <2> DEFINE free == watch.free \cup (Users \ wanted')
             held == watch.held \cup wanted'
             apart == suppressed' # wanted'
  <2>1. watch' = Watch(free, held, apart)
    BY <1>3 DEF Watched
  <2>2. /\ free \in SUBSET Users /\ held \in SUBSET Users
        /\ apart \in BOOLEAN /\ Reader \in free \cup held
    BY <1>1 DEF SuppressionInv, SuppressionTypeOK
  <2>3. /\ watch' \in [free : SUBSET Users, held : SUBSET Users]
        /\ apart <=> watch' = Apart'
        /\ ~apart => watch'.free = free /\ watch'.held = held
    <3> HIDE DEF free, held, apart
    <3>1. Apart' = Apart
      BY DEF Apart
    <3>2. ASSUME apart PROVE watch' = Apart
      BY <2>1, <3>2 DEF Watch
    <3>3. ASSUME ~apart PROVE watch' = [free |-> free, held |-> held]
      BY <2>1, <3>3 DEF Watch
    <3>4. ~apart => watch' # Apart
      BY <2>2, <3>3 DEF Apart
    <3>5. Apart \in [free : SUBSET Users, held : SUBSET Users]
      BY DEF Apart
    <3>6. QED
      BY <2>2, <3>1, <3>2, <3>3, <3>4, <3>5
  <2>4. SuppressionTypeOK'
    BY <1>1, <1>2, <2>3 DEF SuppressionInv, SuppressionTypeOK, Task
  <2>5. Noted'
    BY <1>2, <2>3 DEF Noted
  <2>6. HidesAsAsked'
    BY <1>2, <1>3, <2>3 DEF SuppressionInv, HidesAsAsked
  <2>7. QED
    BY <1>1, <2>4, <2>5, <2>6 DEF SuppressionInv
<1>4. CASE ~(Reading /\ watch # Apart)
  <2>1. watch' = watch /\ Apart' = Apart
    BY <1>4 DEF Watched, Apart
  <2>2. SuppressionTypeOK'
    BY <1>1, <1>2, <2>1 DEF SuppressionInv, SuppressionTypeOK, Task
  <2>3. Noted' /\ HidesAsAsked'
    BY <1>2, <1>4, <2>1 DEF SuppressionInv, Noted, HidesAsAsked
  <2>4. QED
    BY <1>1, <2>2, <2>3 DEF SuppressionInv
<1>5. QED
  BY <1>3, <1>4

(* A request begins to read.                                               *)
LEMMA BeginStep ==
  ASSUME SuppressionInv, NEW items \in SUBSET Items, ReadBegins(items)
  PROVE  SuppressionInv'
<1>1. /\ Reader \in (Users \ wanted) \cup wanted /\ wanted \subseteq Users
      /\ Apart' = Apart
  BY DEF SuppressionInv, SuppressionTypeOK, Apart
<1>2. /\ watch' \in [free : SUBSET Users, held : SUBSET Users]
      /\ suppressed # wanted => watch' = Apart'
      /\ suppressed = wanted => watch'.free = Users \ wanted /\ watch'.held = wanted
  BY <1>1 DEF ReadBegins, Watch, Apart
<1>3. UNCHANGED listVars /\ left' \subseteq Items /\ shown' = {} /\ hidden' = {}
  BY DEF ReadBegins
<1>4. SuppressionTypeOK' /\ SuppressionIsAsAsked'
  BY <1>2, <1>3 DEF SuppressionInv, SuppressionTypeOK, SuppressionIsAsAsked, Pending, listVars, Free
<1>5. Noted' /\ HidesAsAsked'
  BY <1>2, <1>3 DEF Noted, HidesAsAsked, listVars
<1>6. QED
  BY <1>4, <1>5 DEF SuppressionInv

(* It asks for the flags of some of its items.                             *)
LEMMA LookStep ==
  ASSUME SuppressionInv, NEW items \in SUBSET left, Reading, LookAt(items)
  PROVE  SuppressionInv'
<1>1. UNCHANGED listVars /\ watch' = watch /\ Apart' = Apart /\ left' = left \ items
      /\ items \subseteq Items
  BY DEF LookAt, Apart, SuppressionInv, SuppressionTypeOK
<1>2. SuppressionTypeOK' /\ SuppressionIsAsAsked'
  BY <1>1 DEF LookAt, SuppressionInv, SuppressionTypeOK, SuppressionIsAsAsked, Pending, listVars,
              Free
<1>3. Noted'
  BY <1>1 DEF SuppressionInv, Noted, Reading, listVars
<1>4. ASSUME watch # Apart PROVE HidesAsAsked'
  <2>1. suppressed = wanted /\ wanted \subseteq watch.held /\ Users \ wanted \subseteq watch.free
    BY <1>4 DEF SuppressionInv, Noted
  <2>2. \A i \in items : IsHidden(i) => Reader \notin i /\ i \cap Users \subseteq watch.held
    BY <2>1 DEF IsHidden
  <2>3. \A i \in items : ~IsHidden(i) => Reader \in i \/ i \cap watch.free # {}
    BY <2>1 DEF IsHidden
  <2>4. QED
    BY <1>1, <1>4, <2>2, <2>3 DEF LookAt, SuppressionInv, HidesAsAsked
<1>5. QED
  BY <1>1, <1>2, <1>3, <1>4 DEF SuppressionInv, HidesAsAsked

LEMMA SuppressionStepInv == SuppressionInv /\ [SuppressionNext]_suppressionVars => SuppressionInv'
<1> SUFFICES ASSUME SuppressionInv, [SuppressionNext]_suppressionVars PROVE SuppressionInv'
  OBVIOUS
<1>1. CASE ListNext /\ Watched
  BY <1>1, ListStep
<1>2. ASSUME NEW items \in SUBSET Items, ReadBegins(items) PROVE SuppressionInv'
  BY <1>2, BeginStep
<1>3. ASSUME NEW thread \in Items, ReadThread(thread) PROVE SuppressionInv'
  <2>1. {thread} \in SUBSET left /\ Reading /\ LookAt({thread})
    BY <1>3 DEF ReadThread, Reading
  <2>2. QED
    BY <2>1, LookStep
<1>4. CASE ReadMessages
  <2>1. left \in SUBSET left /\ Reading /\ LookAt(left)
    BY <1>4 DEF ReadMessages
  <2>2. QED
    BY <2>1, LookStep
<1>5. CASE UNCHANGED suppressionVars
  BY <1>5 DEF SuppressionInv, SuppressionTypeOK, SuppressionIsAsAsked, Noted, HidesAsAsked, Pending,
     Reading, Apart, suppressionVars, listVars, Free
<1>6. QED
  BY <1>1, <1>2, <1>3, <1>4, <1>5 DEF SuppressionNext

(* The inductive invariant: what a reader got can only be judged with what *)
(* has been noted since it began.                                          *)
THEOREM SuppressionInvariant == SuppressionSpec => []SuppressionInv
BY SuppressionInitInv, SuppressionStepInv, PTL DEF SuppressionSpec

(* The flags are those asked for, for every number of callers and users,   *)
(* unless files overlapped or broke off.                                   *)
THEOREM FlagsAreAsAsked == SuppressionSpec => []SuppressionIsAsAsked
<1>1. SuppressionInv => SuppressionIsAsAsked
  BY DEF SuppressionInv
<1>2. QED
  BY <1>1, SuppressionInvariant, PTL

(* Contents are shown or hidden by what was asked for while the request    *)
(* read, for every number of items, unless the list was being replaced.    *)
THEOREM ContentsAreAsAsked == SuppressionSpec => []HidesAsAsked
<1>1. SuppressionInv => HidesAsAsked
  BY DEF SuppressionInv
<1>2. QED
  BY <1>1, SuppressionInvariant, PTL

HIDE SuppressionAssumption
-----------------------------------------------------------------------------
USE AccessAssumption

(* What the reader's own search lends him by the grants gs.                *)
OwnBy(gs) ==
  (IF search.mine = "none" THEN {} ELSE {Viewer})
    \cup { u \in Colleagues : Subordinate(u) \in gs /\ search.mine = "team" }

SubordinatesBy(gs) == { u \in Colleagues : SubordinateBy(gs, u) }

CollaboratorsBy(gs) ==
  { u \in Colleagues : Collaborator(u) \in gs /\ u \in search.collaborators }

DomainsBy(gs) == { d \in Domains : MappedBy(gs, d) }

AliasesBy(gs) == { u \in Colleagues : AliasBy(gs, u) }

(* The request is past a look-up.                                          *)
Past(steps) == reached \notin {"idle"} \cup steps

(* Nothing was found but by grants there were since the request began.     *)
FromBelow ==
  /\ found.own \subseteq OwnBy(ever)
  /\ found.subordinates \subseteq SubordinatesBy(ever)
  /\ found.collaborators \subseteq CollaboratorsBy(ever)
  /\ found.domains \subseteq DomainsBy(ever)
  /\ found.aliases \subseteq AliasesBy(ever)

(* All was found that there were grants for all along.                     *)
FromAbove ==
  /\ Past({"own"}) => OwnBy(always) \subseteq found.own
  /\ Past({"own", "subordinates"}) => SubordinatesBy(always) \subseteq found.subordinates
  /\ Past({"own", "subordinates", "collaborators"}) =>
       CollaboratorsBy(always) \subseteq found.collaborators
  /\ Past({"own", "subordinates", "collaborators", "domains"}) =>
       DomainsBy(always) \subseteq found.domains
  /\ Past({"own", "subordinates", "collaborators", "domains", "aliases"}) =>
       AliasesBy(always) \subseteq found.aliases
  /\ reached \in {"supervised", "limits"} => AliasesBy(always) \subseteq found.active

(* The limit of a contact is what its kind of access makes of the grants.  *)
Limited(c) ==
  /\ AccessType(c) \in {"mapping", "none"} => limitOf[c] = {}
  /\ AccessType(c) = "supervisor" => limitOf[c] = found.subordinates \cap supervised
  /\ AccessType(c) = "alias" =>
       /\ limitOf[c] \subseteq found.aliases
       /\ { u \in found.aliases : Alias(u) \in always } \subseteq limitOf[c]

Limits ==
  /\ reached = "idle" => found = NothingFound
  /\ reached # "limits" => limitOf = NoLimits
  /\ reached = "limits" =>
       /\ { u \in Colleagues : Subordinate(u) \in always } \subseteq supervised
       /\ pending \subseteq ToLimit
       /\ \A c \in Contacts : IF c \in ToLimit \ pending THEN Limited(c) ELSE limitOf[c] = {}

(* Before the aliases are looked up again, none are active.                *)
Unasked == reached \notin {"supervised", "limits"} => found.active = {}

Held == reached # "idle" => grants \subseteq ever /\ always \subseteq grants

AccessInv == AccessTypeOK /\ Held /\ Unasked /\ FromBelow /\ FromAbove /\ Limits

LEMMA AccessInitInv == AccessInit => AccessInv
<1> SUFFICES ASSUME AccessInit PROVE AccessInv
  OBVIOUS
<1>1. AccessTypeOK
  BY DEF AccessInit, AccessTypeOK, NoSearch, Search, NothingFound, LookUps, NoLimits
<1>2. Held /\ Unasked /\ FromBelow /\ FromAbove /\ Limits
  BY DEF AccessInit, Held, Unasked, FromBelow, FromAbove, Limits, Past, NothingFound, LookUps
<1>3. QED
  BY <1>1, <1>2 DEF AccessInv

(* With more grants, no less is lent.                                      *)
LEMMA Monotone ==
  ASSUME NEW gs, NEW hs, gs \subseteq hs
  PROVE  /\ OwnBy(gs) \subseteq OwnBy(hs)
         /\ SubordinatesBy(gs) \subseteq SubordinatesBy(hs)
         /\ CollaboratorsBy(gs) \subseteq CollaboratorsBy(hs)
         /\ Lent(gs) \subseteq Lent(hs)
         /\ DomainsBy(gs) \subseteq DomainsBy(hs)
         /\ AliasesBy(gs) \subseteq AliasesBy(hs)
<1>1. /\ OwnBy(gs) \subseteq OwnBy(hs)
      /\ SubordinatesBy(gs) \subseteq SubordinatesBy(hs)
      /\ CollaboratorsBy(gs) \subseteq CollaboratorsBy(hs)
      /\ AliasesBy(gs) \subseteq AliasesBy(hs)
  BY DEF OwnBy, SubordinatesBy, SubordinateBy, CollaboratorsBy, AliasesBy, AliasBy
<1>2. Lent(gs) \subseteq Lent(hs)
  BY DEF Lent
<1>3. DomainsBy(gs) \subseteq DomainsBy(hs)
  BY <1>2 DEF DomainsBy, MappedBy
<1>4. QED
  BY <1>1, <1>2, <1>3

(* Whose domains are lent is found by three look-ups.                      *)
LEMMA LentParts ==
  ASSUME NEW gs
  PROVE  Lent(gs) = OwnBy(gs) \cup SubordinatesBy(gs) \cup CollaboratorsBy(gs)
BY DEF Lent, OwnBy, SubordinatesBy, SubordinateBy, CollaboratorsBy

(* A request that is over leaves nothing.                                  *)
LEMMA OverInv ==
  ASSUME AccessInv, RequestOver
  PROVE  AccessInv'
<1>1. AccessTypeOK'
  BY DEF AccessInv, RequestOver, AccessTypeOK, NoSearch, Search, NothingFound, LookUps, NoLimits
<1>2. Held' /\ Unasked' /\ FromBelow' /\ FromAbove' /\ Limits'
  BY DEF RequestOver, Held, Unasked, FromBelow, FromAbove, Limits, Past, NothingFound, LookUps
<1>3. QED
  BY <1>1, <1>2 DEF AccessInv

LEMMA AskInv ==
  ASSUME AccessInv, NEW s \in Searches,
         NEW w \in SUBSET Contacts, NEW k \in {"contacts", "attachments", "emails", "thread"}, Ask(k, w, s)
  PROVE  AccessInv'
<1>1. AccessTypeOK'
  BY DEF AccessInv, Ask, AccessTypeOK, LookUps, limiting
<1>2. found = NothingFound /\ limitOf = NoLimits
  BY DEF AccessInv, Limits, Ask
<1>3. Held' /\ Unasked' /\ FromBelow' /\ FromAbove' /\ Limits'
  BY <1>2 DEF Ask, Held, Unasked, FromBelow, FromAbove, Limits, Past, NothingFound, LookUps, limiting
<1>4. QED
  BY <1>1, <1>3 DEF AccessInv

(* While nothing but the grants change, what was found stays in bounds.    *)
LEMMA GrantsInv ==
  ASSUME AccessInv, NEW g \in Grantable, Grant(g) \/ Withdraw(g)
  PROVE  AccessInv'
<1> USE DEF question, limiting
<1>0. Counted(g) /\ grants' \in {grants \cup {g}, grants \ {g}}
  BY DEF Grant, Withdraw
<1>1. AccessTypeOK'
  BY <1>0 DEF AccessInv, Counted, AccessTypeOK
<1>2. Held' /\ Unasked'
  BY <1>0 DEF AccessInv, Held, Unasked, Counted
<1>3. /\ ever \subseteq ever' /\ always' \subseteq always
      /\ UNCHANGED <<search, found, reached, view, about, supervised, pending, limitOf>>
  BY <1>0 DEF Counted
<1>4. FromBelow'
  <2>1. /\ OwnBy(ever') = OwnBy(ever)' /\ SubordinatesBy(ever') = SubordinatesBy(ever)'
        /\ CollaboratorsBy(ever') = CollaboratorsBy(ever)' /\ DomainsBy(ever') = DomainsBy(ever)'
        /\ AliasesBy(ever') = AliasesBy(ever)'
    BY <1>3 DEF OwnBy, SubordinatesBy, SubordinateBy, CollaboratorsBy, DomainsBy, MappedBy, Lent,
                AliasesBy, AliasBy
  <2>2. QED
    BY <1>3, <2>1, Monotone DEF AccessInv, FromBelow
<1>5. FromAbove'
  <2>1. /\ OwnBy(always') = OwnBy(always)' /\ SubordinatesBy(always') = SubordinatesBy(always)'
        /\ CollaboratorsBy(always') = CollaboratorsBy(always)'
        /\ DomainsBy(always') = DomainsBy(always)' /\ AliasesBy(always') = AliasesBy(always)'
    BY <1>3 DEF OwnBy, SubordinatesBy, SubordinateBy, CollaboratorsBy, DomainsBy, MappedBy, Lent,
                AliasesBy, AliasBy
  <2>2. /\ OwnBy(always)' \subseteq OwnBy(always)
        /\ SubordinatesBy(always)' \subseteq SubordinatesBy(always)
        /\ CollaboratorsBy(always)' \subseteq CollaboratorsBy(always)
        /\ DomainsBy(always)' \subseteq DomainsBy(always)
        /\ AliasesBy(always)' \subseteq AliasesBy(always)
    BY <1>3, <2>1, Monotone
  <2>3. QED
    BY <1>3, <2>2 DEF AccessInv, FromAbove, Past
<1>6. Limits'
  <2>1. ToLimit' = ToLimit /\ \A c \in Contacts : AccessType(c)' = AccessType(c)
    BY <1>3 DEF ToLimit, Shows, AllClientDomains, ClientContacts, AccessType, SubordinateDomains,
                AliasDomains, DomainsOf, ContactsOf
  <2>2. \A c \in Contacts : Limited(c) => Limited(c)'
    BY <1>3, <2>1 DEF Limited
  <2>3. QED
    BY <1>3, <2>1, <2>2 DEF AccessInv, Limits
<1>7. QED
  BY <1>1, <1>2, <1>4, <1>5, <1>6 DEF AccessInv

(* What a look-up leaves alone, and what it keeps but for its own result.  *)
LEMMA FindsFrame ==
  ASSUME AccessInv, NEW l \in LookUps, NEW what, NEW next \in LookUps \cup {"supervised"},
         Finds(l, what, next)
  PROVE  /\ reached = l /\ reached' = next /\ found'[l] = what
         /\ \A k \in LookUps \ {l} : found'[k] = found[k]
         /\ grants \subseteq ever /\ always \subseteq grants /\ ever' = ever /\ always' = always
         /\ OwnBy(ever)' = OwnBy(ever) /\ OwnBy(always)' = OwnBy(always)
         /\ SubordinatesBy(ever)' = SubordinatesBy(ever)
         /\ SubordinatesBy(always)' = SubordinatesBy(always)
         /\ CollaboratorsBy(ever)' = CollaboratorsBy(ever)
         /\ CollaboratorsBy(always)' = CollaboratorsBy(always)
         /\ DomainsBy(ever)' = DomainsBy(ever) /\ DomainsBy(always)' = DomainsBy(always)
         /\ AliasesBy(ever)' = AliasesBy(ever) /\ AliasesBy(always)' = AliasesBy(always)
         /\ Held' /\ Limits'
<1>1. /\ UNCHANGED <<grants, ever, always, search, view, about, supervised, pending, limitOf>>
      /\ reached = l /\ reached' = next
      /\ found' = [found EXCEPT ![l] = what]
  BY DEF Finds, question, limiting
<1>2. /\ found'[l] = what /\ \A k \in LookUps \ {l} : found'[k] = found[k]
  BY <1>1 DEF AccessInv, AccessTypeOK
<1>3. grants \subseteq ever /\ always \subseteq grants
  BY <1>1 DEF AccessInv, Held, LookUps
<1>4. Held' /\ Limits'
  BY <1>1, <1>3 DEF AccessInv, Held, Limits, LookUps
<1>5. QED
  BY <1>1, <1>2, <1>3, <1>4
     DEF OwnBy, SubordinatesBy, SubordinateBy, CollaboratorsBy, DomainsBy, MappedBy, Lent,
         AliasesBy, AliasBy

LEMMA OwnFoundInv ==
  ASSUME AccessInv, OwnFound
  PROVE  AccessInv'
<1> DEFINE what == CASE search.mine = "none" -> {}
                     [] search.mine = "own" -> {Viewer}
                     [] OTHER -> { u \in Colleagues : Subordinate(u) \in grants } \cup {Viewer}
<1>1. Finds("own", what, "subordinates")
  BY DEF OwnFound
<1>2. what \subseteq OwnBy(ever) /\ OwnBy(always) \subseteq what /\ what \subseteq Owners
  <2>1. grants \subseteq ever /\ always \subseteq grants /\ search \in Search
    BY <1>1 DEF AccessInv, Held, Finds, AccessTypeOK
  <2>2. search.mine \in {"none", "own", "team"}
    BY <2>1 DEF Search
  <2>3. QED
    BY <2>1, <2>2 DEF OwnBy, Owners
<1> HIDE DEF what
<1> USE DEF LookUps
<1>3. FromBelow'
  BY <1>1, <1>2, FindsFrame DEF AccessInv, FromBelow
<1>4. FromAbove'
  BY <1>1, <1>2, FindsFrame DEF AccessInv, FromAbove, Past
<1>5. AccessTypeOK'
  BY <1>1, <1>2, FindsFrame DEF AccessInv, AccessTypeOK, Finds, question, limiting
<1>6. Unasked'
  BY <1>1, FindsFrame DEF AccessInv, Unasked
<1>7. QED
  BY <1>1, <1>3, <1>4, <1>5, <1>6, FindsFrame DEF AccessInv

LEMMA SubordinatesFoundInv ==
  ASSUME AccessInv, SubordinatesFound
  PROVE  AccessInv'
<1> DEFINE what == { u \in search.subordinates : Subordinate(u) \in grants }
<1>1. Finds("subordinates", what, "collaborators")
  BY DEF SubordinatesFound
<1>2. /\ what \subseteq SubordinatesBy(ever) /\ SubordinatesBy(always) \subseteq what
      /\ what \subseteq Colleagues
  <2>1. grants \subseteq ever /\ always \subseteq grants /\ search \in Search
    BY <1>1 DEF AccessInv, Held, Finds, AccessTypeOK
  <2>2. search.subordinates \subseteq Colleagues
    BY <2>1 DEF Search
  <2>3. QED
    BY <2>1, <2>2 DEF SubordinatesBy, SubordinateBy
<1> HIDE DEF what
<1> USE DEF LookUps
<1>3. FromBelow'
  BY <1>1, <1>2, FindsFrame DEF AccessInv, FromBelow
<1>4. FromAbove'
  BY <1>1, <1>2, FindsFrame DEF AccessInv, FromAbove, Past
<1>5. AccessTypeOK'
  BY <1>1, <1>2, FindsFrame DEF AccessInv, AccessTypeOK, Finds, question, limiting
<1>6. Unasked'
  BY <1>1, FindsFrame DEF AccessInv, Unasked
<1>7. QED
  BY <1>1, <1>3, <1>4, <1>5, <1>6, FindsFrame DEF AccessInv

LEMMA CollaboratorsFoundInv ==
  ASSUME AccessInv, CollaboratorsFound
  PROVE  AccessInv'
<1> DEFINE what == { u \in search.collaborators : Collaborator(u) \in grants }
<1>1. Finds("collaborators", what, "domains")
  BY DEF CollaboratorsFound
<1>2. /\ what \subseteq CollaboratorsBy(ever) /\ CollaboratorsBy(always) \subseteq what
      /\ what \subseteq Colleagues
  <2>1. grants \subseteq ever /\ always \subseteq grants /\ search \in Search
    BY <1>1 DEF AccessInv, Held, Finds, AccessTypeOK
  <2>2. search.collaborators \subseteq Colleagues
    BY <2>1 DEF Search
  <2>3. QED
    BY <2>1, <2>2 DEF CollaboratorsBy
<1> HIDE DEF what
<1> USE DEF LookUps
<1>3. FromBelow'
  BY <1>1, <1>2, FindsFrame DEF AccessInv, FromBelow
<1>4. FromAbove'
  BY <1>1, <1>2, FindsFrame DEF AccessInv, FromAbove, Past
<1>5. AccessTypeOK'
  BY <1>1, <1>2, FindsFrame DEF AccessInv, AccessTypeOK, Finds, question, limiting
<1>6. Unasked'
  BY <1>1, FindsFrame DEF AccessInv, Unasked
<1>7. QED
  BY <1>1, <1>3, <1>4, <1>5, <1>6, FindsFrame DEF AccessInv

(* The domains are those of whoever was lent by the three look-ups before. *)
LEMMA DomainsFoundInv ==
  ASSUME AccessInv, DomainsFound
  PROVE  AccessInv'
<1> DEFINE owners == found.own \cup found.subordinates \cup found.collaborators
           what == { d \in Domains : \E o \in owners : Mapped(o, d) \in grants }
<1>1. Finds("domains", what, "aliases")
  BY DEF DomainsFound
<1>2. /\ what \subseteq DomainsBy(ever) /\ DomainsBy(always) \subseteq what
      /\ what \subseteq Domains
  <2>1. grants \subseteq ever /\ always \subseteq grants /\ reached = "domains"
    BY <1>1 DEF AccessInv, Held, Finds
  <2>2. owners \subseteq Lent(ever)
    BY LentParts DEF AccessInv, FromBelow
  <2>3. Lent(always) \subseteq owners
    BY <2>1, LentParts DEF AccessInv, FromAbove, Past
  <2>4. QED
    BY <2>1, <2>2, <2>3 DEF DomainsBy, MappedBy
<1> HIDE DEF what
<1> USE DEF LookUps
<1>3. FromBelow'
  BY <1>1, <1>2, FindsFrame DEF AccessInv, FromBelow
<1>4. FromAbove'
  BY <1>1, <1>2, FindsFrame DEF AccessInv, FromAbove, Past
<1>5. AccessTypeOK'
  BY <1>1, <1>2, FindsFrame DEF AccessInv, AccessTypeOK, Finds, question, limiting
<1>6. Unasked'
  BY <1>1, FindsFrame DEF AccessInv, Unasked
<1>7. QED
  BY <1>1, <1>3, <1>4, <1>5, <1>6, FindsFrame DEF AccessInv

LEMMA AliasesFoundInv ==
  ASSUME AccessInv, AliasesFound
  PROVE  AccessInv'
<1> DEFINE what == { u \in search.aliases : IsActive(u) }
<1>1. Finds("aliases", what, "active")
  BY DEF AliasesFound
<1>2. /\ what \subseteq AliasesBy(ever) /\ AliasesBy(always) \subseteq what
      /\ what \subseteq Colleagues
  <2>1. grants \subseteq ever /\ always \subseteq grants /\ search \in Search
    BY <1>1 DEF AccessInv, Held, Finds, AccessTypeOK
  <2>2. search.aliases \subseteq Colleagues
    BY <2>1 DEF Search
  <2>3. QED
    BY <2>1, <2>2 DEF AliasesBy, AliasBy, IsActive
<1> HIDE DEF what
<1> USE DEF LookUps
<1>3. FromBelow'
  BY <1>1, <1>2, FindsFrame DEF AccessInv, FromBelow
<1>4. FromAbove'
  BY <1>1, <1>2, FindsFrame DEF AccessInv, FromAbove, Past
<1>5. found.active = {}
  BY <1>1 DEF AccessInv, Unasked, Finds
<1>6. AccessTypeOK'
  BY <1>1, <1>2, <1>5, FindsFrame DEF AccessInv, AccessTypeOK, Finds, question, limiting
<1>7. Unasked'
  BY <1>1, <1>5, FindsFrame DEF Unasked
<1>8. QED
  BY <1>1, <1>3, <1>4, <1>6, <1>7, FindsFrame DEF AccessInv

LEMMA ActiveFoundInv ==
  ASSUME AccessInv, ActiveFound
  PROVE  AccessInv'
<1> DEFINE what == { u \in found.aliases : IsActive(u) }
<1>1. Finds("active", what, "supervised")
  BY DEF ActiveFound
<1>2. what \subseteq found.aliases /\ AliasesBy(always) \subseteq what
  <2>1. grants \subseteq ever /\ always \subseteq grants /\ reached = "active"
    BY <1>1 DEF AccessInv, Held, Finds
  <2>2. AliasesBy(always) \subseteq found.aliases
    BY <2>1 DEF AccessInv, FromAbove, Past
  <2>3. QED
    BY <2>1, <2>2 DEF AliasesBy, AliasBy, IsActive
<1> HIDE DEF what
<1> USE DEF LookUps
<1>3. FromBelow'
  BY <1>1, <1>2, FindsFrame DEF AccessInv, FromBelow
<1>4. FromAbove'
  BY <1>1, <1>2, FindsFrame DEF AccessInv, FromAbove, Past
<1>5. AccessTypeOK'
  BY <1>1, <1>2, FindsFrame DEF AccessInv, AccessTypeOK, Finds, question, limiting
<1>6. Unasked'
  BY <1>1, FindsFrame DEF Unasked
<1>7. QED
  BY <1>1, <1>3, <1>4, <1>5, <1>6, FindsFrame DEF AccessInv

(* The steps that limit the mail change nothing of what was asked, found   *)
(* or granted.                                                             *)
LEMMA LimitingFrame ==
  ASSUME AccessInv, reached # "idle", reached' = "limits",
         reached \in {"supervised", "limits"},
         UNCHANGED <<grants, question, found, ever, always, changes>>
  PROVE  /\ Held' /\ Unasked' /\ FromBelow' /\ FromAbove' /\ ToLimit' = ToLimit
         /\ \A c \in Contacts : AccessType(c)' = AccessType(c)
<1>1. /\ OwnBy(ever)' = OwnBy(ever) /\ OwnBy(always)' = OwnBy(always)
      /\ SubordinatesBy(ever)' = SubordinatesBy(ever)
      /\ SubordinatesBy(always)' = SubordinatesBy(always)
      /\ CollaboratorsBy(ever)' = CollaboratorsBy(ever)
      /\ CollaboratorsBy(always)' = CollaboratorsBy(always)
      /\ DomainsBy(ever)' = DomainsBy(ever) /\ DomainsBy(always)' = DomainsBy(always)
      /\ AliasesBy(ever)' = AliasesBy(ever) /\ AliasesBy(always)' = AliasesBy(always)
  BY DEF question, OwnBy, SubordinatesBy, SubordinateBy, CollaboratorsBy, DomainsBy, MappedBy, Lent,
         AliasesBy, AliasBy
<1>2. FromBelow' /\ FromAbove'
  BY <1>1 DEF AccessInv, FromBelow, FromAbove, Past
<1>3. Held' /\ Unasked'
  BY DEF AccessInv, Held, Unasked
<1>4. ToLimit' = ToLimit /\ \A c \in Contacts : AccessType(c)' = AccessType(c)
  BY DEF question, ToLimit, Shows, AllClientDomains, ClientContacts, AccessType,
         SubordinateDomains, AliasDomains, DomainsOf, ContactsOf
<1>5. QED
  BY <1>2, <1>3, <1>4

(* Whoever is found through mail is a contact.                             *)
LEMMA ContactsKnown ==
  ASSUME NEW us
  PROVE  ContactsOf(us) \subseteq Contacts
BY DEF ContactsOf, Thread

LEMMA ToLimitType ==
  ASSUME AccessTypeOK
  PROVE  ToLimit \subseteq Contacts
BY ContactsKnown DEF AccessTypeOK, ToLimit, ClientContacts

LEMMA SupervisedFoundInv ==
  ASSUME AccessInv, SupervisedFound
  PROVE  AccessInv'
<1>1. /\ reached = "supervised" /\ reached' = "limits" /\ pending' = ToLimit
      /\ UNCHANGED <<grants, question, found, limitOf, ever, always, changes>>
      /\ supervised' = { u \in Colleagues : Subordinate(u) \in grants }
  BY DEF SupervisedFound
<1>2. /\ Held' /\ Unasked' /\ FromBelow' /\ FromAbove' /\ ToLimit' = ToLimit
  BY <1>1, LimitingFrame
<1>3. AccessTypeOK'
  BY <1>1, ToLimitType DEF AccessInv, AccessTypeOK, question
<1>4. Limits'
  <2>1. limitOf' = [c \in Contacts |-> {}]
    BY <1>1 DEF AccessInv, Limits, NoLimits
  <2>2. { u \in Colleagues : Subordinate(u) \in always' } \subseteq supervised'
    BY <1>1 DEF AccessInv, Held
  <2>3. ToLimit' \ pending' = {}
    BY <1>1, <1>2
  <2>4. QED
    BY <1>1, <1>2, <2>1, <2>2, <2>3 DEF Limits
<1>5. QED
  BY <1>2, <1>3, <1>4 DEF AccessInv

LEMMA LimitFoundInv ==
  ASSUME AccessInv, NEW c \in Contacts, LimitFound(c)
  PROVE  AccessInv'
<1>1. /\ reached = "limits" /\ reached' = "limits" /\ c \in pending /\ pending' = pending \ {c}
      /\ limitOf' = [limitOf EXCEPT ![c] = Limit(c)]
      /\ UNCHANGED <<grants, question, found, supervised, ever, always, changes>>
  BY DEF LimitFound
<1>2. /\ Held' /\ Unasked' /\ FromBelow' /\ FromAbove' /\ ToLimit' = ToLimit
      /\ \A d \in Contacts : AccessType(d)' = AccessType(d)
  BY <1>1, LimitingFrame
<1>3. AccessTypeOK'
  <2>1. Limit(c) \subseteq Colleagues
    BY DEF AccessInv, AccessTypeOK, Limit
  <2>2. QED
    BY <1>1, <2>1 DEF AccessInv, AccessTypeOK, question
<1>4. ASSUME NEW d \in Contacts \ {c}
      PROVE  limitOf'[d] = limitOf[d] /\ (d \in pending' <=> d \in pending)
                 /\ (Limited(d) => Limited(d)')
  BY <1>1, <1>2 DEF AccessInv, AccessTypeOK, Limited
<1>5. Limited(c)'
  <2>1. limitOf'[c] = Limit(c)
    BY <1>1 DEF AccessInv, AccessTypeOK
  <2>2. /\ AccessType(c) \in {"mapping", "none"} => Limit(c) = {}
        /\ AccessType(c) = "supervisor" => Limit(c) = found.subordinates \cap supervised
        /\ AccessType(c) = "alias" => Limit(c) = { u \in found.aliases : Alias(u) \in grants }
    BY DEF Limit
  <2>3. always \subseteq grants
    BY <1>1 DEF AccessInv, Held
  <2>4. QED
    BY <1>1, <1>2, <2>1, <2>2, <2>3 DEF Limited
<1>6. c \notin pending'
  BY <1>1
<1>7. \A d \in Contacts : IF d \in ToLimit \ pending THEN Limited(d) ELSE limitOf[d] = {}
  BY <1>1 DEF AccessInv, Limits
<1>8. c \in ToLimit
  BY <1>1 DEF AccessInv, Limits
<1>9. Limits'
  <2>1. \A d \in Contacts :
          IF d \in ToLimit' \ pending' THEN Limited(d)' ELSE limitOf'[d] = {}
    BY <1>2, <1>4, <1>5, <1>6, <1>7, <1>8
  <2>2. { u \in Colleagues : Subordinate(u) \in always' } \subseteq supervised'
    BY <1>1 DEF AccessInv, Limits
  <2>3. QED
    BY <1>1, <1>2, <2>1, <2>2 DEF AccessInv, Limits
<1>10. QED
  BY <1>2, <1>3, <1>9 DEF AccessInv

LEMMA AccessNextInv ==
  ASSUME AccessInv, [AccessNext]_accessVars
  PROVE  AccessInv'
<1>1. ASSUME NEW g \in Grantable, Grant(g) \/ Withdraw(g)
      PROVE  AccessInv'
  BY <1>1, GrantsInv
<1>2. ASSUME NEW s \in Searches, Ask("contacts", {}, s) \/ Ask("attachments", {}, s)
      PROVE  AccessInv'
  BY <1>2, AskInv
<1>3. ASSUME NEW s \in Searches, NEW c \in Contacts, Ask("emails", {c}, s)
      PROVE  AccessInv'
  BY <1>3, AskInv
<1>4. ASSUME NEW s \in Searches, NEW w \in Openings, Ask("thread", w, s)
      PROVE  AccessInv'
  BY <1>4, AskInv
<1>5. CASE OwnFound
  BY <1>5, OwnFoundInv
<1>6. CASE SubordinatesFound
  BY <1>6, SubordinatesFoundInv
<1>7. CASE CollaboratorsFound
  BY <1>7, CollaboratorsFoundInv
<1>8. CASE DomainsFound
  BY <1>8, DomainsFoundInv
<1>9. CASE AliasesFound
  BY <1>9, AliasesFoundInv
<1>10. CASE ActiveFound
  BY <1>10, ActiveFoundInv
<1>11. CASE SupervisedFound
  BY <1>11, SupervisedFoundInv
<1>12. ASSUME NEW c \in Contacts, LimitFound(c)
       PROVE  AccessInv'
  BY <1>12, LimitFoundInv
<1>13. CASE AccessAnswer \/ AccessFails
  BY <1>13, OverInv DEF AccessAnswer, AccessFails
<1>14. CASE UNCHANGED accessVars
  <2>1. UNCHANGED <<grants, view, about, search, reached, found, supervised, pending, limitOf,
                    ever, always, changes>>
    BY <1>14 DEF accessVars, question, limiting
  <2>2. AccessTypeOK' /\ Held' /\ Unasked'
    BY <2>1 DEF AccessInv, AccessTypeOK, Held, Unasked
  <2>3. FromBelow' /\ FromAbove'
    BY <2>1 DEF AccessInv, FromBelow, FromAbove, Past, OwnBy, SubordinatesBy, SubordinateBy, CollaboratorsBy,
                DomainsBy, MappedBy, Lent, AliasesBy, AliasBy
  <2>4. Limits'
    BY <2>1 DEF AccessInv, Limits, Limited, ToLimit, Shows, AllClientDomains, ClientContacts, AccessType,
                SubordinateDomains, AliasDomains, DomainsOf, ContactsOf
  <2>5. QED
    BY <2>2, <2>3, <2>4 DEF AccessInv
<1>15. QED
  BY <1>1, <1>2, <1>3, <1>4, <1>5, <1>6, <1>7, <1>8, <1>9, <1>10, <1>11, <1>12, <1>13, <1>14
     DEF AccessNext

(* The invariant holds in every state of every behaviour.                  *)
THEOREM AccessInvariance == AccessSpec => []AccessInv
<1>1. AccessInv /\ [AccessNext]_accessVars => AccessInv'
  BY AccessNextInv
<1>2. QED
  BY AccessInitInv, <1>1, PTL DEF AccessSpec

(* What kind of access there is to a contact, by how its domain was found. *)
LEMMA AccessKinds ==
  ASSUME NEW c \in Contacts
  PROVE  /\ ClientDomainOf[c] \in found.domains => AccessType(c) = "mapping"
         /\ ClientDomainOf[c] \in SubordinateDomains \ found.domains => AccessType(c) = "supervisor"
         /\ ClientDomainOf[c] \in AliasDomains \ (found.domains \cup SubordinateDomains) =>
              AccessType(c) = "alias"
         /\ AccessType(c) \in {"mapping", "supervisor", "alias", "none"}
         /\ AccessType(c) = "mapping" => ClientDomainOf[c] \in found.domains
         /\ AccessType(c) = "supervisor" => ClientDomainOf[c] \in SubordinateDomains
         /\ AccessType(c) = "alias" => ClientDomainOf[c] \in AliasDomains
         /\ ClientDomainOf[c] \in AllClientDomains => AccessType(c) # "none"
BY DEF AccessType, AllClientDomains

(* A contact whose mail is looked at is in the list to limit, but when a   *)
(* thread is opened.                                                       *)
LEMMA ShownIsLimited ==
  ASSUME AccessTypeOK, NEW c \in Contacts, Shows(c), view # "thread"
  PROVE  ClientDomainOf[c] \in AllClientDomains /\ c \in ToLimit
<1>1. CASE view = "emails"
  BY <1>1 DEF Shows, ToLimit
<1>2. CASE view \in {"contacts", "attachments"}
  <2>1. /\ ClientDomainOf[c] \in AllClientDomains
        /\ ClientContacts = {} \/ c \in ClientContacts
    BY <1>2 DEF Shows
  <2>2. ClientContacts # {}
    BY <2>1 DEF AllClientDomains, SubordinateDomains, AliasDomains, ClientContacts, DomainsOf
  <2>3. QED
    BY <1>2, <2>1, <2>2 DEF ToLimit
<1>3. QED
  BY <1>1, <1>2 DEF AccessTypeOK

(* Through whom a contact was found, he has mail with him.                 *)
LEMMA SomebodyKnows ==
  ASSUME NEW us, us = {}
  PROVE  ContactsOf(us) = {} /\ DomainsOf(ContactsOf(us)) = {}
BY DEF ContactsOf, DomainsOf

(* The more colleagues, the more contacts and domains.                     *)
LEMMA KnownMonotone ==
  ASSUME NEW us, NEW ws, us \subseteq ws, NEW c, ClientDomainOf[c] \in DomainsOf(ContactsOf(us))
  PROVE  FoundThrough(ws, c)
<1>1. ContactsOf(us) \subseteq ContactsOf(ws)
  BY DEF ContactsOf
<1>2. QED
  BY <1>1 DEF DomainsOf, FoundThrough

(* A thread that passes a list of colleagues passes a longer one.          *)
LEMMA PassesGiven ==
  ASSUME NEW m, NEW us, NEW given, us \subseteq given, us # {}, Passes(m, us)
  PROVE  \/ view # "emails" /\ m.owner \in given
         \/ view # "attachments" /\ (m.users \cap given # {} \/ IdMistaken(m, given))
BY DEF Passes, HasRowOf, InMailboxOf, IdMistaken

LEMMA InvShown == AccessInv => ShownWasGranted
<1> SUFFICES ASSUME AccessInv PROVE ShownWasGranted
  OBVIOUS
<1> DEFINE given == { o \in Colleagues : SubordinateBy(ever, o) \/ AliasBy(ever, o) }
           Granted(m, c) ==
             IF view = "thread"
             THEN \E x \in about : MappedBy(ever, ClientDomainOf[x]) \/ FoundThrough(given, x)
             ELSE \/ MappedBy(ever, ClientDomainOf[c])
                  \/ view # "emails" /\ m.owner \in given
                  \/ view # "attachments" /\ (m.users \cap given # {} \/ IdMistaken(m, given))
                  \/ LimitLost(c)
<1>1. /\ found.subordinates \subseteq given /\ found.aliases \subseteq given
      /\ found.active \subseteq found.aliases
      /\ \A d \in found.domains : MappedBy(ever, d)
  BY DEF AccessInv, FromBelow, AccessTypeOK, SubordinatesBy, AliasesBy, DomainsBy
<1>2. ASSUME IsAnswered, NEW m \in Mail, NEW c \in Contacts, Shows(c), Passes(m, limitOf[c])
      PROVE  Granted(m, c)
  <2>1. CASE view = "thread"
    <3>1. DomainsOf(about) \cap AllClientDomains # {}
      BY <1>2, <2>1 DEF Shows
    <3>2. PICK x \in about : ClientDomainOf[x] \in AllClientDomains
      BY <3>1 DEF DomainsOf
    <3>3. CASE ClientDomainOf[x] \in found.domains
      BY <1>1, <2>1, <3>3
    <3>4. CASE ClientDomainOf[x] \in SubordinateDomains \cup AliasDomains
      <4>1. FoundThrough(given, x)
        <5>1. found.active \subseteq given
          BY <1>1
        <5> HIDE DEF given
        <5>2. QED
          BY <1>1, <3>4, <5>1, KnownMonotone DEF SubordinateDomains, AliasDomains
      <4>2. QED
        BY <2>1, <4>1
    <3>5. QED
      BY <3>2, <3>3, <3>4 DEF AllClientDomains
  <2>2. CASE view # "thread"
    <3>1. ClientDomainOf[c] \in AllClientDomains /\ c \in ToLimit
      BY <1>2, <2>2, ShownIsLimited DEF AccessInv
    <3>2. Limited(c) /\ { o \in Colleagues : Subordinate(o) \in always } \subseteq supervised
      BY <1>2, <3>1 DEF AccessInv, Limits, IsAnswered
    <3>3. ASSUME limitOf[c] # {}, limitOf[c] \subseteq given
          PROVE  Granted(m, c)
      <4>1. \/ view # "emails" /\ m.owner \in given
            \/ view # "attachments" /\ (m.users \cap given # {} \/ IdMistaken(m, given))
        <5> HIDE DEF given
        <5>1. QED
          BY <1>2, <3>3, PassesGiven
      <4>2. QED
        BY <2>2, <4>1
    <3>4. CASE AccessType(c) = "mapping"
      BY <1>1, <2>2, <3>4, AccessKinds
    <3>5. CASE AccessType(c) = "supervisor"
      <4>1. found.subordinates # {}
        BY <3>5, AccessKinds, SomebodyKnows DEF SubordinateDomains
      <4>2. CASE limitOf[c] = {}
        <5>1. \A o \in found.subordinates : Subordinate(o) \in ever \ always
          BY <3>2, <3>5, <4>2 DEF AccessInv, Limited, FromBelow, SubordinatesBy, SubordinateBy
        <5>2. QED
          BY <2>2, <3>5, <4>1, <5>1 DEF LimitLost
      <4>3. limitOf[c] \subseteq given
        BY <1>1, <3>2, <3>5 DEF Limited
      <4>4. QED
        BY <3>3, <4>2, <4>3
    <3>6. CASE AccessType(c) = "alias"
      <4>1. found.aliases # {}
        BY <1>1, <3>6, AccessKinds, SomebodyKnows DEF AliasDomains
      <4>2. CASE limitOf[c] = {}
        <5>1. \A o \in found.aliases : Alias(o) \in ever \ always
          BY <3>2, <3>6, <4>2 DEF AccessInv, Limited, FromBelow, AliasesBy, AliasBy
        <5>2. QED
          BY <2>2, <3>6, <4>1, <5>1 DEF LimitLost
      <4>3. limitOf[c] \subseteq given
        BY <1>1, <3>2, <3>6 DEF Limited
      <4>4. QED
        BY <3>3, <4>2, <4>3
    <3>7. QED
      BY <3>1, <3>4, <3>5, <3>6, AccessKinds
  <2>3. QED
    BY <2>1, <2>2
<1>3. IsAnswered => \A p \in Shown : Granted(p[1], p[2])
  BY <1>2 DEF Shown
<1>4. QED
  BY <1>3 DEF AccessInv, ShownWasGranted

(* A thread borne by a colleague passes a list that names him.             *)
LEMMA BearerPasses ==
  ASSUME NEW m \in Mail, NEW us, NEW u \in us, u \in Bearers(m), AccessTypeOK, view # "thread"
  PROVE  Passes(m, us)
<1>1. view \in {"contacts", "attachments", "emails"}
  BY DEF AccessTypeOK
<1>2. \/ view \in {"contacts", "emails"} /\ u \in m.users
      \/ view \in {"contacts", "attachments"} /\ u = m.owner
  BY <1>1 DEF Bearers
<1>3. QED
  BY <1>2 DEF Passes, HasRowOf, InMailboxOf

LEMMA InvHeld == AccessInv => HeldIsShown
<1> SUFFICES ASSUME AccessInv, IsAnswered, NEW m \in Mail, NEW c \in m.contacts,
                    IF view \in {"contacts", "attachments"} THEN ClientDomainOf[c] \notin Private
                                                            ELSE c \in about,
                    \/ MappedBy(always, ClientDomainOf[c])
                    \/ \E u \in Bearers(m) : c \in ContactsOf({u}) /\ SubordinateBy(always, u)
                    \/ /\ \E u \in Bearers(m) : c \in ContactsOf({u}) /\ AliasBy(always, u)
                       /\ ClientDomainOf[c] \notin Private
                       /\ ~FoundThrough({ o \in Colleagues : SubordinateBy(ever, o) }, c)
             PROVE  <<m, c>> \in Shown
  BY DEF HeldIsShown
<1> DEFINE d == ClientDomainOf[c]
<1>1. c \in Contacts /\ d \in Domains /\ Bearers(m) \subseteq Colleagues
  BY DEF Thread, Bearers
<1>2. /\ DomainsBy(always) \subseteq found.domains
      /\ SubordinatesBy(always) \subseteq found.subordinates
      /\ AliasesBy(always) \subseteq found.active
  BY DEF AccessInv, FromAbove, Past, IsAnswered
<1>3. d \in AllClientDomains /\ c \in ClientContacts => Shows(c)
  BY DEF Shows, DomainsOf, AccessInv, AccessTypeOK
<1>4. IF c \in ToLimit THEN Limited(c) ELSE limitOf[c] = {}
  BY <1>1 DEF AccessInv, Limits, IsAnswered
<1>5. view = "thread" => limitOf[c] = {}
  BY <1>4 DEF ToLimit
<1>6. ASSUME Shows(c), NEW u \in Bearers(m), limitOf[c] = {} \/ u \in limitOf[c]
      PROVE  <<m, c>> \in Shown
  <2>1. Passes(m, limitOf[c])
    BY <1>5, <1>6, BearerPasses DEF Passes, AccessInv
  <2>2. QED
    BY <1>1, <1>6, <2>1 DEF Shown
<1>7. CASE MappedBy(always, d)
  <2>1. d \in found.domains
    BY <1>1, <1>2, <1>7 DEF DomainsBy
  <2>2. Shows(c)
    BY <1>1, <1>3, <2>1 DEF AllClientDomains, ClientContacts
  <2>3. limitOf[c] = {}
    BY <1>1, <1>4, <2>1, AccessKinds DEF Limited
  <2>4. QED
    BY <1>1, <2>2, <2>3 DEF Shown, Passes
<1>8. ASSUME NEW u \in Bearers(m), c \in ContactsOf({u}), SubordinateBy(always, u)
      PROVE  <<m, c>> \in Shown
  <2>1. u \in found.subordinates
    BY <1>1, <1>2, <1>8 DEF SubordinatesBy
  <2>2. c \in ContactsOf(found.subordinates) /\ d \in SubordinateDomains
    BY <1>8, <2>1 DEF ContactsOf, SubordinateDomains, DomainsOf
  <2>3. Shows(c)
    BY <1>3, <2>2 DEF AllClientDomains, ClientContacts
  <2>4. AccessType(c) \in {"mapping", "supervisor"}
    BY <1>1, <2>2, AccessKinds
  <2>5. u \in supervised
    BY <1>1, <1>8 DEF AccessInv, Limits, IsAnswered, SubordinateBy
  <2>6. limitOf[c] = {} \/ u \in limitOf[c]
    BY <1>4, <2>1, <2>4, <2>5 DEF Limited
  <2>7. QED
    BY <1>6, <2>3, <2>6
<1>9. ASSUME NEW u \in Bearers(m), c \in ContactsOf({u}), AliasBy(always, u),
             d \notin Private,
             ~FoundThrough({ o \in Colleagues : SubordinateBy(ever, o) }, c)
      PROVE  <<m, c>> \in Shown
  <2>1. u \in found.active /\ u \in found.aliases
    BY <1>1, <1>2, <1>9 DEF AliasesBy, AccessInv, AccessTypeOK
  <2>2. c \in ContactsOf(found.active) /\ d \in AliasDomains
    BY <1>9, <2>1 DEF ContactsOf, AliasDomains, DomainsOf
  <2>3. Shows(c)
    BY <1>3, <2>2 DEF AllClientDomains, ClientContacts
  <2>4. d \notin SubordinateDomains
    <3>1. found.subordinates \subseteq { o \in Colleagues : SubordinateBy(ever, o) }
      BY DEF AccessInv, FromBelow, SubordinatesBy
    <3>2. QED
      BY <1>9, <3>1, KnownMonotone DEF SubordinateDomains
  <2>5. AccessType(c) \in {"mapping", "alias"}
    BY <1>1, <2>2, <2>4, AccessKinds
  <2>6. limitOf[c] = {} \/ u \in limitOf[c]
    BY <1>4, <1>9, <2>1, <2>5 DEF Limited, AliasBy
  <2>7. QED
    BY <1>6, <2>3, <2>6
<1>10. QED
  BY <1>7, <1>8, <1>9

(* What a reader is shown was granted to him: a colleague's mail with a    *)
(* contact, a domain or, when all through whom he found the contact were   *)
(* taken from him meanwhile, at least the way to it; or a contact's row    *)
(* was taken for that of a colleague he had been given.                    *)
THEOREM ShownGranted == AccessSpec => []ShownWasGranted
BY AccessInvariance, InvShown, PTL

(* What was granted to a reader all along he is shown.                     *)
THEOREM HeldShown == AccessSpec => []HeldIsShown
BY AccessInvariance, InvHeld, PTL

HIDE AccessAssumption
-----------------------------------------------------------------------------
USE ListingAssumption

(* The dates a page of an alias keeps to are those of some moment.         *)
AliasLimits(w, s) ==
  [from |-> Later(Later(w.from, s), durationParams.from),
   upto |-> Earlier(w.upto, durationParams.upto)]

LimitsInv ==
  /\ windows # {} => window \in windows
  /\ starts # {} => timeFrame \in starts
  /\ at = "range" => kind = "alias" /\ start \in starts /\ windows # {}
  /\ at = "page" /\ kind = "alias" => \E w \in windows, s \in starts : limits = AliasLimits(w, s)
  /\ at = "page" /\ kind = "contact" => limits.from \in starts

(* A request that is over has left nothing; steady rows are alone; and one *)
(* the client has not got yet lies beyond the pages that were read.        *)
PageInv ==
  /\ at = "idle" => steady = {} /\ offset = 0
  /\ \A row \in steady :
       /\ IsAlone(row)
       /\ row \notin seen =>
            /\ offset <= Cardinality(Above(row))
            /\ at \in {"recount", "count"} => offset + PageSize <= Cardinality(Above(row))

ListingInv == ListingTypeOK /\ LimitsInv /\ PageInv

(* Sets of naturals have a least element and, when bounded, a greatest.    *)
LEMMA LeastExists ==
  ASSUME NEW S \in SUBSET Nat, S # {}
  PROVE  \E m \in S : \A n \in S : m <= n
<1>1. PICK m \in S : \A k \in S : ~ (<<k, m>> \in OpToRel(<, Nat))
  BY NatLessThanWellFounded, WFMin
<1>2. \A k \in S : ~ (k < m)
  BY <1>1 DEF OpToRel
<1>3. QED
  BY <1>2

LEMMA GreatestExists ==
  ASSUME NEW S \in SUBSET Times, S # {}
  PROVE  \E m \in S : \A n \in S : n <= m
<1> DEFINE T == { LastTime - n : n \in S }
<1>1. T \in SUBSET Nat /\ T # {}
  <2>1. \A n \in S : LastTime - n \in Nat
    BY DEF Times
  <2>2. PICK n \in S : TRUE
    OBVIOUS
  <2>3. LastTime - n \in T
    OBVIOUS
  <2>4. QED
    BY <2>1, <2>3
<1>2. PICK k \in T : \A n \in T : k <= n
  <2> HIDE DEF T
  <2>1. QED
    BY <1>1, LeastExists
<1>3. PICK m \in S : k = LastTime - m
  OBVIOUS
<1>4. ASSUME NEW n \in S PROVE n <= m
  <2>1. k <= LastTime - n
    BY <1>2
  <2>2. QED
    BY <1>3, <2>1 DEF Times
<1>5. QED
  BY <1>4

(* What Newest and Updated choose exists.                                  *)
LEMMA NewestIsOne ==
  ASSUME ListingTypeOK, NEW t \in Threads, times[t] # {}
  PROVE  Newest(t) \in times[t] /\ Newest(t) \in Times
<1>1. times[t] \in SUBSET Times
  BY DEF ListingTypeOK
<1>2. \E m \in times[t] : \A n \in times[t] : n <= m
  BY <1>1, GreatestExists
<1>3. QED
  BY <1>1, <1>2 DEF Newest

LEMMA UpdatedIsOne ==
  ASSUME ListingTypeOK, NEW row \in Listed
  PROVE  Updated(row) \in Nat
<1> DEFINE S == { Newest(t) : t \in { s \in row : IsInRange(s) } }
<1>1. row \in SUBSET Threads /\ \E t \in row : IsInRange(t)
  BY DEF Listed, Rows
<1>2. S \in SUBSET Nat /\ S # {}
  <2>1. ASSUME NEW t \in row, IsInRange(t) PROVE Newest(t) \in Nat
    BY <1>1, <2>1, NewestIsOne DEF IsInRange, Times
  <2>2. QED
    BY <1>1, <2>1
<1>3. PICK u \in S : \A v \in S : u <= v
  <2> HIDE DEF S
  <2>1. QED
    BY <1>2, LeastExists
<1>4. \A t \in row : IsInRange(t) => u <= Newest(t)
  BY <1>3
<1>5. Updated(row) \in S
  BY <1>3, <1>4 DEF Updated
<1>6. QED
  BY <1>2, <1>5

(* There are finitely many rows.                                           *)
LEMMA RowsAreFinite ==
  /\ IsFiniteSet(Listed) /\ Cardinality(Listed) \in Nat
  /\ \A S \in SUBSET Listed : /\ IsFiniteSet(S) /\ Cardinality(S) \in Nat
                              /\ Cardinality(S) <= Cardinality(Listed)
                              /\ S # Listed => Cardinality(S) < Cardinality(Listed)
<1>1. IsFiniteSet(SUBSET Threads)
  BY FS_SUBSET
<1>2. Listed \in SUBSET SUBSET Threads
  BY DEF Listed, Rows
<1>3. IsFiniteSet(Listed) /\ Cardinality(Listed) \in Nat
  BY <1>1, <1>2, FS_Subset, FS_CardinalityType
<1>4. ASSUME NEW S \in SUBSET Listed
      PROVE  /\ IsFiniteSet(S) /\ Cardinality(S) \in Nat
             /\ Cardinality(S) <= Cardinality(Listed)
             /\ S # Listed => Cardinality(S) < Cardinality(Listed)
  BY <1>3, FS_Subset, FS_CardinalityType
<1>5. QED
  BY <1>3, <1>4

(* A row that is alone comes after those above it, in whichever order the  *)
(* database returns them, and is on the page that begins with so many.     *)
LEMMA PageHolds ==
  ASSUME ListingTypeOK, NEW o \in RowOrders, NEW row \in Listed, IsAlone(row),
         offset <= Cardinality(Above(row)), Cardinality(Above(row)) < offset + PageSize
  PROVE  row \in Page(o)
<1> DEFINE N == Cardinality(Listed)
<1>1. N \in Nat
  BY RowsAreFinite
<1>2. /\ o \in [1 .. N -> Listed]
      /\ \A r \in Listed : \E p \in DOMAIN o : o[p] = r
      /\ \A p, q \in DOMAIN o : p < q => o[p] # o[q] /\ Updated(o[p]) >= Updated(o[q])
  BY DEF RowOrders
<1> HIDE DEF N
<1>3. PICK p \in 1 .. N : o[p] = row
  BY <1>2
<1>4. \A r \in Listed : Updated(r) \in Nat
  BY UpdatedIsOne
<1>5. ASSUME NEW q \in 1 .. (p - 1)
      PROVE  o[q] \in Above(row)
  <2>1. q \in 1 .. N /\ q < p
    BY <1>1
  <2>2. o[q] \in Listed \ {row} /\ Updated(o[q]) >= Updated(row)
    BY <1>2, <1>3, <2>1
  <2>3. Updated(o[q]) # Updated(row)
    BY <2>2 DEF IsAlone
  <2>4. QED
    BY <1>4, <2>2, <2>3 DEF Above
<1>6. ASSUME NEW r \in Above(row)
      PROVE  \E q \in 1 .. (p - 1) : o[q] = r
  <2>1. r \in Listed /\ Updated(r) > Updated(row)
    BY DEF Above
  <2>2. PICK q \in 1 .. N : o[q] = r
    BY <1>2, <2>1
  <2>3. q # p
    BY <1>3, <1>4, <2>1, <2>2
  <2>4. ~ (p < q)
    BY <1>2, <1>3, <1>4, <2>1, <2>2
  <2>5. q \in 1 .. (p - 1)
    BY <1>1, <2>3, <2>4
  <2>6. QED
    BY <2>2, <2>5
<1> DEFINE f == [q \in 1 .. (p - 1) |-> o[q]]
<1>7. f \in Bijection(1 .. (p - 1), Above(row))
  <2>1. f \in [1 .. (p - 1) -> Above(row)]
    BY <1>5
  <2>2. ASSUME NEW q \in 1 .. (p - 1), NEW r \in 1 .. (p - 1), q # r
        PROVE  f[q] # f[r]
    <3>1. q \in 1 .. N /\ r \in 1 .. N /\ (q < r \/ r < q)
      BY <1>1, <2>2
    <3>2. o[q] # o[r]
      BY <1>2, <3>1
    <3>3. QED
      BY <3>2
  <2>3. \A r \in Above(row) : \E q \in 1 .. (p - 1) : f[q] = r
    BY <1>6
  <2> HIDE DEF f
  <2>4. QED
    BY <2>1, <2>2, <2>3 DEF Bijection, Injection, IsInjective, Surjection
<1>8. Cardinality(Above(row)) = p - 1
  <2>1. IsFiniteSet(1 .. (p - 1)) /\ Cardinality(1 .. (p - 1)) = p - 1
    BY <1>1, FS_Interval
  <2>2. ExistsBijection(1 .. (p - 1), Above(row))
    BY <1>7 DEF ExistsBijection
  <2>3. QED
    BY <2>1, <2>2, FS_Bijection
<1>9. offset \in Nat
  BY DEF ListingTypeOK
<1>10. p \in (offset + 1) .. (offset + PageSize)
  BY <1>1, <1>8, <1>9
<1>11. QED
  BY <1>2, <1>3, <1>10 DEF Page

(* Before anything is listed.                                              *)
LEMMA ListingInitInv == ListingInit => ListingInv
<1> SUFFICES ASSUME ListingInit PROVE ListingInv
  OBVIOUS
<1>1. ListingTypeOK
  BY DEF ListingInit, ListingTypeOK, DateRange, Always
<1>2. LimitsInv /\ PageInv
  BY DEF ListingInit, LimitsInv, PageInv
<1>3. QED
  BY <1>1, <1>2 DEF ListingInv

(* The list depends on the mail, its kind and the dates it keeps to.       *)
LEMMA SameList ==
  ASSUME UNCHANGED <<times, kind, limits>>
  PROVE  /\ Listed' = Listed
         /\ \A row : /\ Above(row)' = Above(row)
                     /\ Updated(row)' = Updated(row)
                     /\ IsAlone(row)' <=> IsAlone(row)
<1>1. \A t : Newest(t)' = Newest(t) /\ (IsInRange(t)' <=> IsInRange(t))
  BY DEF Newest, IsInRange
<1>2. Listed' = Listed
  BY <1>1 DEF Listed, Rows
<1>3. ASSUME NEW row PROVE Updated(row)' = Updated(row)
  BY <1>1 DEF Updated
<1>4. QED
  BY <1>2, <1>3 DEF Above, IsAlone

(* A row that stays steady is no higher than before.                       *)
LEMMA SteadyFalls ==
  ASSUME StillSteady, NEW row \in steady', ListingTypeOK
  PROVE  /\ row \in steady /\ row \in Listed' /\ IsAlone(row)'
         /\ Cardinality(Above(row)) <= Cardinality(Above(row)')
         /\ Cardinality(Above(row)) \in Nat /\ Cardinality(Above(row)') \in Nat
<1>1. row \in steady /\ row \in Listed' /\ IsAlone(row)' /\ Above(row) \subseteq Above(row)'
  BY DEF StillSteady
<1>2. Above(row)' \in SUBSET Listed' /\ Above(row) \in SUBSET Listed
  BY DEF Above
<1>3. Listed' \in SUBSET SUBSET Threads /\ IsFiniteSet(SUBSET Threads)
  BY FS_SUBSET DEF Listed, Rows
<1>4. IsFiniteSet(Above(row)')
  BY <1>2, <1>3, FS_Subset
<1>5. QED
  BY <1>1, <1>4, FS_Subset, FS_CardinalityType

(* The mail, the dates or the frame change under a list that is read.      *)
LEMMA MailStep ==
  ASSUME ListingInv, Noticed, UNCHANGED request,
         times' \in [Threads -> SUBSET Times], window' \in Windows, timeFrame' \in 0 .. LastTime
  PROVE  ListingInv'
<1>1. /\ kind' = kind /\ durationParams' = durationParams /\ at' = at /\ start' = start
      /\ limits' = limits /\ offset' = offset /\ seen' = seen
  BY DEF request
<1>2. /\ windows' = IF windows = {} THEN {} ELSE windows \cup {window'}
      /\ starts' = IF starts = {} THEN {} ELSE starts \cup {timeFrame'}
      /\ StillSteady
  BY DEF Noticed
<1>3. ListingTypeOK'
  BY <1>1, <1>2 DEF ListingInv, ListingTypeOK, StillSteady
<1>4. LimitsInv'
  BY <1>1, <1>2 DEF ListingInv, LimitsInv, AliasLimits
<1>5. PageInv'
  <2>1. at' = "idle" => steady' = {} /\ offset' = 0
    BY <1>1, <1>2 DEF ListingInv, PageInv, StillSteady
  <2>2. ASSUME NEW row \in steady'
        PROVE  /\ IsAlone(row)'
               /\ row \notin seen' =>
                    /\ offset' <= Cardinality(Above(row)')
                    /\ at' \in {"recount", "count"} =>
                         offset' + PageSize <= Cardinality(Above(row)')
    <3>1. /\ row \in steady /\ IsAlone(row)'
          /\ Cardinality(Above(row)) <= Cardinality(Above(row)')
          /\ Cardinality(Above(row)) \in Nat /\ Cardinality(Above(row)') \in Nat
      BY <1>2, SteadyFalls DEF ListingInv
    <3>2. offset \in Nat
      BY DEF ListingInv, ListingTypeOK
    <3>3. QED
      BY <1>1, <3>1, <3>2 DEF ListingInv, PageInv
  <2>3. QED
    BY <2>1, <2>2 DEF PageInv
<1>6. QED
  BY <1>3, <1>4, <1>5 DEF ListingInv

(* The rows are watched anew, or go on being watched.                      *)
LEMMA WatchedRows ==
  ASSUME ListingInv, RowsAreWatched, offset' = offset, seen' = seen, at # "idle",
         at' \in {"page", "count"}, at' = "page" <=> at \in {"next", "range"},
         at \in {"next", "range", "recount"}
  PROVE  PageInv' /\ steady' \subseteq Listed'
<1>1. offset \in Nat
  BY DEF ListingInv, ListingTypeOK
<1>2. CASE offset = 0 /\ at \in {"next", "range"}
  <2>1. steady' = { row \in Listed' : IsAlone(row)' }
    BY <1>2 DEF RowsAreWatched
  <2>2. ASSUME NEW row \in steady'
        PROVE  Cardinality(Above(row)') \in Nat
    <3>1. Above(row)' \in SUBSET Listed' /\ Listed' \in SUBSET SUBSET Threads
      BY DEF Above, Listed, Rows
    <3>2. IsFiniteSet(SUBSET Threads)
      BY FS_SUBSET
    <3>3. QED
      BY <3>1, <3>2, FS_Subset, FS_CardinalityType
  <2>3. QED
    BY <1>2, <2>1, <2>2 DEF PageInv
<1>3. CASE ~(offset = 0 /\ at \in {"next", "range"})
  <2>1. StillSteady
    BY <1>3 DEF RowsAreWatched
  <2>2. ASSUME NEW row \in steady'
        PROVE  /\ row \in steady /\ row \in Listed' /\ IsAlone(row)'
               /\ Cardinality(Above(row)) <= Cardinality(Above(row)')
               /\ Cardinality(Above(row)) \in Nat /\ Cardinality(Above(row)') \in Nat
    BY <2>1, SteadyFalls DEF ListingInv
  <2>3. ASSUME NEW row \in steady', row \notin seen'
        PROVE  /\ offset' <= Cardinality(Above(row)')
               /\ at' \in {"recount", "count"} => offset' + PageSize <= Cardinality(Above(row)')
    BY <1>1, <2>2, <2>3 DEF ListingInv, PageInv
  <2>4. QED
    BY <2>2, <2>3 DEF PageInv
<1>4. QED
  BY <1>2, <1>3

(* A request that ends or fails leaves nothing.                            *)
LEMMA EndStep ==
  ASSUME ListingInv, RequestEnds, UNCHANGED mail
  PROVE  ListingInv'
<1>1. ListingTypeOK'
  BY DEF RequestEnds, mail, ListingInv, ListingTypeOK, DateRange, Always
<1>2. LimitsInv' /\ PageInv'
  BY DEF RequestEnds, LimitsInv, PageInv
<1>3. QED
  BY <1>1, <1>2 DEF ListingInv

(* The steps of a request that leave the list as it is.                    *)
LEMMA SameListStep ==
  ASSUME ListingInv, UNCHANGED <<times, kind, limits, steady>>, at # "idle",
         \/ offset' = offset /\ seen' = seen /\ at' \in {"range", "next"}
         \/ at = "count" /\ offset' = offset + PageSize /\ seen' = seen /\ at' = "next"
  PROVE  PageInv' /\ steady' \subseteq Listed'
<1>1. /\ Listed' = Listed
      /\ \A row : Above(row)' = Above(row) /\ (IsAlone(row)' <=> IsAlone(row))
  BY SameList
<1>2. offset \in Nat /\ steady \subseteq Listed
  BY DEF ListingInv, ListingTypeOK
<1>3. QED
  BY <1>1, <1>2 DEF ListingInv, PageInv

LEMMA BeginsStep ==
  ASSUME ListingInv, NEW k \in {"user", "alias", "contact"}, NEW range \in Asked,
         ListingBegins(k, range)
  PROVE  ListingInv'
<1>1. steady = {} /\ offset = 0 /\ at = "idle"
  BY DEF ListingBegins, ListingInv, PageInv
<1>2. ListingTypeOK' /\ PageInv'
  BY <1>1 DEF ListingBegins, mail, since, ListingInv, ListingTypeOK, PageInv
<1>3. LimitsInv'
  BY DEF ListingBegins, mail, since, ListingInv, LimitsInv
<1>4. QED
  BY <1>2, <1>3 DEF ListingInv

LEMMA AskUserStep == ASSUME ListingInv, AskUser PROVE ListingInv'
<1>1. PageInv' /\ steady' \subseteq Listed'
  BY WatchedRows DEF AskUser
<1>2. ListingTypeOK'
  BY <1>1 DEF AskUser, mail, since, ListingInv, ListingTypeOK
<1>3. LimitsInv'
  BY DEF AskUser, mail, since, ListingInv, LimitsInv
<1>4. QED
  BY <1>1, <1>2, <1>3 DEF ListingInv

LEMMA AskAliasStep == ASSUME ListingInv, AskAlias PROVE ListingInv'
<1>1. PageInv' /\ steady' \subseteq Listed'
  BY SameListStep DEF AskAlias, mail
<1>2. ListingTypeOK'
  BY <1>1 DEF AskAlias, mail, ListingInv, ListingTypeOK
<1>3. LimitsInv'
  BY DEF AskAlias, mail, LimitsInv
<1>4. QED
  BY <1>1, <1>2, <1>3 DEF ListingInv

(* The later and the earlier of two days are one of them.                  *)
LEMMA OneOfTwo ==
  ASSUME NEW a, NEW b
  PROVE  Later(a, b) \in {a, b} /\ Earlier(a, b) \in {a, b}
BY DEF Later, Earlier

LEMMA AliasFoundStep == ASSUME ListingInv, AliasFound PROVE ListingInv'
<1>1. PageInv' /\ steady' \subseteq Listed'
  BY WatchedRows DEF AliasFound
<1>2. limits' = AliasLimits(window, start)
  BY DEF AliasFound, ValidEmailRange, AliasLimits
<1>3. limits' \in DateRange
  <2>1. window \in DateRange /\ durationParams \in DateRange /\ start \in 0 .. LastTime
    BY DEF ListingInv, ListingTypeOK
  <2>2. /\ window.from \in 0 .. LastTime /\ window.upto \in 0 .. LastTime
        /\ durationParams.from \in 0 .. LastTime /\ durationParams.upto \in 0 .. LastTime
    BY <2>1 DEF DateRange
  <2>3. /\ Later(Later(window.from, start), durationParams.from) \in 0 .. LastTime
        /\ Earlier(window.upto, durationParams.upto) \in 0 .. LastTime
    BY <2>1, <2>2 DEF Later, Earlier
  <2>4. QED
    BY <1>2, <2>3 DEF AliasLimits, DateRange
<1>4. ListingTypeOK'
  BY <1>1, <1>3 DEF AliasFound, mail, since, ListingInv, ListingTypeOK
<1>5. LimitsInv'
  <2>1. window \in windows /\ start \in starts /\ kind = "alias"
    BY DEF AliasFound, ListingInv, LimitsInv
  <2>2. /\ kind' = kind /\ windows' = windows /\ starts' = starts /\ at' = "page"
        /\ window' = window /\ timeFrame' = timeFrame /\ durationParams' = durationParams
    BY DEF AliasFound, mail, since
  <2>3. \E w \in windows', s \in starts' : limits' = AliasLimits(w, s)'
    BY <1>2, <2>1, <2>2 DEF AliasLimits
  <2>4. QED
    BY <2>1, <2>2, <2>3 DEF ListingInv, LimitsInv
<1>6. QED
  BY <1>1, <1>4, <1>5 DEF ListingInv

LEMMA AskContactStep == ASSUME ListingInv, AskContact PROVE ListingInv'
<1>1. PageInv' /\ steady' \subseteq Listed'
  BY WatchedRows DEF AskContact
<1>2. limits' \in DateRange /\ limits'.from = timeFrame
  BY DEF AskContact, Always, DateRange, ListingInv, ListingTypeOK
<1>3. ListingTypeOK'
  BY <1>1, <1>2 DEF AskContact, mail, since, ListingInv, ListingTypeOK
<1>4. LimitsInv'
  BY <1>2 DEF AskContact, mail, since, ListingInv, LimitsInv
<1>5. QED
  BY <1>1, <1>3, <1>4 DEF ListingInv

(* The page that is read has the steady rows that are due.                 *)
LEMMA PageReadStep == ASSUME ListingInv, PageRead PROVE ListingInv'
<1> USE DEF PageRead
<1>1. PICK o \in RowOrders : seen' = seen \cup Page(o)
  OBVIOUS
<1>2. Page(o) \subseteq Listed
  BY DEF Page, RowOrders
<1>3. /\ Listed' = Listed
      /\ \A row : Above(row)' = Above(row) /\ (IsAlone(row)' <=> IsAlone(row))
  BY SameList DEF mail
<1>4. ListingTypeOK'
  <2>1. Listed \subseteq SUBSET Threads
    BY DEF Listed, Rows
  <2>2. QED
    BY <1>1, <1>2, <1>3, <2>1 DEF mail, ListingInv, ListingTypeOK
<1>5. LimitsInv'
  BY DEF mail, LimitsInv
<1>6. PageInv'
  <2>1. ASSUME NEW row \in steady, row \notin seen'
        PROVE  offset + PageSize <= Cardinality(Above(row))
    <3>1. row \in Listed /\ IsAlone(row) /\ offset \in Nat /\ offset <= Cardinality(Above(row))
      BY <1>1, <2>1 DEF ListingInv, ListingTypeOK, PageInv
    <3>2. Above(row) \in SUBSET Listed
      BY DEF Above
    <3>3. Cardinality(Above(row)) \in Nat
      BY <3>2, RowsAreFinite
    <3>4. row \notin Page(o)
      BY <1>1, <2>1
    <3>5. ~ (Cardinality(Above(row)) < offset + PageSize)
      BY <1>1, <3>1, <3>4, PageHolds DEF ListingInv
    <3>6. QED
      BY <3>1, <3>3, <3>5
  <2>2. ASSUME NEW row \in steady, row \notin seen'
        PROVE  offset <= Cardinality(Above(row))
    BY <1>1, <2>2 DEF ListingInv, PageInv
  <2>3. QED
    BY <1>3, <2>1, <2>2 DEF ListingInv, PageInv
<1>7. QED
  BY <1>4, <1>5, <1>6 DEF ListingInv

LEMMA TotalReadStep == ASSUME ListingInv, TotalRead PROVE ListingInv'
<1>1. CASE HasNextPage
  <2>1. PageInv' /\ steady' \subseteq Listed'
    BY <1>1, SameListStep DEF TotalRead, mail
  <2>2. ListingTypeOK'
    <3>1. /\ at' = "next" /\ offset' = offset + PageSize /\ UNCHANGED <<times, window, timeFrame>>
          /\ UNCHANGED <<kind, durationParams, start, limits, seen, windows, starts>>
      BY <1>1 DEF TotalRead, mail, since
    <3>2. offset' \in Nat
      BY <3>1 DEF ListingInv, ListingTypeOK
    <3>3. QED
      BY <2>1, <3>1, <3>2 DEF ListingInv, ListingTypeOK
  <2>3. LimitsInv'
    BY <1>1 DEF TotalRead, mail, since, ListingInv, LimitsInv
  <2>4. QED
    BY <2>1, <2>2, <2>3 DEF ListingInv
<1>2. CASE ~HasNextPage
  BY <1>2, EndStep DEF TotalRead
<1>3. QED
  BY <1>1, <1>2

LEMMA ListingStepInv == ListingInv /\ [ListingNext]_listingVars => ListingInv'
<1> SUFFICES ASSUME ListingInv, [ListingNext]_listingVars PROVE ListingInv'
  OBVIOUS
<1>1. ASSUME NEW t \in Threads, NEW m \in Times, MessageArrives(t, m) PROVE ListingInv'
  <2>1. times' \in [Threads -> SUBSET Times]
    BY <1>1 DEF MessageArrives, ListingInv, ListingTypeOK
  <2>2. QED
    BY <1>1, <2>1, MailStep DEF MessageArrives, ListingInv, ListingTypeOK
<1>2. ASSUME NEW w \in Windows, WindowChanges(w) PROVE ListingInv'
  BY <1>2, MailStep DEF WindowChanges, ListingInv, ListingTypeOK
<1>3. ASSUME NEW s \in Starts, FrameChanges(s) PROVE ListingInv'
  BY <1>3, MailStep DEF FrameChanges, ListingInv, ListingTypeOK
<1>4. ASSUME NEW k \in {"user", "alias", "contact"}, NEW range \in Asked, ListingBegins(k, range)
      PROVE  ListingInv'
  BY <1>4, BeginsStep
<1>5. CASE AskUser
  BY <1>5, AskUserStep
<1>6. CASE AskAlias
  BY <1>6, AskAliasStep
<1>7. CASE AliasFound
  BY <1>7, AliasFoundStep
<1>8. CASE AskContact
  BY <1>8, AskContactStep
<1>9. CASE PageRead
  BY <1>9, PageReadStep
<1>10. CASE TotalRead
  BY <1>10, TotalReadStep
<1>11. CASE ListingFails
  BY <1>11, EndStep DEF ListingFails
<1>12. CASE UNCHANGED listingVars
  <2>1. /\ Listed' = Listed
        /\ \A row : Above(row)' = Above(row) /\ (IsAlone(row)' <=> IsAlone(row))
    BY <1>12, SameList DEF listingVars, mail, request
  <2>2. UNCHANGED <<mail, request, steady, since>>
    BY <1>12 DEF listingVars
  <2>3. ListingTypeOK'
    BY <2>1, <2>2 DEF mail, request, since, ListingInv, ListingTypeOK
  <2>4. LimitsInv'
    BY <2>2 DEF mail, request, since, ListingInv, LimitsInv, AliasLimits
  <2>5. PageInv'
    BY <2>1, <2>2 DEF mail, request, since, ListingInv, PageInv
  <2>6. QED
    BY <2>3, <2>4, <2>5 DEF ListingInv
<1>13. QED
  BY <1>1, <1>2, <1>3, <1>4, <1>5, <1>6, <1>7, <1>8, <1>9, <1>10, <1>11, <1>12 DEF ListingNext

THEOREM ListingInvariant == ListingSpec => []ListingInv
<1>1. ListingInit => ListingInv
  BY ListingInitInv
<1>2. ListingInv /\ [ListingNext]_listingVars => ListingInv'
  BY ListingStepInv
<1>3. QED
  BY <1>1, <1>2, PTL DEF ListingSpec

(* A row with so many above it that it comes after the last page cannot    *)
(* be: it would not count itself.                                          *)
LEMMA InvMissesNothing == ListingInv => PagesMissNothing
<1> SUFFICES ASSUME ListingInv, at = "count", ~HasNextPage, NEW row \in steady
             PROVE  row \in seen
  BY DEF ListingInv, PagesMissNothing
<1>1. row \in Listed /\ row \notin Above(row) /\ Above(row) \in SUBSET Listed
  <2>1. row \in Listed
    BY DEF ListingInv, ListingTypeOK
  <2>2. Updated(row) \in Nat
    BY <2>1, UpdatedIsOne DEF ListingInv
  <2>3. QED
    BY <2>1, <2>2 DEF Above
<1>2. /\ Cardinality(Above(row)) \in Nat /\ Cardinality(Listed) \in Nat
      /\ Cardinality(Above(row)) < Cardinality(Listed)
  BY <1>1, RowsAreFinite
<1>3. offset \in Nat /\ Cardinality(Listed) <= offset + PageSize
  BY <1>2 DEF HasNextPage, ListingInv, ListingTypeOK
<1>4. QED
  BY <1>2, <1>3 DEF ListingInv, PageInv

(* When the total says that there are no more pages, the client has got    *)
(* every row to which nothing happened meanwhile, for any mail, rows and   *)
(* size of a page.                                                         *)
THEOREM NothingMissed == ListingSpec => []PagesMissNothing
BY ListingInvariant, InvMissesNothing, PTL

(* What comes to be shown is on the page that is read.                     *)
LEMMA SeenIsListed ==
  ASSUME ListingNext, NEW row \in seen' \ seen
  PROVE  PageRead /\ row \in Listed
<1>1. CASE PageRead
  <2>1. PICK o \in RowOrders : seen' = seen \cup Page(o)
    BY <1>1 DEF PageRead
  <2>2. o \in [1 .. Cardinality(Listed) -> Listed] /\ row \in Page(o)
    BY <2>1 DEF RowOrders
  <2>3. QED
    BY <1>1, <2>2 DEF Page
<1>2. CASE ~PageRead
  BY <1>2 DEF ListingNext, MessageArrives, WindowChanges, FrameChanges, ListingBegins, AskUser,
              AskAlias, AliasFound, AskContact, TotalRead, ListingFails, RequestEnds, request
<1>3. QED
  BY <1>1, <1>2

LEMMA StepIsAllowed ==
  ASSUME ListingInv, ListingNext, NEW row \in seen' \ seen
  PROVE  /\ kind = "contact" => \E s \in starts, t \in row : \E m \in times[t] : s <= m
         /\ kind = "alias" =>
              \E w \in windows, s \in starts, t \in row :
                /\ w.from <= Newest(t) /\ Newest(t) <= w.upto /\ s <= Newest(t)
                /\ durationParams.from <= Newest(t) /\ Newest(t) <= durationParams.upto
<1>1. at = "page" /\ row \in Listed
  BY SeenIsListed DEF PageRead
<1>2. PICK t \in row : IsInRange(t) /\ t \in Threads
  BY <1>1 DEF Listed, Rows
<1>3. ASSUME kind = "contact"
      PROVE  \E s \in starts, u \in row : \E m \in times[u] : s <= m
  <2>1. limits.from \in starts
    BY <1>1, <1>3 DEF ListingInv, LimitsInv
  <2>2. \E m \in times[t] : limits.from <= m
    BY <1>2, <1>3 DEF IsInRange
  <2>3. QED
    BY <1>2, <2>1, <2>2
<1>4. ASSUME kind = "alias"
      PROVE  \E w \in windows, s \in starts, u \in row :
               /\ w.from <= Newest(u) /\ Newest(u) <= w.upto /\ s <= Newest(u)
               /\ durationParams.from <= Newest(u) /\ Newest(u) <= durationParams.upto
  <2>1. PICK w \in windows, s \in starts : limits = AliasLimits(w, s)
    BY <1>1, <1>4 DEF ListingInv, LimitsInv
  <2>2. times[t] # {} /\ limits.from <= Newest(t) /\ Newest(t) <= limits.upto
    BY <1>2, <1>4 DEF IsInRange
  <2>3. Newest(t) \in Nat
    BY <1>2, <2>2, NewestIsOne DEF ListingInv, Times
  <2>4. w \in DateRange /\ s \in 0 .. LastTime /\ durationParams \in DateRange
    BY DEF ListingInv, ListingTypeOK
  <2>5. /\ w.from \in Nat /\ w.upto \in Nat /\ s \in Nat
        /\ durationParams.from \in Nat /\ durationParams.upto \in Nat
    BY <2>4 DEF DateRange
  <2>6. /\ limits.from = Later(Later(w.from, s), durationParams.from)
        /\ limits.upto = Earlier(w.upto, durationParams.upto)
    BY <2>1 DEF AliasLimits
  <2>7. /\ w.from <= Newest(t) /\ Newest(t) <= w.upto /\ s <= Newest(t)
        /\ durationParams.from <= Newest(t) /\ Newest(t) <= durationParams.upto
    BY <2>2, <2>3, <2>5, <2>6 DEF Later, Earlier
  <2>8. QED
    BY <1>2, <2>7
<1>5. QED
  BY <1>3, <1>4

(* A thread is shown through an alias only if its newest message is within *)
(* the range asked for, the alias's dates and the company's time frame,    *)
(* and with a contact only if a message is in the frame, as they were at   *)
(* some moment of the request.                                             *)
THEOREM ShownAllowed == ListingSpec => ShownWasAllowed
<1> DEFINE Allowed ==
      \A row \in seen' \ seen :
        /\ kind = "contact" => \E s \in starts, t \in row : \E m \in times[t] : s <= m
        /\ kind = "alias" =>
             \E w \in windows, s \in starts, t \in row :
               /\ w.from <= Newest(t) /\ Newest(t) <= w.upto /\ s <= Newest(t)
               /\ durationParams.from <= Newest(t) /\ Newest(t) <= durationParams.upto
<1>1. ListingInv /\ [ListingNext]_listingVars => [Allowed]_listingVars
  <2> SUFFICES ASSUME ListingInv, ListingNext PROVE Allowed
    OBVIOUS
  <2>1. QED
    BY StepIsAllowed
<1>2. QED
  BY <1>1, ListingInvariant, PTL DEF ListingSpec, ShownWasAllowed
=============================================================================
