---------------------------- MODULE SuppressionList ----------------------------
(***************************************************************************)
(* The flag is_suppressed of a tenant's users (suppressionList.service.ts) *)
(* and what it is for: a listing of threads, the messages of a thread and  *)
(* a list of attachments come without their contents when all users that   *)
(* take part are suppressed and the reader is not one of them              *)
(* (providerUserThread.service.ts, messagePart.service.ts).                *)
(*                                                                         *)
(* A file replaces the list in three statements - reset everybody, find    *)
(* the users, flag them - between which a removal, another file or a       *)
(* reader may come.  Emails stand for users; an item is the set of its     *)
(* emails that are looked at, those of clients and strangers included.     *)
(* Which items a reader gets, and which users are deleted, is left out.    *)
(***************************************************************************)
CONSTANTS Emails,
          Users,      \* the emails that are users,
          Admins,     \* of them the administrators,
          Reader,     \* and the one who reads
          Lists,      \* the lists of emails that are uploaded
          Items,
          Callers     \* bounds how many requests are served at once

ASSUME SuppressionAssumption ==
  /\ Users \subseteq Emails /\ Admins \subseteq Users /\ Reader \in Users
  /\ Lists \subseteq SUBSET Emails /\ Items \subseteq SUBSET Emails

VARIABLES suppressed,   \* the users with is_suppressed
          call,         \* the requests in service that write
          left,         \* what the reading request has not looked at yet,
          shown,        \* and what it answers with
          hidden,       \* and without its contents
          wanted,       \* history, read by no action: the list asked for,
          crossed,      \* whether overlaps or failures have changed it,
          watch         \* and what there was during the reading request

listVars == <<suppressed, call, wanted, crossed>>
suppressionVars == <<listVars, left, shown, hidden, watch>>

Free == [at |-> "free"]

SuppressionInit ==
  /\ suppressed = {} /\ wanted = {} /\ crossed = FALSE
  /\ call = [c \in Callers |-> Free]
  /\ left = {} /\ shown = {} /\ hidden = {}
  /\ watch = [free |-> {}, held |-> {}]

Goes(c, t) == call' = [call EXCEPT ![c] = t]

(* The files whose reset is done and whose users are not flagged yet.      *)
Pending == { c \in Callers : call[c].at = "flag" /\ call[c].resets = "yes" }

WillFlag(list, resets) == [at |-> "flag", users |-> list \cap Users, resets |-> resets]

(* Mutant: the list of before is not reset. *)
UploadCSV_Adds(c, list) ==
  /\ call[c] = Free
  /\ Goes(c, WillFlag(list, "yes"))
  /\ UNCHANGED suppressed
  /\ wanted' = list \cap Users
  /\ crossed' = (Pending # {})

(* processSuppressionCSV up to its last statement.  It heals what went     *)
(* wrong before, unless another file will still flag its users.            *)
UploadCSV(c, list) ==
  /\ call[c] = Free
  /\ Goes(c, WillFlag(list, "yes"))
  /\ suppressed' = {}
  /\ wanted' = list \cap Users
  /\ crossed' = (Pending # {})

(* uploadSuppressionUsers up to its last statement.                        *)
UploadUsers(c, list) ==
  /\ call[c] = Free
  /\ Goes(c, WillFlag(list, "no"))
  /\ UNCHANGED <<suppressed, wanted, crossed>>

(* The update of the users that were found; those of a file are asked for  *)
(* since its reset.                                                        *)
FlagUsers(c) ==
  /\ call[c].at = "flag"
  /\ suppressed' = suppressed \cup call[c].users
  /\ wanted' = IF call[c].resets = "yes" THEN wanted ELSE wanted \cup call[c].users
  /\ Goes(c, Free)
  /\ UNCHANGED crossed

(* removeUserSuppression looks for a suppressed user ...                   *)
RemoveUserSuppression(c, u) ==
  /\ call[c] = Free /\ u \in suppressed
  /\ Goes(c, [at |-> "clear", user |-> u])
  /\ UNCHANGED <<suppressed, wanted, crossed>>

(* ... and clears the flag.                                                *)
ClearUser(c) ==
  /\ call[c].at = "clear"
  /\ suppressed' = suppressed \ {call[c].user}
  /\ wanted' = wanted \ {call[c].user}
  /\ crossed' = (crossed \/ \E d \in Pending : call[c].user \in call[d].users)
  /\ Goes(c, Free)

(* removeUserSuppressionList is a single statement.                        *)
RemoveUserSuppressionList ==
  /\ suppressed' = {} /\ wanted' = {}
  /\ crossed' = (Pending # {})
  /\ UNCHANGED call

(* An upload of users begins by resetting all of them but administrators   *)
(* (processCSV of user.service.ts).                                        *)
UserUploadResets ==
  /\ suppressed' = suppressed \cap Admins
  /\ wanted' = wanted \cap Admins
  /\ crossed' = (crossed \/ \E d \in Pending : ~(call[d].users \subseteq Admins))
  /\ UNCHANGED call

(* A statement fails: a file that has reset the list leaves it empty.      *)
CallFails(c) ==
  /\ call[c] # Free
  /\ crossed' = (crossed \/ c \in Pending)
  /\ Goes(c, Free)
  /\ UNCHANGED <<suppressed, wanted>>
-----------------------------------------------------------------------------
Reading == left # {}

(* What there was since a request began to read; nothing of it counts once *)
(* the flags were not what was asked for.                                  *)
Apart == [free |-> {}, held |-> {}]

Watch(free, held, apart) == IF apart THEN Apart ELSE [free |-> free, held |-> held]

ReadBegins(items) ==
  /\ ~Reading /\ items # {}
  /\ left' = items /\ shown' = {} /\ hidden' = {}
  /\ watch' = Watch(Users \ wanted, wanted, suppressed # wanted)
  /\ UNCHANGED listVars

(* Mutant: one suppressed user hides the item. *)
IsHidden_Any(item) == item \cap suppressed # {} /\ Reader \notin item

(* isSnippetHidden and isSuppressed: nobody else is known to take part.    *)
IsHidden(item) == item \cap Users \subseteq suppressed /\ Reader \notin item

LookAt(items) ==
  /\ left' = left \ items
  /\ hidden' = hidden \cup { i \in items : IsHidden(i) }
  /\ shown' = shown \cup { i \in items : ~IsHidden(i) }
  /\ UNCHANGED <<listVars, watch>>

(* handleSnippetHide and getAndSetThreads ask for the flags of each thread *)
(* by a statement of its own, all of them at once.                         *)
ReadThread(thread) == thread \in left /\ LookAt({thread})

(* getMessagesWithAttachments and getAndSetAttachments ask once for all.   *)
ReadMessages == Reading /\ shown \cup hidden = {} /\ LookAt(left)

(* History: who was asked to be suppressed, and who was not, while the     *)
(* request read, and whether the flags ever said something else.           *)
Watched ==
  /\ watch' = IF Reading /\ watch # Apart
              THEN Watch(watch.free \cup (Users \ wanted'), watch.held \cup wanted',
                         suppressed' # wanted')
              ELSE watch
  /\ UNCHANGED <<left, shown, hidden>>

ListNext ==
  \/ RemoveUserSuppressionList \/ UserUploadResets
  \/ \E c \in Callers :
       \/ \E list \in Lists : UploadCSV(c, list) \/ UploadUsers(c, list)
       \/ \E u \in Users : RemoveUserSuppression(c, u)
       \/ FlagUsers(c) \/ ClearUser(c) \/ CallFails(c)

SuppressionNext ==
  \/ ListNext /\ Watched
  \/ \E items \in SUBSET Items : ReadBegins(items)
  \/ \E thread \in Items : ReadThread(thread)
  \/ ReadMessages

SuppressionSpec == SuppressionInit /\ [][SuppressionNext]_suppressionVars
-----------------------------------------------------------------------------
SuppressionTypeOK ==
  /\ suppressed \subseteq Users /\ wanted \subseteq Users /\ crossed \in BOOLEAN
  /\ call \in [Callers -> {Free} \cup [at : {"clear"}, user : Users]
                                 \cup [at : {"flag"}, users : SUBSET Users, resets : {"yes", "no"}]]
  /\ left \subseteq Items /\ shown \subseteq Items /\ hidden \subseteq Items
  /\ watch \in [free : SUBSET Users, held : SUBSET Users]

(* The flags are those that uploads and removals asked for, an upload of   *)
(* users among them, but for the users a file is about to flag - unless    *)
(* two files overlapped, a removal came between the reset of a file and    *)
(* its end, or a file broke off there; and the next file mends even that.  *)
SuppressionIsAsAsked ==
  \/ crossed
  \/ wanted = suppressed \cup UNION { call[c].users : c \in Pending }

(* Whoever reads while the list is not being replaced gets the contents of *)
(* an item only if a user who takes part was not to be suppressed at some  *)
(* time meanwhile, or he takes part himself; and an item comes without     *)
(* them only if all its users were to be.  A replacement breaks that: its  *)
(* reset shows everything for a moment.                                    *)
HidesAsAsked ==
  watch = Apart \/
    /\ \A i \in shown : Reader \in i \/ i \cap watch.free # {}
    /\ \A i \in hidden : Reader \notin i /\ i \cap Users \subseteq watch.held
=============================================================================
