----------------------------- MODULE ContactAccess -----------------------------
(***************************************************************************)
(* What one of the users, the reader, may see of the mail his colleagues   *)
(* exchange with contacts (contact.service.ts and its middlewares,         *)
(* fetchVisibleEmailsProviderIds).  Subordinates, collaborators, aliases   *)
(* and mapped domains are each looked up by a statement of its own, and    *)
(* some of them twice, while other requests change them.                   *)
(*                                                                         *)
(* Whatever lets the reader see something is a grant.  A request finds     *)
(* domains, and through them contacts; the mail with a contact is limited  *)
(* to some colleagues, depending on how its domain was found, and an empty *)
(* list of colleagues is no limit at all.  Requests only read and so one   *)
(* is enough.                                                              *)
(*                                                                         *)
(* There are two ways to limit.  A thread is in the mailbox of one         *)
(* colleague, and attachments and last dates are limited to the mailboxes  *)
(* of the list.  A thread has a row for each address it was sent from or   *)
(* to, with the id of a colleague or of a contact, and the mail with a     *)
(* contact and the numbers of threads are limited to threads with a row    *)
(* whose id is in the list.  Colleagues and contacts are numbered by two   *)
(* tables, and which one a row's id is of is not looked at.                *)
(*                                                                         *)
(* Mail that arrives meanwhile, the dates it is limited to and paging are  *)
(* the subject of ThreadListing.  Searches and filters only narrow what is *)
(* found and are left out, as is the mail of the reader himself.           *)
(***************************************************************************)
EXTENDS Naturals

CONSTANTS Colleagues,        \* the reader's colleagues
          Viewer,
          Contacts, Domains,
          ClientDomainOf,   \* the domain of each contact
          Private,      \* PROVIDER_DOMAIN_LIST, the domains anybody has an address in
          SameId,       \* a colleague and a contact that have the same id
          Mail,         \* the threads
          Grantable,    \* the grants that are ever given
          Searches,     \* what requests ask for
          Openings,     \* the contacts of the threads that are opened
          MaxChanges    \* bounds the changes of grants during a request

Owners == Colleagues \cup {Viewer}

(* The colleague in whose mailbox a thread is, and the colleagues and the  *)
(* contacts that have rows in it.                                          *)
Thread == [owner : Colleagues, users : SUBSET Colleagues, contacts : SUBSET Contacts]

(* A live mapping to a supervisor, to an alias, an alias whose dates       *)
(* include today, what the query for active collaborators returns, a live  *)
(* mapping of a domain.                                                    *)
Subordinate(u) == <<"subordinate", u>>
Alias(u) == <<"alias", u>>
InDates(u) == <<"dates", u>>
Collaborator(u) == <<"collaborator", u>>
Mapped(o, d) == <<"domain", o, d>>

(* The body of a request names subordinates, collaborators and aliases,    *)
(* "all" being all there are.  mine is "none" when it asks for others only,*)
(* "team" when it asks for the reader's own and the role in his token is   *)
(* that of a supervisor.                                                   *)
Search == [mine : {"none", "own", "team"}, subordinates : SUBSET Colleagues,
           collaborators : SUBSET Colleagues, aliases : SUBSET Colleagues]

NoSearch == [mine |-> "none", subordinates |-> {}, collaborators |-> {}, aliases |-> {}]

ASSUME AccessAssumption ==
  /\ Viewer \notin Colleagues
  /\ ClientDomainOf \in [Contacts -> Domains] /\ Private \subseteq Domains
  /\ Mail \subseteq Thread
  /\ SameId \subseteq Colleagues \X Contacts
  /\ \A p, q \in SameId : p[1] = q[1] <=> p[2] = q[2]
  /\ Searches \subseteq Search /\ Openings \subseteq SUBSET Contacts
  /\ MaxChanges \in Nat

VARIABLES grants,
          view, about, search, \* the request: of what, of which contacts, how,
          reached,    \* how far it is,
          found,      \* what each of its look-ups has found,
          supervised, \* the subordinates that limits are made of,
          pending,    \* the contacts that still have none,
          limitOf,    \* and the limits
          ever,       \* history, read by no action: the grants there were at some
          always,     \* moment of the request, those there were all along,
          changes     \* and how many changes

limiting == <<supervised, pending, limitOf>>
question == <<view, about, search>>
accessVars == <<grants, question, reached, found, limiting, ever, always, changes>>

(* The look-ups, in their order.                                           *)
LookUps == {"own", "subordinates", "collaborators", "domains", "aliases", "active"}

NothingFound == [l \in LookUps |-> {}]

(* Here the rows of colleagues are told from those of contacts.            *)
ContactsOf(us) == UNION { m.contacts : m \in { t \in Mail : t.users \cap us # {} } }

DomainsOf(cs) == { ClientDomainOf[c] : c \in cs }

SubordinateDomains == DomainsOf(ContactsOf(found.subordinates))
AliasDomains == DomainsOf(ContactsOf(found.active)) \ Private

AllClientDomains == found.domains \cup SubordinateDomains \cup AliasDomains

ClientContacts ==
  { c \in Contacts : ClientDomainOf[c] \in found.domains }
    \cup ContactsOf(found.subordinates) \cup ContactsOf(found.active)

(* Mutant: a subordinate counts before a mapping. *)
AccessType_SubordinateFirst(c) ==
  CASE ClientDomainOf[c] \in SubordinateDomains -> "supervisor"
    [] ClientDomainOf[c] \in found.domains \ SubordinateDomains -> "mapping"
    [] ClientDomainOf[c] \in AliasDomains \ (found.domains \cup SubordinateDomains) -> "alias"
    [] OTHER -> "none"

(* getContactAccessType. *)
AccessType(c) ==
  CASE ClientDomainOf[c] \in found.domains -> "mapping"
    [] ClientDomainOf[c] \in SubordinateDomains \ found.domains -> "supervisor"
    [] ClientDomainOf[c] \in AliasDomains \ (found.domains \cup SubordinateDomains) -> "alias"
    [] OTHER -> "none"

(* fetchVisibleEmailsProviderIds. *)
Limit(c) ==
  CASE AccessType(c) = "alias" -> { u \in found.aliases : Alias(u) \in grants }
    [] AccessType(c) = "supervisor" -> found.subordinates \cap supervised
    [] OTHER -> {}

(* The contacts that are listed, or whose mail is.  Addresses at a private *)
(* domain are never listed; opening a thread takes one domain that is      *)
(* found.                                                                  *)
Shows(c) ==
  CASE view = "emails" -> c \in about /\ ClientDomainOf[c] \in AllClientDomains
    [] view \in {"contacts", "attachments"} ->
         /\ ClientDomainOf[c] \in AllClientDomains \ Private
         /\ ClientContacts = {} \/ c \in ClientContacts
    [] OTHER -> c \in about /\ DomainsOf(about) \cap AllClientDomains # {}

(* A contact of the thread has the id of one of the colleagues us.         *)
IdMistaken(m, us) == \E u \in us : \E x \in m.contacts : <<u, x>> \in SameId

(* fetchThreadsByContactId. *)
HasRowOf(m, us) == m.users \cap us # {} \/ IdMistaken(m, us)

(* visibleProviderUsersFilter, where the query joins owners of mailboxes.  *)
InMailboxOf(m, us) == m.owner \in us

(* The list of contacts has figures limited in either way.                 *)
Passes(m, us) ==
  \/ us = {}
  \/ view \in {"emails", "contacts"} /\ HasRowOf(m, us)
  \/ view \in {"attachments", "contacts"} /\ InMailboxOf(m, us)

(* The threads that the answer is about, each with the contact for whose   *)
(* sake it is.                                                             *)
Shown ==
  { p \in Mail \X Contacts :
      p[2] \in p[1].contacts /\ Shows(p[2]) /\ Passes(p[1], limitOf[p[2]]) }
-----------------------------------------------------------------------------
NoLimits == [c \in Contacts |-> {}]

AccessInit ==
  /\ grants = {}
  /\ view = "contacts" /\ about = {} /\ search = NoSearch /\ reached = "idle"
  /\ found = NothingFound
  /\ supervised = {} /\ pending = {} /\ limitOf = NoLimits
  /\ ever = {} /\ always = {} /\ changes = 0

Counted(g) ==
  /\ IF reached = "idle" THEN UNCHANGED <<ever, always, changes>>
     ELSE /\ changes < MaxChanges /\ changes' = changes + 1
          /\ ever' = ever \cup {g} /\ always' = always \ {g}
  /\ UNCHANGED <<question, reached, found, limiting>>

(* Another request, or the day that begins, gives or takes something.      *)
Grant(g) ==
  /\ g \notin grants
  /\ grants' = grants \cup {g}
  /\ Counted(g)

Withdraw(g) ==
  /\ g \in grants
  /\ grants' = grants \ {g}
  /\ Counted(g)

(* A list of contacts or of their attachments, the mail with one of them,  *)
(* or a thread that is opened.                                             *)
Ask(k, w, s) ==
  /\ reached = "idle"
  /\ view' = k /\ about' = w /\ search' = s /\ reached' = "own"
  /\ ever' = grants /\ always' = grants /\ changes' = 0
  /\ UNCHANGED <<grants, found, limiting>>

Finds(lookUp, what, next) ==
  /\ reached = lookUp /\ reached' = next
  /\ found' = [found EXCEPT ![lookUp] = what]
  /\ UNCHANGED <<grants, question, limiting, ever, always, changes>>

OwnFound ==
  Finds("own",
        CASE search.mine = "none" -> {}
          [] search.mine = "own" -> {Viewer}
          [] OTHER -> { u \in Colleagues : Subordinate(u) \in grants } \cup {Viewer},
        "subordinates")

(* Mutant: the subordinates asked for are believed. *)
SubordinatesFound_Unchecked ==
  Finds("subordinates", search.subordinates, "collaborators")

SubordinatesFound ==
  Finds("subordinates",
        { u \in search.subordinates : Subordinate(u) \in grants },
        "collaborators")

CollaboratorsFound ==
  Finds("collaborators",
        { u \in search.collaborators : Collaborator(u) \in grants },
        "domains")

DomainsFound ==
  Finds("domains",
        { d \in Domains :
            \E o \in found.own \cup found.subordinates \cup found.collaborators :
              Mapped(o, d) \in grants },
        "aliases")

IsActive(u) == {Alias(u), InDates(u)} \subseteq grants

AliasesFound ==
  Finds("aliases", { u \in search.aliases : IsActive(u) }, "active")

(* findAliasClientDomainsByUserAndAliasIdsIn looks them up again.          *)
ActiveFound ==
  Finds("active", { u \in found.aliases : IsActive(u) }, "supervised")

(* The contacts for which colleagues are looked up.                        *)
ToLimit ==
  CASE view = "emails" -> { c \in about : Shows(c) }
    [] view \in {"contacts", "attachments"} -> ClientContacts
    [] OTHER -> {}

SupervisedFound ==
  /\ reached = "supervised" /\ reached' = "limits"
  /\ supervised' = { u \in Colleagues : Subordinate(u) \in grants }
  /\ pending' = ToLimit
  /\ UNCHANGED <<grants, question, found, limitOf, ever, always, changes>>

LimitFound(c) ==
  /\ reached = "limits" /\ c \in pending
  /\ pending' = pending \ {c}
  /\ limitOf' = [limitOf EXCEPT ![c] = Limit(c)]
  /\ UNCHANGED <<grants, question, reached, found, supervised, ever, always, changes>>

IsAnswered == reached = "limits" /\ pending = {}

RequestOver ==
  /\ view' = "contacts" /\ about' = {} /\ search' = NoSearch /\ reached' = "idle"
  /\ found' = NothingFound
  /\ supervised' = {} /\ pending' = {} /\ limitOf' = NoLimits
  /\ ever' = {} /\ always' = {} /\ changes' = 0
  /\ UNCHANGED grants

(* The answer, be it a refusal because nothing is shown.                   *)
AccessAnswer == IsAnswered /\ RequestOver

AccessFails == reached # "idle" /\ RequestOver

AccessNext ==
  \/ \E g \in Grantable : Grant(g) \/ Withdraw(g)
  \/ \E s \in Searches :
       \/ Ask("contacts", {}, s) \/ Ask("attachments", {}, s)
       \/ \E c \in Contacts : Ask("emails", {c}, s)
       \/ \E w \in Openings : Ask("thread", w, s)
  \/ OwnFound \/ SubordinatesFound \/ CollaboratorsFound \/ DomainsFound
  \/ AliasesFound \/ ActiveFound \/ SupervisedFound
  \/ \E c \in Contacts : LimitFound(c)
  \/ AccessAnswer \/ AccessFails

AccessSpec == AccessInit /\ [][AccessNext]_accessVars
-----------------------------------------------------------------------------
AccessTypeOK ==
  /\ grants \subseteq Grantable /\ ever \subseteq Grantable /\ always \subseteq ever
  /\ view \in {"contacts", "attachments", "emails", "thread"} /\ about \subseteq Contacts /\ search \in Search
  /\ reached \in LookUps \cup {"idle", "supervised", "limits"}
  /\ DOMAIN found = LookUps
  /\ found.own \subseteq Owners /\ found.domains \subseteq Domains
  /\ found.subordinates \cup found.collaborators \cup found.aliases \subseteq Colleagues
  /\ found.active \subseteq found.aliases
  /\ supervised \subseteq Colleagues /\ pending \subseteq Contacts
  /\ limitOf \in [Contacts -> SUBSET Colleagues]
  /\ changes \in 0 .. MaxChanges

(* Whose domains a search gives the reader, by the grants gs.              *)
Lent(gs) ==
  (IF search.mine = "none" THEN {} ELSE {Viewer})
    \cup { u \in Colleagues :
             \/ Subordinate(u) \in gs /\ (search.mine = "team" \/ u \in search.subordinates)
             \/ Collaborator(u) \in gs /\ u \in search.collaborators }

MappedBy(gs, d) == \E o \in Lent(gs) : Mapped(o, d) \in gs

SubordinateBy(gs, u) == u \in search.subordinates /\ Subordinate(u) \in gs

AliasBy(gs, u) == u \in search.aliases /\ {Alias(u), InDates(u)} \subseteq gs

(* Whether the domain of a contact is found through somebody's mail.       *)
FoundThrough(us, c) == ClientDomainOf[c] \in DomainsOf(ContactsOf(us))

(* Everybody through whom a contact was found had been given to the reader *)
(* and was taken from him before the mail was limited: then nothing limits *)
(* it.                                                                     *)
LimitLost(c) ==
  \/ /\ AccessType(c) = "supervisor" /\ found.subordinates # {}
     /\ \A u \in found.subordinates : Subordinate(u) \in ever \ always
  \/ /\ AccessType(c) = "alias" /\ found.aliases # {}
     /\ \A u \in found.aliases : Alias(u) \in ever \ always

(* A thread that is shown with a contact is in the mailbox of a colleague  *)
(* the reader had been given and asked for at some moment of the request,  *)
(* or has a row of one, as the answer has it; or the contact's domain is   *)
(* mapped to him or to somebody given to him, or all through whom he found *)
(* the contact were taken from him since; or the thread has a contact with *)
(* the id of such a colleague, which never lets an attachment through.  A  *)
(* thread is opened only through a domain that was found by a grant.  And  *)
(* all is of its type.                                                     *)
ShownWasGranted ==
  /\ AccessTypeOK
  /\ IsAnswered =>
       \A p \in Shown :
         LET m == p[1]
             c == p[2]
             given == { o \in Colleagues : SubordinateBy(ever, o) \/ AliasBy(ever, o) }
         IN  IF view = "thread"
             THEN \E x \in about : MappedBy(ever, ClientDomainOf[x]) \/ FoundThrough(given, x)
             ELSE \/ MappedBy(ever, ClientDomainOf[c])
                  \/ view # "emails" /\ m.owner \in given
                  \/ view # "attachments" /\ (m.users \cap given # {} \/ IdMistaken(m, given))
                  \/ LimitLost(c)

(* In which colleagues' names a thread stands in the answer.               *)
Bearers(m) ==
  (IF view = "attachments" THEN {} ELSE m.users)
    \cup (IF view = "emails" THEN {} ELSE {m.owner})

(* Whoever had a grant all along is shown what it stands for, whatever is  *)
(* given or taken meanwhile, and not refused: all mail with the contacts   *)
(* of a mapped domain, that of a subordinate who has rows with the         *)
(* contact, and that of such an alias, this one unless the domain was      *)
(* found through a subordinate as well, which comes first.  Contacts at    *)
(* private domains are not listed, nor found through an alias.             *)
HeldIsShown ==
  IsAnswered =>
    \A m \in Mail : \A c \in m.contacts :
      LET d == ClientDomainOf[c]
          known == { u \in Bearers(m) : c \in ContactsOf({u}) }
      IN  /\ IF view \in {"contacts", "attachments"} THEN d \notin Private ELSE c \in about
          /\ \/ MappedBy(always, d)
             \/ \E u \in known : SubordinateBy(always, u)
             \/ /\ \E u \in known : AliasBy(always, u)
                /\ d \notin Private
                /\ ~FoundThrough({ o \in Colleagues : SubordinateBy(ever, o) }, c)
          => <<m, c>> \in Shown
=============================================================================
