----------------------------- MODULE ClientDomain -----------------------------
(***************************************************************************)
(* The domains of a tenant's clients and which users they are mapped to:   *)
(* the tables client_domains and provider_users_client_domains, under the  *)
(* requests of clientDomain.service.ts and clientDomainUserMapping.service *)
(* that change them: the two uploads (processCSV and                       *)
(* processClientDomainsUsers), a user's own upload                         *)
(* (processSpecificClientDomainsUsers), mapDomainsToUser,                  *)
(* unmapDomainFromUser and removeClientDomain.                             *)
(*                                                                         *)
(* A request does its lines concurrently, each a chain of statements       *)
(* without a transaction, so the lines of one request and of several       *)
(* interleave at every await.  A line in service is a job here.  Lines     *)
(* that are refused (the domain is not valid, a mail provider's or an      *)
(* admin's; the user is not known) change nothing and are no jobs.         *)
(*                                                                         *)
(* The column domain is unique, so a domain stands for its row; nothing    *)
(* makes (provider_user_id, client_domain_id) unique.                      *)
(***************************************************************************)
EXTENDS Naturals, Sequences, FiniteSets

CONSTANTS Users, Domains,
          Requests,       \* bounds how many requests are served at once
          Lines,          \* the places of a users file; bounds its length
          MaxRows,        \* bounds the rows of provider_users_client_domains
          NoUser, Nothing

ASSUME RowBoundAssumption == MaxRows \in Nat

ASSUME NoUserAssumption == NoUser \notin Users

VARIABLES domains,    \* the state of each domain's row
          rows,       \* the rows of provider_users_client_domains
          deleted,    \* the ids of the rows with is_deleted
          jobs,       \* of each request, the job of each of its lines
          expected,   \* history, read by no action: see Begin
          suspects    \* history, read by no action: see Begin

vars == <<domains, rows, deleted, jobs, expected, suspects>>

Row == [user : Users, domain : Domains]

Outcome == [domains : SUBSET Domains, pairs : SUBSET Row, refused : SUBSET Row]

(* What a line still has to do: create its domain and, when it names a     *)
(* user, the mapping; remove a domain with its mappings; delete one row.   *)
(* The lines of a users file are told apart by their place, all others by  *)
(* their domain.                                                           *)
Job ==
  [at : {"domain", "create", "revive", "mapping", "insert", "done"},
   user : Users \cup {NoUser}, domain : Domains]
    \cup [at : {"undelete", "unmap"}, domain : Domains, row : Nat]
    \cup [at : {"find", "delete", "cut"}, domain : Domains]

Job0(u, d) == [at |-> "domain", user |-> u, domain |-> d]

Done(d) == [at |-> "done", user |-> NoUser, domain |-> d]

Init ==
  /\ domains \in [Domains -> {"absent", "live", "deleted"}]
  /\ rows = <<>>
  /\ deleted = {}
  /\ jobs = [r \in Requests |-> <<>>]
  /\ expected = [r \in Requests |-> Nothing]
  /\ suspects = {}

Live == DOMAIN rows \ deleted

LiveDomains == { d \in Domains : domains[d] = "live" }

LivePairs == { rows[i] : i \in Live }

Busy(r) == jobs[r] # <<>>

Maps(job) == job.at \in {"domain", "create", "revive", "mapping", "insert"} /\ job.user # NoUser

Adds(job) == Maps(job) \/ job.at = "undelete"

Cuts(job) == job.at \in {"find", "delete", "cut"}

(* A mapping that is made while the domain is being removed. *)
Conflict(j, k) ==
  j.domain = k.domain /\ ((Adds(j) /\ Cuts(k)) \/ (Adds(k) /\ Cuts(j)))

InService == UNION { { jobs[r][i] : i \in DOMAIN jobs[r] } : r \in Requests }

Mapping(js) == { i \in DOMAIN js : Maps(js[i]) }

HasRoom(js) ==
  LET waiting == UNION { {r} \X Mapping(jobs[r]) : r \in Requests }
  IN  Len(rows) + Cardinality(waiting) + Cardinality(Mapping(js)) <= MaxRows

(* Request r begins with jobs js.  In history: what its atomic version     *)
(* would leave, with the mappings of the lines the unique column refuses,  *)
(* kept while no other request begins and no other statement fails; and    *)
(* the domains one request removes while another maps them, suspects for   *)
(* good.                                                                   *)
Begin(r, js, liveDomains, livePairs) ==
  /\ ~Busy(r)
  /\ HasRoom(js)
  /\ jobs' = [jobs EXCEPT ![r] = js]
  /\ expected' = [q \in Requests |->
                    IF q # r \/ \E b \in Requests : Busy(b) THEN Nothing
                    ELSE [domains |-> liveDomains, pairs |-> livePairs, refused |-> {}]]
  /\ suspects' = suspects \cup
       { d \in Domains : \E i \in DOMAIN js, k \in InService : js[i].domain = d /\ Conflict(js[i], k) }

(* With its last line a request ends.                                      *)
Settled(js) == IF \A n \in DOMAIN js : js[n].at = "done" THEN <<>> ELSE js

(* Line i of request r goes on as job.                                     *)
Become(r, i, job) ==
  /\ jobs' = [jobs EXCEPT ![r] = Settled([@ EXCEPT ![i] = job])]
  /\ UNCHANGED <<expected, suspects>>

Pairs(u, ds) == [user : {u}, domain : ds]

(* A line fails: it is answered with an error, the others go on.           *)
LineEnds(r, i) ==
  /\ jobs' = [jobs EXCEPT ![r] = Settled([@ EXCEPT ![i] = Done(jobs[r][i].domain)])]
  /\ UNCHANGED <<domains, rows, deleted>>

(* It fails because the unique column refuses its domain.                  *)
LineRefused(r, i) ==
  LET job == jobs[r][i]
      lost == { p \in Pairs(job.user, {job.domain}) : Maps(job) }
  IN  /\ LineEnds(r, i)
      /\ expected' = IF expected[r] = Nothing THEN expected
                     ELSE [expected EXCEPT ![r].refused = @ \cup lost]
      /\ UNCHANGED suspects

LinesOf(u, ds) == [d \in ds |-> Job0(u, d)]

(* Mutant: the file is compared with the live domains it may create. *)
UploadDomains_DropsRefused(r, file, accepted) ==
  LET missing == { d \in Domains : domains[d] # "absent" } \ accepted
  IN  /\ Begin(r, [d \in accepted \cup missing |->
                    IF d \in accepted THEN Job0(NoUser, d) ELSE [at |-> "find", domain |-> d]],
               accepted \cup (LiveDomains \cap file),
               { p \in LivePairs : p.domain \in file \/ domains[p.domain] # "live" })
      /\ UNCHANGED <<domains, rows, deleted>>

(* processCSV: the domains missing in the file are read before the others  *)
(* are created, and removed after it, also those deleted by then.          *)
UploadDomains(r, file, accepted) ==
  LET missing == { d \in Domains : domains[d] # "absent" } \ file
  IN  /\ Begin(r, [d \in accepted \cup missing |->
                    IF d \in accepted THEN Job0(NoUser, d) ELSE [at |-> "find", domain |-> d]],
               accepted \cup (LiveDomains \cap file),
               { p \in LivePairs : p.domain \in file \/ domains[p.domain] # "live" })
      /\ UNCHANGED <<domains, rows, deleted>>

(* processClientDomainsUsers: all mappings are deleted first.              *)
UploadUsers(r, lines) ==
  /\ Begin(r, [i \in DOMAIN lines |-> Job0(lines[i].user, lines[i].domain)],
           LiveDomains \cup { lines[i].domain : i \in DOMAIN lines },
           { lines[i] : i \in DOMAIN lines })
  /\ deleted' = DOMAIN rows
  /\ UNCHANGED <<domains, rows>>

(* processSpecificClientDomainsUsers: the user's mappings are deleted.     *)
UploadOwn(r, u, ds) ==
  /\ Begin(r, LinesOf(u, ds), LiveDomains \cup ds,
           { p \in LivePairs : p.user # u } \cup Pairs(u, ds))
  /\ deleted' = deleted \cup { i \in DOMAIN rows : rows[i].user = u }
  /\ UNCHANGED <<domains, rows>>

MapDomains(r, u, ds) ==
  /\ Begin(r, LinesOf(u, ds), LiveDomains \cup ds, LivePairs \cup Pairs(u, ds))
  /\ UNCHANGED <<domains, rows, deleted>>

(* Mutant: the row is deleted whether it is found or not. *)
UnmapFind_Unchecked(r, i) ==
  /\ Begin(r, [d \in {rows[i].domain} |->
                 [at |-> "unmap", domain |-> d, row |-> IF i \in Live THEN i ELSE 0]],
           LiveDomains, { rows[k] : k \in Live \ {i} })
  /\ UNCHANGED <<domains, rows, deleted>>

(* unmapDomainFromUser finds one active row of the pair.                   *)
UnmapFind(r, i) ==
  /\ i \in Live
  /\ Begin(r, [d \in {rows[i].domain} |-> [at |-> "unmap", domain |-> d, row |-> i]],
           LiveDomains, { rows[k] : k \in Live \ {i} })
  /\ UNCHANGED <<domains, rows, deleted>>

(* removeClientDomain, called by its route, refuses a deleted domain.      *)
RemoveDomain(r, d) ==
  /\ domains[d] = "live"
  /\ Begin(r, [e \in {d} |-> [at |-> "delete", domain |-> e]],
           LiveDomains \ {d}, { p \in LivePairs : p.domain # d })
  /\ UNCHANGED <<domains, rows, deleted>>
-----------------------------------------------------------------------------
(* What line i does once its domain is there.                              *)
DomainIsThere(r, i) ==
  LET job == jobs[r][i]
  IN  IF job.user = NoUser THEN Become(r, i, Done(job.domain))
      ELSE Become(r, i, [job EXCEPT !.at = "mapping"])

(* createIfNotExistClientDomain.                                           *)
DomainFind(r, i) ==
  /\ jobs[r][i].at = "domain"
  /\ CASE domains[jobs[r][i].domain] = "absent" ->
            Become(r, i, [jobs[r][i] EXCEPT !.at = "create"])
       [] domains[jobs[r][i].domain] = "deleted" ->
            Become(r, i, [jobs[r][i] EXCEPT !.at = "revive"])
       [] OTHER -> DomainIsThere(r, i)
  /\ UNCHANGED <<domains, rows, deleted>>

(* The column is unique: of two that insert a domain the second fails, and *)
(* with it its line.                                                       *)
DomainCreate(r, i) ==
  LET d == jobs[r][i].domain
  IN  /\ jobs[r][i].at = "create"
      /\ IF domains[d] = "absent"
         THEN /\ domains' = [domains EXCEPT ![d] = "live"]
              /\ DomainIsThere(r, i)
              /\ UNCHANGED <<rows, deleted>>
         ELSE LineRefused(r, i)

DomainRevive(r, i) ==
  /\ jobs[r][i].at = "revive"
  /\ domains' = [domains EXCEPT ![jobs[r][i].domain] = "live"]
  /\ DomainIsThere(r, i)
  /\ UNCHANGED <<rows, deleted>>

(* createIfNotExistClientDomainUserMaping: findOne gives any row of the    *)
(* pair, deleted or not.                                                   *)
MappingFind(r, i) ==
  LET job == jobs[r][i]
      found == { k \in DOMAIN rows : rows[k] = [user |-> job.user, domain |-> job.domain] }
  IN  /\ job.at = "mapping"
      /\ \/ found = {} /\ Become(r, i, [job EXCEPT !.at = "insert"])
         \/ \E k \in found :
              Become(r, i, IF k \in deleted
                           THEN [at |-> "undelete", domain |-> job.domain, row |-> k]
                           ELSE Done(job.domain))
      /\ UNCHANGED <<domains, rows, deleted>>

MappingInsert(r, i) ==
  LET job == jobs[r][i]
  IN  /\ job.at = "insert"
      /\ rows' = Append(rows, [user |-> job.user, domain |-> job.domain])
      /\ Become(r, i, Done(job.domain))
      /\ UNCHANGED <<domains, deleted>>

MappingUndelete(r, i) ==
  /\ jobs[r][i].at = "undelete"
  /\ deleted' = deleted \ {jobs[r][i].row}
  /\ Become(r, i, Done(jobs[r][i].domain))
  /\ UNCHANGED <<domains, rows>>

MappingUnmap(r, i) ==
  /\ jobs[r][i].at = "unmap"
  /\ deleted' = deleted \cup {jobs[r][i].row}
  /\ Become(r, i, Done(jobs[r][i].domain))
  /\ UNCHANGED <<domains, rows>>

(* removeClientDomain, called by processCSV when every domain of the file  *)
(* is answered: a domain that is deleted by then throws.                   *)
RemovalFind(r, i) ==
  LET d == jobs[r][i].domain
  IN  /\ jobs[r][i].at = "find"
      /\ \A n \in DOMAIN jobs[r] : jobs[r][n].at \in {"find", "delete", "cut", "done"}
      /\ Become(r, i, IF domains[d] = "live" THEN [at |-> "delete", domain |-> d] ELSE Done(d))
      /\ UNCHANGED <<domains, rows, deleted>>

(* Mutant: the mappings of the domain are left. *)
RemovalDelete_Only(r, i) ==
  /\ jobs[r][i].at = "delete"
  /\ domains' = [domains EXCEPT ![jobs[r][i].domain] = "deleted"]
  /\ Become(r, i, Done(jobs[r][i].domain))
  /\ UNCHANGED <<rows, deleted>>

RemovalDelete(r, i) ==
  /\ jobs[r][i].at = "delete"
  /\ domains' = [domains EXCEPT ![jobs[r][i].domain] = "deleted"]
  /\ Become(r, i, [jobs[r][i] EXCEPT !.at = "cut"])
  /\ UNCHANGED <<rows, deleted>>

RemovalCut(r, i) ==
  /\ jobs[r][i].at = "cut"
  /\ deleted' = deleted \cup { k \in DOMAIN rows : rows[k].domain = jobs[r][i].domain }
  /\ Become(r, i, Done(jobs[r][i].domain))
  /\ UNCHANGED <<domains, rows>>

(* A statement fails (or, one after the other, all of a server that goes   *)
(* down).  A removal that breaks off between its two writes makes its      *)
(* domain a suspect.                                                       *)
LineFails(r, i) ==
  /\ jobs[r][i].at # "done"
  /\ LineEnds(r, i)
  /\ expected' = [expected EXCEPT ![r] = Nothing]
  /\ suspects' = IF jobs[r][i].at = "cut" THEN suspects \cup {jobs[r][i].domain} ELSE suspects

Continue(r, i) ==
  \/ DomainFind(r, i) \/ DomainCreate(r, i) \/ DomainRevive(r, i)
  \/ MappingFind(r, i) \/ MappingInsert(r, i) \/ MappingUndelete(r, i) \/ MappingUnmap(r, i)
  \/ RemovalFind(r, i) \/ RemovalDelete(r, i) \/ RemovalCut(r, i)

NonEmpty(S) == SUBSET S \ {{}}

Next ==
  \E r \in Requests :
    \/ \E file \in NonEmpty(Domains) : \E accepted \in SUBSET file : UploadDomains(r, file, accepted)
    \/ \E L \in NonEmpty(Lines) : \E lines \in [L -> Row] : UploadUsers(r, lines)
    \/ \E u \in Users, ds \in NonEmpty(Domains) : UploadOwn(r, u, ds) \/ MapDomains(r, u, ds)
    \/ \E i \in DOMAIN rows : UnmapFind(r, i)
    \/ \E d \in Domains : RemoveDomain(r, d)
    \/ \E i \in DOMAIN jobs[r] : Continue(r, i) \/ LineFails(r, i)

Spec == Init /\ [][Next]_vars
-----------------------------------------------------------------------------
TypeOK ==
  /\ domains \in [Domains -> {"absent", "live", "deleted"}]
  /\ rows \in Seq(Row)
  /\ deleted \subseteq DOMAIN rows
  /\ DOMAIN jobs = Requests
  /\ \A r \in Requests : /\ DOMAIN jobs[r] \in (SUBSET Domains) \cup (SUBSET Lines)
                         /\ jobs[r] \in [DOMAIN jobs[r] -> Job]
  /\ expected \in [Requests -> {Nothing} \cup Outcome]
  /\ suspects \subseteq Domains

(* A domain that is removed is mapped to nobody, though the domain and its *)
(* mappings are deleted one after the other: only a request that maps it   *)
(* meanwhile, or a removal that breaks off between its writes, can leave a *)
(* mapping behind.  contact.service.ts grants access by such a mapping and *)
(* does not look at the domain.                                            *)
OrphanFree ==
  \A i \in Live : LET d == rows[i].domain
                  IN  \/ domains[d] = "live"
                      \/ d \in suspects
                      \/ \E j \in InService : j = [at |-> "cut", domain |-> d]

(* The lines of a request race with each other; yet a request that has the *)
(* tables to itself, and no statement of which fails but on the unique     *)
(* column, leaves exactly what it would leave in a single step, whatever   *)
(* earlier ones had left there, except the mappings of lines that column   *)
(* refused.  It refuses one only because another line brought the same new *)
(* domain, which is then left with a mapping.                              *)
AloneIsAtomic ==
  \A r \in Requests :
    ~Busy(r) /\ expected[r] # Nothing =>
      /\ LiveDomains = expected[r].domains
      /\ LivePairs \cup expected[r].refused = expected[r].pairs
      /\ \A p \in expected[r].refused : \E q \in LivePairs : q.domain = p.domain
=============================================================================
