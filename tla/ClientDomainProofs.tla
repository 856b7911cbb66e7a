-------------------------- MODULE ClientDomainProofs --------------------------
(***************************************************************************)
(* The type invariant, OrphanFree and AloneIsAtomic of ClientDomain, for   *)
(* any number of users, domains, requests and lines.                       *)
(*                                                                         *)
(* OrphanFree is not inductive: a line that is about to write a mapping    *)
(* has found its domain live (Grounded), and that it still is, unless      *)
(* the domain is a suspect, follows from what Begin records of a removal   *)
(* in service (Watched).  All of it speaks of the jobs in service and not  *)
(* of where they are; JobsAfter says once what a step of a line does to    *)
(* them.                                                                   *)
(*                                                                         *)
(* AloneIsAtomic is about all orders of a request's lines.  Its invariant  *)
(* says what the lines that are not done will leave (DomainsLeft and       *)
(* PairsLeft, which do not depend on the order), and that this is what the *)
(* request was expected to leave (OnCourse); each step moves an effect     *)
(* from a line into the tables.  A line that the unique column refuses     *)
(* moves it to what was refused instead, and Served says that another line *)
(* has seen to its domain.                                                 *)
(***************************************************************************)
EXTENDS ClientDomain, SequenceTheorems, TLAPS

Writes(j) == j.at \in {"mapping", "insert", "undelete"}

Rows(j) == j.at \in {"undelete", "unmap"}

Grounded ==
  \A j \in InService :
    /\ Writes(j) => Adds(j) /\ (domains[j.domain] = "live" \/ j.domain \in suspects)
    /\ Rows(j) => j.row \in DOMAIN rows
    /\ j.at = "undelete" => rows[j.row].domain = j.domain

Watched == \A j, k \in InService : Adds(j) /\ Cuts(k) /\ j.domain = k.domain => j.domain \in suspects

Inv == TypeOK /\ OrphanFree /\ Grounded /\ Watched

JobsOK(js) == /\ DOMAIN js \in (SUBSET Domains) \cup (SUBSET Lines)
              /\ js \in [DOMAIN js -> Job]

LEMMA JobInService ==
  \A j : j \in InService <=> \E r \in Requests : \E i \in DOMAIN jobs[r] : j = jobs[r][i]
BY DEF InService

LEMMA JobInServiceNext ==
  \A j : j \in InService' <=> \E r \in Requests : \E i \in DOMAIN jobs'[r] : j = jobs'[r][i]
BY DEF InService

(* Line i of r goes on as job: nothing else appears among the jobs in      *)
(* service, and nothing else but jobs that are done disappears.            *)
LEMMA JobsAfter ==
  ASSUME TypeOK, NEW r \in Requests, NEW i \in DOMAIN jobs[r], NEW job \in Job,
         jobs' = [jobs EXCEPT ![r] = Settled([@ EXCEPT ![i] = job])]
  PROVE  /\ DOMAIN jobs' = Requests
         /\ \A q \in Requests : JobsOK(jobs'[q])
         /\ \A j \in InService' : j = job \/ j \in InService
         /\ \A j \in InService : j \in InService' \/ j = jobs[r][i] \/ j.at = "done"
         /\ job.at = "done" \/ job \in InService'
<1> DEFINE js == [jobs[r] EXCEPT ![i] = job]
<1>1. /\ DOMAIN jobs = Requests /\ \A q \in Requests : JobsOK(jobs[q])
  BY DEF TypeOK, JobsOK
<1>2. JobsOK(js) /\ DOMAIN js = DOMAIN jobs[r]
      /\ \A n \in DOMAIN jobs[r] : js[n] = IF n = i THEN job ELSE jobs[r][n]
  BY <1>1 DEF JobsOK
<1>3. DOMAIN jobs' = Requests
      /\ \A q \in Requests : jobs'[q] = IF q = r THEN Settled(js) ELSE jobs[q]
  BY <1>1
<1> HIDE DEF js
<1>4. CASE \A n \in DOMAIN js : js[n].at = "done"
  <2>1. jobs'[r] = <<>> /\ DOMAIN <<>> = {}
    BY <1>3, <1>4 DEF Settled
  <2>2. JobsOK(<<>>)
    BY DEF JobsOK
  <2>3. \A q \in Requests : JobsOK(jobs'[q])
    BY <1>1, <1>3, <2>1, <2>2
  <2>4. job.at = "done" /\ \A n \in DOMAIN jobs[r] : n # i => jobs[r][n].at = "done"
    BY <1>2, <1>4
  <2>5. \A j \in InService' : j \in InService
    <3> SUFFICES ASSUME NEW j \in InService' PROVE j \in InService
      OBVIOUS
    <3>1. PICK q \in Requests : \E n \in DOMAIN jobs'[q] : j = jobs'[q][n]
      BY JobInServiceNext
    <3>2. q # r /\ jobs'[q] = jobs[q]
      BY <1>3, <2>1, <3>1
    <3> QED
      BY <3>1, <3>2, JobInService
  <2>6. \A j \in InService : j \in InService' \/ j = jobs[r][i] \/ j.at = "done"
    BY <1>3, <2>4, JobInService, JobInServiceNext
  <2> QED
    BY <1>3, <2>3, <2>4, <2>5, <2>6
<1>5. CASE ~\A n \in DOMAIN js : js[n].at = "done"
  <2>1. jobs'[r] = js
    BY <1>3, <1>5 DEF Settled
  <2>2. \A q \in Requests : JobsOK(jobs'[q])
    BY <1>1, <1>2, <1>3, <2>1
  <2>3. \A j \in InService' : j = job \/ j \in InService
    <3> SUFFICES ASSUME NEW j \in InService', j # job PROVE j \in InService
      OBVIOUS
    <3>1. PICK q \in Requests : \E n \in DOMAIN jobs'[q] : j = jobs'[q][n]
      BY JobInServiceNext
    <3>2. PICK n \in DOMAIN jobs'[q] : j = jobs'[q][n]
      BY <3>1
    <3>3. n \in DOMAIN jobs[q] /\ j = jobs[q][n]
      BY <1>2, <1>3, <2>1, <3>2
    <3> QED
      BY <3>3, JobInService
  <2>4. \A j \in InService : j \in InService' \/ j = jobs[r][i]
    <3> SUFFICES ASSUME NEW j \in InService, j # jobs[r][i] PROVE j \in InService'
      OBVIOUS
    <3>1. PICK q \in Requests : \E n \in DOMAIN jobs[q] : j = jobs[q][n]
      BY JobInService
    <3>2. PICK n \in DOMAIN jobs[q] : j = jobs[q][n]
      BY <3>1
    <3>3. n \in DOMAIN jobs'[q] /\ j = jobs'[q][n]
      BY <1>2, <1>3, <2>1, <3>2
    <3> QED
      BY <3>3, JobInServiceNext
  <2>5. job \in InService'
    BY <1>2, <1>3, <2>1, JobInServiceNext
  <2> QED
    BY <1>3, <2>2, <2>3, <2>4, <2>5
<1> QED
  BY <1>4, <1>5

(* Line i goes on as job, which is about the same domain and adds or cuts  *)
(* only if the line did, and what the step writes is well founded.         *)
WellFounded(r, i, job) ==
  /\ jobs' = [jobs EXCEPT ![r] = Settled([@ EXCEPT ![i] = job])]
  /\ job.domain = jobs[r][i].domain
  /\ Adds(job) => Adds(jobs[r][i])
  /\ Cuts(job) => Cuts(jobs[r][i])
  /\ domains' \in [Domains -> {"absent", "live", "deleted"}]
  /\ \A d \in Domains : domains[d] = "live" =>
       domains'[d] = "live" \/ (Cuts(jobs[r][i]) /\ jobs[r][i].domain = d)
  /\ rows' \in Seq(Row)
  /\ DOMAIN rows \subseteq DOMAIN rows'
  /\ \A k \in DOMAIN rows : rows'[k] = rows[k]
  /\ deleted' \subseteq DOMAIN rows'
  /\ suspects \subseteq suspects'
  /\ suspects' \subseteq Domains
  /\ expected' \in [Requests -> {Nothing} \cup Outcome]
  /\ Writes(job) => Adds(job) /\ (domains'[job.domain] = "live" \/ job.domain \in suspects')
  /\ Rows(job) => job.row \in DOMAIN rows'
  /\ job.at = "undelete" => rows'[job.row].domain = job.domain
  /\ \A k \in DOMAIN rows' \ deleted' :
       \/ domains'[rows'[k].domain] = "live"
       \/ rows'[k].domain \in suspects'
       \/ job = [at |-> "cut", domain |-> rows'[k].domain]
       \/ /\ k \in Live /\ domains[rows[k].domain] # "live"
          /\ jobs[r][i] # [at |-> "cut", domain |-> rows[k].domain]

LEMMA LineKeeps ==
  ASSUME Inv, NEW r \in Requests, NEW i \in DOMAIN jobs[r], NEW job \in Job, WellFounded(r, i, job)
  PROVE  Inv'
<1> DEFINE old == jobs[r][i]
<1>j. /\ DOMAIN jobs' = Requests
      /\ \A q \in Requests : JobsOK(jobs'[q])
      /\ \A j \in InService' : j = job \/ j \in InService
      /\ \A j \in InService : j \in InService' \/ j = old \/ j.at = "done"
      /\ job.at = "done" \/ job \in InService'
  BY JobsAfter DEF Inv, WellFounded
<1>o. old \in InService
  BY JobInService
<1>d. \A j \in InService : j.domain \in Domains
  <2> SUFFICES ASSUME NEW j \in InService PROVE j.domain \in Domains
    OBVIOUS
  <2>1. PICK q \in Requests : \E n \in DOMAIN jobs[q] : j = jobs[q][n]
    BY JobInService
  <2>2. j \in Job
    BY <2>1 DEF Inv, TypeOK
  <2> QED
    BY <2>2 DEF Job
<1> HIDE DEF old
<1>1. TypeOK'
  BY <1>j DEF TypeOK, JobsOK, WellFounded
<1>2. Watched'
  <2> SUFFICES ASSUME NEW j \in InService', NEW k \in InService',
                      Adds(j), Cuts(k), j.domain = k.domain
               PROVE  j.domain \in suspects'
    BY DEF Watched, Adds, Maps, Cuts
  <2>1. CASE j = job /\ k = job
    BY <2>1 DEF Adds, Maps, Cuts
  <2>2. PICK j0 \in InService : Adds(j0) /\ j0.domain = j.domain
    BY <1>j, <1>o DEF old, WellFounded
  <2>3. PICK k0 \in InService : Cuts(k0) /\ k0.domain = k.domain
    BY <1>j, <1>o DEF old, WellFounded
  <2>4. j.domain \in suspects
    BY <2>2, <2>3 DEF Inv, Watched
  <2> QED
    BY <2>4 DEF WellFounded
<1>3. Grounded'
  <2> SUFFICES ASSUME NEW j \in InService'
               PROVE  /\ Writes(j) => Adds(j) /\ (domains'[j.domain] = "live" \/ j.domain \in suspects')
                      /\ Rows(j) => j.row \in DOMAIN rows'
                      /\ j.at = "undelete" => rows'[j.row].domain = j.domain
    BY DEF Grounded, Writes, Adds, Maps, Rows
  <2>1. CASE j = job
    BY <2>1 DEF WellFounded
  <2>2. CASE j \in InService
    <3>1. /\ Writes(j) => Adds(j) /\ (domains[j.domain] = "live" \/ j.domain \in suspects)
          /\ Rows(j) => j.row \in DOMAIN rows
          /\ j.at = "undelete" => rows[j.row].domain = j.domain
      BY <2>2 DEF Inv, Grounded
    <3>2. Adds(j) /\ Cuts(old) /\ old.domain = j.domain => j.domain \in suspects
      BY <1>o, <2>2 DEF Inv, Watched
    <3>3. j.domain \in Domains
      BY <1>d, <2>2
    <3>4. j.at = "undelete" => rows'[j.row] = rows[j.row]
      BY <3>1 DEF Rows, WellFounded
    <3> QED
      BY <3>1, <3>2, <3>3, <3>4 DEF old, WellFounded
  <2> QED
    BY <1>j, <2>1, <2>2
<1>4. OrphanFree'
  <2> SUFFICES ASSUME NEW k \in Live',
                      domains'[rows'[k].domain] # "live", rows'[k].domain \notin suspects'
               PROVE  \E j \in InService' : j = [at |-> "cut", domain |-> rows'[k].domain]
    BY DEF OrphanFree
  <2>1. k \in DOMAIN rows' \ deleted'
    BY DEF Live
  <2>2. CASE job = [at |-> "cut", domain |-> rows'[k].domain]
    BY <1>j, <2>2
  <2>3. CASE /\ k \in Live /\ domains[rows[k].domain] # "live"
             /\ old # [at |-> "cut", domain |-> rows[k].domain]
    <3>1. rows'[k] = rows[k]
      BY <2>3 DEF Live, WellFounded
    <3>2. PICK j \in InService : j = [at |-> "cut", domain |-> rows[k].domain]
      BY <2>3, <3>1 DEF Inv, OrphanFree, WellFounded
    <3>3. j # old /\ j.at # "done"
      BY <2>3, <3>2
    <3> QED
      BY <1>j, <3>1, <3>2, <3>3
  <2> QED
    BY <2>1, <2>2, <2>3 DEF old, WellFounded
<1> QED
  BY <1>1, <1>2, <1>3, <1>4 DEF Inv

(* A request begins with jobs js, none of which has read anything yet but  *)
(* the row it will delete, and deletes mappings at most.                   *)
LEMMA BeginKeeps ==
  ASSUME Inv, NEW r \in Requests, NEW js, JobsOK(js),
         NEW ds \in SUBSET Domains, NEW ps \in SUBSET Row, Begin(r, js, ds, ps),
         \A n \in DOMAIN js : ~Writes(js[n]) /\ (Rows(js[n]) => js[n].row \in DOMAIN rows),
         \A n, m \in DOMAIN js : ~(Adds(js[n]) /\ Cuts(js[m])),
         UNCHANGED <<domains, rows>>, deleted \subseteq deleted', deleted' \subseteq DOMAIN rows
  PROVE  Inv'
<1>1. /\ DOMAIN jobs = Requests /\ \A q \in Requests : JobsOK(jobs[q])
      /\ jobs[r] = <<>>
  BY DEF Inv, TypeOK, JobsOK, Begin, Busy
<1>2. /\ DOMAIN jobs' = Requests
      /\ \A q \in Requests : jobs'[q] = IF q = r THEN js ELSE jobs[q]
  BY <1>1 DEF Begin
<1>3. DOMAIN jobs[r] = {}
  BY <1>1
<1>4. \A j \in InService : j \in InService'
  <2> SUFFICES ASSUME NEW j \in InService PROVE j \in InService'
    OBVIOUS
  <2>1. PICK q \in Requests : \E n \in DOMAIN jobs[q] : j = jobs[q][n]
    BY JobInService
  <2>2. jobs'[q] = jobs[q]
    BY <1>2, <1>3, <2>1
  <2> QED
    BY <2>1, <2>2, JobInServiceNext
<1>5. ASSUME NEW j \in InService', j \notin InService
      PROVE  \E n \in DOMAIN js : j = js[n]
  <2>1. PICK q \in Requests : \E n \in DOMAIN jobs'[q] : j = jobs'[q][n]
    BY JobInServiceNext
  <2>2. q = r
    BY <1>2, <1>5, <2>1, JobInService
  <2> QED
    BY <1>2, <2>1, <2>2
<1>6. \A n \in DOMAIN js : js[n].domain \in Domains
  BY DEF JobsOK, Job
<1>7. TypeOK'
  <2>1. expected' \in [Requests -> {Nothing} \cup Outcome]
    BY DEF Begin, Outcome
  <2>2. suspects' \subseteq Domains
    BY DEF Begin, Inv, TypeOK
  <2>3. \A q \in Requests : JobsOK(jobs'[q])
    BY <1>1, <1>2
  <2> QED
    BY <1>2, <2>1, <2>2, <2>3 DEF Inv, TypeOK, JobsOK
<1>8. suspects \subseteq suspects'
  BY DEF Begin
<1>9. Grounded'
  <2> SUFFICES ASSUME NEW j \in InService'
               PROVE  /\ Writes(j) => Adds(j) /\ (domains[j.domain] = "live" \/ j.domain \in suspects')
                      /\ Rows(j) => j.row \in DOMAIN rows
                      /\ j.at = "undelete" => rows[j.row].domain = j.domain
    BY DEF Grounded, Writes, Adds, Maps, Rows
  <2>1. CASE j \in InService
    BY <1>8, <2>1 DEF Inv, Grounded
  <2>2. CASE j \notin InService
    BY <1>5, <2>2 DEF Writes
  <2> QED
    BY <2>1, <2>2
<1>10. ASSUME NEW j \in InService, NEW n \in DOMAIN js, js[n].domain = j.domain,
              (Adds(j) /\ Cuts(js[n])) \/ (Adds(js[n]) /\ Cuts(j))
       PROVE  j.domain \in suspects'
  <2>1. Conflict(js[n], j)
    BY <1>10 DEF Conflict
  <2> QED
    BY <1>6, <1>10, <2>1 DEF Begin
<1>11. Watched'
  <2> SUFFICES ASSUME NEW j \in InService', NEW k \in InService',
                      Adds(j), Cuts(k), j.domain = k.domain
               PROVE  j.domain \in suspects'
    BY DEF Watched, Adds, Maps, Cuts
  <2>1. CASE j \in InService /\ k \in InService
    BY <1>8, <2>1 DEF Inv, Watched
  <2>2. CASE j \in InService /\ k \notin InService
    BY <1>5, <1>10, <2>2
  <2>3. CASE j \notin InService /\ k \in InService
    BY <1>5, <1>10, <2>3
  <2>4. CASE j \notin InService /\ k \notin InService
    BY <1>5, <2>4
  <2> QED
    BY <2>1, <2>2, <2>3, <2>4
<1>12. OrphanFree'
  <2>1. \A k \in Live' : k \in Live
    BY DEF Live
  <2> QED
    BY <1>4, <1>8, <2>1 DEF Inv, OrphanFree
<1> QED
  BY <1>7, <1>9, <1>11, <1>12 DEF Inv

LEMMA InvInit == Init => Inv
<1> SUFFICES ASSUME Init PROVE Inv
  OBVIOUS
<1>1. rows = <<>> /\ deleted = {} /\ suspects = {} /\ DOMAIN rows = {}
  BY DEF Init
<1>2. \A r \in Requests : jobs[r] = <<>>
  BY DEF Init
<1>3. InService = {}
  BY <1>2, JobInService
<1>4. TypeOK
  <2>1. <<>> \in Seq(Row)
    OBVIOUS
  <2>2. /\ DOMAIN jobs = Requests
        /\ \A r \in Requests : /\ DOMAIN jobs[r] \in (SUBSET Domains) \cup (SUBSET Lines)
                               /\ jobs[r] \in [DOMAIN jobs[r] -> Job]
    BY <1>2 DEF Init
  <2> QED
    BY <1>1, <2>1, <2>2 DEF Init, TypeOK
<1> QED
  BY <1>1, <1>3, <1>4 DEF Inv, OrphanFree, Grounded, Watched, Live

LEMMA RowsTyped ==
  ASSUME TypeOK
  PROVE  /\ \A k \in DOMAIN rows : rows[k] \in Row /\ rows[k].user \in Users /\ rows[k].domain \in Domains
         /\ DOMAIN rows \subseteq Nat
         /\ LivePairs \subseteq Row
         /\ LiveDomains \subseteq Domains
<1>1. rows \in Seq(Row)
  BY DEF TypeOK
<1>2. DOMAIN rows = 1 .. Len(rows) /\ \A k \in DOMAIN rows : rows[k] \in Row
  BY <1>1
<1> QED
  BY <1>1, <1>2 DEF LivePairs, Live, LiveDomains, Row

LEMMA Job0Typed ==
  ASSUME NEW u \in Users \cup {NoUser}, NEW d \in Domains
  PROVE  /\ Job0(u, d) \in Job /\ ~Writes(Job0(u, d)) /\ ~Rows(Job0(u, d)) /\ ~Cuts(Job0(u, d))
         /\ u = NoUser => ~Adds(Job0(u, d))
BY DEF Job0, Job, Writes, Rows, Cuts, Adds, Maps

LEMMA BeginsKeep ==
  ASSUME Inv, NEW r \in Requests,
         \/ \E file \in NonEmpty(Domains) : \E accepted \in SUBSET file : UploadDomains(r, file, accepted)
         \/ \E L \in NonEmpty(Lines) : \E lines \in [L -> Row] : UploadUsers(r, lines)
         \/ \E u \in Users, ds \in NonEmpty(Domains) : UploadOwn(r, u, ds) \/ MapDomains(r, u, ds)
         \/ \E i \in DOMAIN rows : UnmapFind(r, i)
         \/ \E d \in Domains : RemoveDomain(r, d)
  PROVE  Inv'
<1>t. TypeOK /\ deleted \subseteq DOMAIN rows
  BY DEF Inv, TypeOK
<1>r. /\ \A k \in DOMAIN rows : rows[k] \in Row /\ rows[k].user \in Users /\ rows[k].domain \in Domains
      /\ DOMAIN rows \subseteq Nat /\ LivePairs \subseteq Row /\ LiveDomains \subseteq Domains
  BY <1>t, RowsTyped
<1>1. ASSUME NEW file \in SUBSET Domains, NEW accepted \in SUBSET file, UploadDomains(r, file, accepted)
      PROVE  Inv'
  <2> DEFINE missing == { d \in Domains : domains[d] # "absent" } \ file
             js == [d \in accepted \cup missing |->
                      IF d \in accepted THEN Job0(NoUser, d) ELSE [at |-> "find", domain |-> d]]
             ds == accepted \cup (LiveDomains \cap file)
             ps == { p \in LivePairs : p.domain \in file \/ domains[p.domain] # "live" }
  <2>1. \A d \in Domains : LET j == [at |-> "find", domain |-> d]
                           IN  j \in Job /\ ~Writes(j) /\ ~Rows(j) /\ ~Adds(j)
    BY DEF Job, Writes, Rows, Adds, Maps
  <2>2. \A n \in DOMAIN js : js[n] \in Job /\ ~Writes(js[n]) /\ ~Rows(js[n]) /\ ~Adds(js[n])
    BY <2>1, Job0Typed
  <2>3. JobsOK(js)
    BY <2>2 DEF JobsOK
  <2>4. ds \in SUBSET Domains /\ ps \in SUBSET Row
    BY <1>r
  <2>5. Begin(r, js, ds, ps) /\ UNCHANGED <<domains, rows, deleted>>
    BY <1>1 DEF UploadDomains
  <2> HIDE DEF js, ds, ps
  <2> QED
    BY <1>t, <2>2, <2>3, <2>4, <2>5, BeginKeeps
<1>2. ASSUME NEW P \in SUBSET Lines, NEW lines \in [P -> Row], UploadUsers(r, lines)
      PROVE  Inv'
  <2> DEFINE js == [i \in DOMAIN lines |-> Job0(lines[i].user, lines[i].domain)]
             ds == LiveDomains \cup { lines[i].domain : i \in DOMAIN lines }
             ps == { lines[i] : i \in DOMAIN lines }
  <2>1. \A i \in DOMAIN lines : lines[i].user \in Users /\ lines[i].domain \in Domains
    BY DEF Row
  <2>2. \A n \in DOMAIN js : js[n] \in Job /\ ~Writes(js[n]) /\ ~Rows(js[n]) /\ ~Cuts(js[n])
    BY <2>1, Job0Typed
  <2>3. JobsOK(js)
    BY <2>2 DEF JobsOK
  <2>4. ds \in SUBSET Domains /\ ps \in SUBSET Row
    BY <1>r, <2>1
  <2>5. Begin(r, js, ds, ps) /\ deleted' = DOMAIN rows /\ UNCHANGED <<domains, rows>>
    BY <1>2 DEF UploadUsers
  <2> HIDE DEF js, ds, ps
  <2> QED
    BY <1>t, <2>2, <2>3, <2>4, <2>5, BeginKeeps
<1>3. ASSUME NEW u \in Users, NEW D \in SUBSET Domains
      PROVE  LET js == LinesOf(u, D)
             IN  /\ JobsOK(js) /\ LiveDomains \cup D \in SUBSET Domains
                 /\ \A n \in DOMAIN js : ~Writes(js[n]) /\ ~Rows(js[n]) /\ ~Cuts(js[n])
                 /\ { p \in LivePairs : p.user # u } \cup Pairs(u, D) \in SUBSET Row
                 /\ LivePairs \cup Pairs(u, D) \in SUBSET Row
  <2>1. Pairs(u, D) \subseteq Row
    BY DEF Pairs, Row
  <2>2. JobsOK(LinesOf(u, D))
    <3>1. \A n \in D : Job0(u, n) \in Job
      BY Job0Typed
    <3>2. LinesOf(u, D) \in [D -> Job]
      BY <3>1 DEF LinesOf
    <3> QED
      BY <3>2 DEF JobsOK
  <2>3. \A n \in DOMAIN LinesOf(u, D) :
          ~Writes(LinesOf(u, D)[n]) /\ ~Rows(LinesOf(u, D)[n]) /\ ~Cuts(LinesOf(u, D)[n])
    BY Job0Typed DEF LinesOf
  <2> QED
    BY <1>r, <2>1, <2>2, <2>3
<1>4. ASSUME NEW u \in Users, NEW D \in SUBSET Domains, UploadOwn(r, u, D) PROVE Inv'
  <2> DEFINE js == LinesOf(u, D)
             ps == { p \in LivePairs : p.user # u } \cup Pairs(u, D)
  <2>1. Begin(r, js, LiveDomains \cup D, ps)
        /\ deleted' = deleted \cup { i \in DOMAIN rows : rows[i].user = u } /\ UNCHANGED <<domains, rows>>
    BY <1>4 DEF UploadOwn
  <2>2. /\ JobsOK(js) /\ LiveDomains \cup D \in SUBSET Domains /\ ps \in SUBSET Row
        /\ \A n \in DOMAIN js : ~Writes(js[n]) /\ ~Rows(js[n]) /\ ~Cuts(js[n])
    BY <1>3
  <2> HIDE DEF js, ps
  <2> QED
    BY <1>t, <2>1, <2>2, BeginKeeps
<1>5. ASSUME NEW u \in Users, NEW D \in SUBSET Domains, MapDomains(r, u, D) PROVE Inv'
  <2> DEFINE js == LinesOf(u, D)
             ps == LivePairs \cup Pairs(u, D)
  <2>1. Begin(r, js, LiveDomains \cup D, ps) /\ UNCHANGED <<domains, rows, deleted>>
    BY <1>5 DEF MapDomains
  <2>2. /\ JobsOK(js) /\ LiveDomains \cup D \in SUBSET Domains /\ ps \in SUBSET Row
        /\ \A n \in DOMAIN js : ~Writes(js[n]) /\ ~Rows(js[n]) /\ ~Cuts(js[n])
    BY <1>3
  <2> HIDE DEF js, ps
  <2> QED
    BY <1>t, <2>1, <2>2, BeginKeeps
<1>6. ASSUME NEW i \in DOMAIN rows, UnmapFind(r, i) PROVE Inv'
  <2> DEFINE js == [d \in {rows[i].domain} |-> [at |-> "unmap", domain |-> d, row |-> i]]
             ps == { rows[k] : k \in Live \ {i} }
  <2>1. \A n \in DOMAIN js : js[n] \in Job /\ ~Writes(js[n]) /\ ~Adds(js[n]) /\ js[n].row \in DOMAIN rows
    BY <1>r DEF Job, Writes, Adds, Maps
  <2>2. JobsOK(js)
    BY <1>r, <2>1 DEF JobsOK
  <2>3. ps \in SUBSET Row
    BY <1>r DEF Live
  <2>4. Begin(r, js, LiveDomains, ps) /\ UNCHANGED <<domains, rows, deleted>>
    BY <1>6 DEF UnmapFind
  <2> HIDE DEF js, ps
  <2> QED
    BY <1>t, <1>r, <2>1, <2>2, <2>3, <2>4, BeginKeeps
<1>7. ASSUME NEW d \in Domains, RemoveDomain(r, d) PROVE Inv'
  <2> DEFINE js == [e \in {d} |-> [at |-> "delete", domain |-> e]]
             ps == { p \in LivePairs : p.domain # d }
  <2>1. \A n \in DOMAIN js : js[n] \in Job /\ ~Writes(js[n]) /\ ~Adds(js[n]) /\ ~Rows(js[n])
    BY DEF Job, Writes, Adds, Maps, Rows
  <2>2. JobsOK(js)
    BY <2>1 DEF JobsOK
  <2>3. ps \in SUBSET Row /\ LiveDomains \ {d} \in SUBSET Domains
    BY <1>r
  <2>4. Begin(r, js, LiveDomains \ {d}, ps) /\ UNCHANGED <<domains, rows, deleted>>
    BY <1>7 DEF RemoveDomain
  <2> HIDE DEF js, ps
  <2> QED
    BY <1>t, <2>1, <2>2, <2>3, <2>4, BeginKeeps
<1> QED
  BY <1>1, <1>2, <1>4, <1>5, <1>6, <1>7 DEF NonEmpty

(* The same for a line that is not about to cut and leaves the mappings    *)
(* alone.                                                                  *)
Quiet(r, i, job) ==
  /\ jobs' = [jobs EXCEPT ![r] = Settled([@ EXCEPT ![i] = job])]
  /\ jobs[r][i].at # "cut"
  /\ job.domain = jobs[r][i].domain
  /\ Adds(job) => Adds(jobs[r][i])
  /\ Cuts(job) => Cuts(jobs[r][i])
  /\ domains' \in [Domains -> {"absent", "live", "deleted"}]
  /\ \A d \in Domains : domains[d] = "live" =>
       \/ domains'[d] = "live"
       \/ Cuts(jobs[r][i]) /\ jobs[r][i].domain = d /\ job = [at |-> "cut", domain |-> d]
  /\ UNCHANGED <<rows, deleted, suspects>>
  /\ expected' \in [Requests -> {Nothing} \cup Outcome]
  /\ Writes(job) => Adds(job) /\ (domains'[job.domain] = "live" \/ job.domain \in suspects)
  /\ Rows(job) => job.row \in DOMAIN rows
  /\ job.at = "undelete" => rows[job.row].domain = job.domain

LEMMA QuietKeeps ==
  ASSUME Inv, NEW r \in Requests, NEW i \in DOMAIN jobs[r], NEW job \in Job, Quiet(r, i, job)
  PROVE  Inv'
<1>1. /\ rows \in Seq(Row) /\ deleted \subseteq DOMAIN rows /\ suspects \subseteq Domains
      /\ \A k \in DOMAIN rows : rows[k].domain \in Domains
  BY RowsTyped DEF Inv, TypeOK
<1>2. \A k \in DOMAIN rows' \ deleted' :
        \/ domains'[rows'[k].domain] = "live"
        \/ rows'[k].domain \in suspects'
        \/ job = [at |-> "cut", domain |-> rows'[k].domain]
        \/ /\ k \in Live /\ domains[rows[k].domain] # "live"
           /\ jobs[r][i] # [at |-> "cut", domain |-> rows[k].domain]
  <2> SUFFICES ASSUME NEW k \in DOMAIN rows \ deleted, domains'[rows[k].domain] # "live",
                      job # [at |-> "cut", domain |-> rows[k].domain]
               PROVE  /\ k \in Live /\ domains[rows[k].domain] # "live"
                      /\ jobs[r][i] # [at |-> "cut", domain |-> rows[k].domain]
    BY DEF Quiet
  <2>1. domains[rows[k].domain] # "live"
    BY <1>1 DEF Quiet
  <2>2. [at |-> "cut", domain |-> rows[k].domain].at = "cut"
    OBVIOUS
  <2> QED
    BY <2>1, <2>2 DEF Live, Quiet
<1>3. WellFounded(r, i, job)
  BY <1>1, <1>2 DEF WellFounded, Quiet
<1> QED
  BY <1>3, LineKeeps

(* Line j is about to make a row of pair p live.                           *)
Gives(rs, j, p) ==
  \/ Maps(j) /\ p = [user |-> j.user, domain |-> j.domain]
  \/ j.at = "undelete" /\ p = rs[j.row]

(* What LineKeeps asks of the line itself.                                 *)
LEMMA LineTyped ==
  ASSUME Inv, NEW r \in Requests, NEW i \in DOMAIN jobs[r]
  PROVE  LET old == jobs[r][i]
         IN  /\ old \in Job /\ old.domain \in Domains
             /\ Writes(old) => Adds(old) /\ (domains[old.domain] = "live" \/ old.domain \in suspects)
             /\ Rows(old) => old.row \in DOMAIN rows
             /\ old.at = "undelete" => rows[old.row].domain = old.domain
             /\ Done(old.domain) \in Job /\ Done(old.domain).domain = old.domain
             /\ Done(old.domain).at = "done"
<1>1. jobs[r][i] \in Job
  BY DEF Inv, TypeOK
<1>2. jobs[r][i] \in InService
  BY JobInService
<1>3. jobs[r][i].domain \in Domains
  BY <1>1 DEF Job
<1>4. Done(jobs[r][i].domain) \in Job
  BY <1>3 DEF Done, Job
<1> QED
  BY <1>1, <1>2, <1>3, <1>4 DEF Inv, Grounded, Done

LEMMA DoneIsIdle ==
  \A d : LET j == Done(d) IN ~Adds(j) /\ ~Cuts(j) /\ ~Writes(j) /\ ~Rows(j) /\ j.at = "done"
BY DEF Done, Adds, Maps, Cuts, Writes, Rows

(* What a refused line loses is a pair.                                    *)
LEMMA RefusalTyped ==
  ASSUME Inv, NEW r \in Requests, NEW i \in DOMAIN jobs[r], LineRefused(r, i),
         jobs[r][i].at = "create"
  PROVE  /\ expected' \in [Requests -> {Nothing} \cup Outcome]
         /\ \A q \in Requests : expected[q] = Nothing => expected'[q] = Nothing
         /\ \A q \in Requests \ {r} : expected'[q] = expected[q]
         /\ expected[r] # Nothing =>
              /\ expected'[r].domains = expected[r].domains
              /\ expected'[r].pairs = expected[r].pairs
              /\ expected'[r].refused =
                   expected[r].refused \cup { p \in Row : Gives(rows, jobs[r][i], p) }
<1> DEFINE job == jobs[r][i]
           lost == { p \in Pairs(job.user, {job.domain}) : Maps(job) }
<1>1. job \in Job /\ job.domain \in Domains /\ expected \in [Requests -> {Nothing} \cup Outcome]
  BY LineTyped DEF Inv, TypeOK
<1>2. expected' = IF expected[r] = Nothing THEN expected
                  ELSE [expected EXCEPT ![r].refused = expected[r].refused \cup lost]
  BY DEF LineRefused
<1>3. lost = { p \in Row : Gives(rows, job, p) }
  <2>1. job.at = "create"
    OBVIOUS
  <2>2. \A p : p \in Pairs(job.user, {job.domain}) <=> p = [user |-> job.user, domain |-> job.domain]
    <3>1. ASSUME NEW p \in Pairs(job.user, {job.domain})
          PROVE  p = [user |-> job.user, domain |-> job.domain]
      BY <3>1 DEF Pairs
    <3> QED
      BY <3>1 DEF Pairs
  <2>3. Maps(job) => [user |-> job.user, domain |-> job.domain] \in Row
    BY <1>1, <2>1 DEF Maps, Job, Row
  <2> QED
    BY <2>1, <2>2, <2>3 DEF Gives
<1> HIDE DEF lost, job
<1>4. lost \subseteq Row
  BY <1>3
<1>5. CASE expected[r] = Nothing
  BY <1>1, <1>2, <1>5
<1>6. CASE expected[r] # Nothing
  <2>1. expected[r] \in Outcome
    BY <1>1, <1>6
  <2>2. expected' = [expected EXCEPT ![r].refused = expected[r].refused \cup lost]
    BY <1>2, <1>6
  <2>3. [expected[r] EXCEPT !.refused = expected[r].refused \cup lost] \in Outcome
    BY <1>4, <2>1 DEF Outcome
  <2>4. /\ expected'[r] = [expected[r] EXCEPT !.refused = expected[r].refused \cup lost]
        /\ \A q \in Requests \ {r} : expected'[q] = expected[q]
        /\ DOMAIN expected' = Requests
    BY <1>1, <2>2
  <2>5. /\ expected'[r].domains = expected[r].domains
        /\ expected'[r].pairs = expected[r].pairs
        /\ expected'[r].refused = expected[r].refused \cup lost
    BY <2>1, <2>4 DEF Outcome
  <2>6. expected' \in [Requests -> {Nothing} \cup Outcome]
    BY <1>1, <2>2, <2>3, <2>4
  <2> QED
    BY <1>3, <1>6, <2>4, <2>5, <2>6 DEF job
<1> QED
  BY <1>5, <1>6

LEMMA DomainStepsKeep ==
  ASSUME Inv, NEW r \in Requests, NEW i \in DOMAIN jobs[r],
         DomainFind(r, i) \/ DomainCreate(r, i) \/ DomainRevive(r, i)
  PROVE  Inv'
<1> DEFINE old == jobs[r][i]
           d == old.domain
<1>o. /\ old \in Job /\ d \in Domains /\ Done(d) \in Job /\ Done(d).domain = d
      /\ ~Adds(Done(d)) /\ ~Cuts(Done(d)) /\ ~Writes(Done(d)) /\ ~Rows(Done(d)) /\ Done(d).at = "done"
      /\ domains \in [Domains -> {"absent", "live", "deleted"}]
      /\ expected \in [Requests -> {Nothing} \cup Outcome]
  BY LineTyped, DoneIsIdle DEF Inv, TypeOK
<1>a. old.at \in {"domain", "create", "revive"}
  BY DEF DomainFind, DomainCreate, DomainRevive
<1>b. /\ \A s \in {"create", "revive", "mapping"} :
           /\ [old EXCEPT !.at = s] \in Job
           /\ [old EXCEPT !.at = s].at = s
           /\ [old EXCEPT !.at = s].domain = d
           /\ [old EXCEPT !.at = s].user = old.user
      /\ ~Cuts(old)
  BY <1>o, <1>a DEF Job, Cuts
<1>c. /\ Adds(old) <=> old.user # NoUser
      /\ \A s \in {"create", "revive", "mapping"} :
           LET job == [old EXCEPT !.at = s]
           IN  /\ Adds(job) <=> old.user # NoUser
               /\ ~Cuts(job) /\ ~Rows(job) /\ job.at # "undelete"
               /\ Writes(job) <=> s = "mapping"
  BY <1>a, <1>b DEF Adds, Maps, Cuts, Rows, Writes
<1>1. ASSUME NEW s \in {"create", "revive"}, Become(r, i, [old EXCEPT !.at = s]),
             UNCHANGED <<domains, rows, deleted>>
      PROVE  Inv'
  <2> DEFINE job == [old EXCEPT !.at = s]
  <2>1. /\ job \in Job /\ job.domain = d /\ (Adds(job) => Adds(old)) /\ ~Cuts(job) /\ ~Rows(job)
        /\ ~Writes(job) /\ job.at # "undelete"
    BY <1>b, <1>c
  <2>2. /\ jobs' = [jobs EXCEPT ![r] = Settled([@ EXCEPT ![i] = job])]
        /\ UNCHANGED <<rows, deleted, suspects, domains, expected>>
    BY <1>1 DEF Become
  <2>3. /\ domains' \in [Domains -> {"absent", "live", "deleted"}]
        /\ \A e \in Domains : domains[e] = "live" => domains'[e] = "live"
        /\ expected' \in [Requests -> {Nothing} \cup Outcome]
        /\ old.at # "cut"
    BY <1>o, <1>a, <2>2
  <2> HIDE DEF job
  <2>4. Quiet(r, i, job)
    BY <1>1, <2>1, <2>2, <2>3 DEF Quiet
  <2> QED
    BY <2>1, <2>4, QuietKeeps
<1>2. ASSUME DomainIsThere(r, i), domains'[d] = "live",
             domains' \in [Domains -> {"absent", "live", "deleted"}],
             \A e \in Domains : domains[e] = "live" => domains'[e] = "live",
             UNCHANGED <<rows, deleted>>
      PROVE  Inv'
  <2>1. UNCHANGED <<suspects, expected>>
    BY <1>2 DEF DomainIsThere, Become
  <2>2. CASE old.user = NoUser
    <3>1. jobs' = [jobs EXCEPT ![r] = Settled([@ EXCEPT ![i] = Done(d)])]
      BY <1>2, <2>2 DEF DomainIsThere, Become
    <3> QED
      BY <1>o, <1>a, <1>2, <2>1, <3>1, QuietKeeps DEF Quiet
  <2>3. CASE old.user # NoUser
    <3> DEFINE job == [old EXCEPT !.at = "mapping"]
    <3>1. jobs' = [jobs EXCEPT ![r] = Settled([@ EXCEPT ![i] = job])]
      BY <1>2, <2>3 DEF DomainIsThere, Become
    <3>2. /\ job \in Job /\ job.domain = d /\ Adds(job) /\ Adds(old)
          /\ ~Cuts(job) /\ ~Rows(job) /\ job.at # "undelete"
      BY <1>b, <1>c, <2>3
    <3> HIDE DEF job
    <3> QED
      BY <1>o, <1>a, <1>2, <2>1, <3>1, <3>2, QuietKeeps DEF Quiet
  <2> QED
    BY <2>2, <2>3
<1>3. CASE DomainFind(r, i)
  <2>1. UNCHANGED <<domains, rows, deleted>>
    BY <1>3 DEF DomainFind
  <2>2. CASE domains[d] = "absent"
    BY <1>1, <1>3, <2>1, <2>2 DEF DomainFind
  <2>3. CASE domains[d] = "deleted"
    BY <1>1, <1>3, <2>1, <2>3 DEF DomainFind
  <2>4. CASE domains[d] = "live"
    <3>1. DomainIsThere(r, i)
      BY <1>3, <2>4 DEF DomainFind
    <3> QED
      BY <1>2, <1>o, <2>1, <2>4, <3>1
  <2> QED
    BY <1>o, <2>2, <2>3, <2>4
<1>4. CASE DomainCreate(r, i)
  <2>1. CASE domains[d] = "absent"
    BY <1>2, <1>4, <1>o, <2>1 DEF DomainCreate
  <2>2. CASE domains[d] # "absent"
    <3>1. LineRefused(r, i) /\ UNCHANGED <<domains, suspects, rows, deleted>>
      BY <1>4, <2>2 DEF DomainCreate, LineRefused, LineEnds
    <3>2. jobs' = [jobs EXCEPT ![r] = Settled([@ EXCEPT ![i] = Done(d)])]
      BY <3>1 DEF LineRefused, LineEnds
    <3>3. old.at = "create"
      BY <1>4 DEF DomainCreate
    <3>4. expected' \in [Requests -> {Nothing} \cup Outcome]
      BY <3>1, <3>3, RefusalTyped
    <3> QED
      BY <1>o, <1>a, <3>1, <3>2, <3>4, QuietKeeps DEF Quiet
  <2> QED
    BY <2>1, <2>2
<1>5. CASE DomainRevive(r, i)
  BY <1>2, <1>5, <1>o DEF DomainRevive
<1> QED
  BY <1>3, <1>4, <1>5

(* The facts about line i of r, the tables and a line that is done, which  *)
(* the remaining steps start from.                                         *)
LEMMA LineFacts ==
  ASSUME Inv, NEW r \in Requests, NEW i \in DOMAIN jobs[r]
  PROVE  LET old == jobs[r][i]
             d == old.domain
         IN  /\ old \in Job /\ d \in Domains
             /\ Writes(old) => Adds(old) /\ (domains[d] = "live" \/ d \in suspects)
             /\ Rows(old) => old.row \in DOMAIN rows
             /\ old.at = "undelete" => rows[old.row].domain = d
             /\ Done(d) \in Job /\ Done(d).domain = d
             /\ ~Adds(Done(d)) /\ ~Cuts(Done(d)) /\ ~Writes(Done(d)) /\ ~Rows(Done(d))
             /\ Done(d).at = "done"
             /\ domains \in [Domains -> {"absent", "live", "deleted"}]
             /\ rows \in Seq(Row) /\ deleted \subseteq DOMAIN rows /\ suspects \subseteq Domains
             /\ \A k \in DOMAIN rows : rows[k] \in Row /\ rows[k].domain \in Domains
             /\ DOMAIN rows \subseteq Nat
             /\ expected \in [Requests -> {Nothing} \cup Outcome]
BY LineTyped, DoneIsIdle, RowsTyped DEF Inv, TypeOK

LEMMA MappingStepsKeep ==
  ASSUME Inv, NEW r \in Requests, NEW i \in DOMAIN jobs[r],
         MappingFind(r, i) \/ MappingInsert(r, i) \/ MappingUndelete(r, i) \/ MappingUnmap(r, i)
  PROVE  Inv'
<1> DEFINE old == jobs[r][i]
           d == old.domain
           Job1(job) == jobs' = [jobs EXCEPT ![r] = Settled([@ EXCEPT ![i] = job])]
<1>o. /\ old \in Job /\ d \in Domains
      /\ Writes(old) => Adds(old) /\ (domains[d] = "live" \/ d \in suspects)
      /\ Rows(old) => old.row \in DOMAIN rows
      /\ old.at = "undelete" => rows[old.row].domain = d
      /\ domains \in [Domains -> {"absent", "live", "deleted"}]
      /\ rows \in Seq(Row) /\ deleted \subseteq DOMAIN rows /\ suspects \subseteq Domains
      /\ \A k \in DOMAIN rows : rows[k] \in Row /\ rows[k].domain \in Domains
      /\ DOMAIN rows \subseteq Nat
      /\ expected \in [Requests -> {Nothing} \cup Outcome]
  BY LineFacts
<1>d. /\ Done(d) \in Job /\ Done(d).domain = d
      /\ ~Adds(Done(d)) /\ ~Cuts(Done(d)) /\ ~Writes(Done(d)) /\ ~Rows(Done(d))
      /\ Done(d).at = "done"
  BY LineFacts
<1>n. \A k \in DOMAIN rows : old # [at |-> "cut", domain |-> rows[k].domain]
  <2>1. old.at # "cut"
    BY DEF MappingFind, MappingInsert, MappingUndelete, MappingUnmap
  <2> QED
    BY <2>1
<1>1. ASSUME MappingFind(r, i) PROVE Inv'
  <2>1. /\ old.at = "mapping" /\ Adds(old)
        /\ UNCHANGED <<domains, rows, deleted, suspects, expected>>
    BY <1>1, <1>o DEF MappingFind, Become, Writes
  <2>2. ASSUME NEW job \in Job, Job1(job), job.domain = d, ~Cuts(job),
               Writes(job) => Adds(job), Rows(job) => job.row \in DOMAIN rows,
               job.at = "undelete" => rows[job.row].domain = d
        PROVE  Inv'
    <3>1. Quiet(r, i, job)
      BY <1>o, <2>1, <2>2 DEF Quiet, Writes
    <3> QED
      BY <2>2, <3>1, QuietKeeps
  <2>3. CASE Become(r, i, [old EXCEPT !.at = "insert"])
    <3> DEFINE job == [old EXCEPT !.at = "insert"]
    <3>1. job \in Job /\ job.domain = d /\ job.at = "insert" /\ job.user = old.user
      BY <1>o, <2>1 DEF Job
    <3>2. Job1(job)
      BY <2>3 DEF Become
    <3>3. Adds(job) /\ ~Cuts(job) /\ ~Rows(job)
      BY <2>1, <3>1 DEF Adds, Maps, Cuts, Rows
    <3> HIDE DEF job
    <3> QED
      BY <2>2, <3>1, <3>2, <3>3
  <2>4. ASSUME NEW k \in DOMAIN rows, rows[k].domain = d,
               Become(r, i, [at |-> "undelete", domain |-> d, row |-> k])
        PROVE  Inv'
    <3> DEFINE job == [at |-> "undelete", domain |-> d, row |-> k]
    <3>1. job \in Job /\ job.domain = d /\ job.at = "undelete" /\ job.row = k
      BY <1>o DEF Job
    <3>2. Job1(job)
      BY <2>4 DEF Become
    <3>3. Adds(job) /\ ~Cuts(job)
      BY <3>1 DEF Adds, Cuts
    <3> HIDE DEF job
    <3> QED
      BY <2>2, <2>4, <3>1, <3>2, <3>3
  <2>5. CASE Become(r, i, Done(d))
    BY <1>d, <2>2, <2>5 DEF Become
  <2>6. ASSUME NEW k \in DOMAIN rows, rows[k] = [user |-> old.user, domain |-> d],
               Become(r, i, IF k \in deleted THEN [at |-> "undelete", domain |-> d, row |-> k]
                            ELSE Done(d))
        PROVE  Inv'
    <3>1. rows[k].domain = d
      BY <2>6
    <3>2. CASE k \in deleted
      BY <2>4, <2>6, <3>1, <3>2
    <3>3. CASE k \notin deleted
      BY <2>5, <2>6, <3>3
    <3> QED
      BY <3>2, <3>3
  <2> QED
    BY <1>1, <2>3, <2>6 DEF MappingFind
<1>2. ASSUME Job1(Done(d)), UNCHANGED <<domains, expected, suspects>>,
             rows' \in Seq(Row), DOMAIN rows \subseteq DOMAIN rows',
             \A k \in DOMAIN rows : rows'[k] = rows[k],
             deleted' \subseteq DOMAIN rows',
             \A k \in DOMAIN rows' \ deleted' :
               k \in Live \/ domains[rows'[k].domain] = "live" \/ rows'[k].domain \in suspects
      PROVE  Inv'
  <2>1. \A k \in DOMAIN rows' \ deleted' :
          \/ domains'[rows'[k].domain] = "live"
          \/ rows'[k].domain \in suspects'
          \/ /\ k \in Live /\ domains[rows[k].domain] # "live"
             /\ jobs[r][i] # [at |-> "cut", domain |-> rows[k].domain]
    BY <1>2, <1>n DEF Live
  <2>2. WellFounded(r, i, Done(d))
    BY <1>o, <1>d, <1>2, <2>1 DEF WellFounded
  <2> QED
    BY <1>d, <2>2, LineKeeps
<1>3. ASSUME MappingInsert(r, i) PROVE Inv'
  <2> DEFINE row == [user |-> old.user, domain |-> d]
  <2>1. /\ old.at = "insert" /\ Job1(Done(d)) /\ rows' = Append(rows, row)
        /\ UNCHANGED <<domains, expected, suspects, deleted>>
    BY <1>3 DEF MappingInsert, Become
  <2>2. Adds(old) /\ (domains[d] = "live" \/ d \in suspects)
    BY <1>o, <2>1 DEF Writes
  <2>3. row \in Row /\ row.domain = d
    BY <1>o, <2>1, <2>2 DEF Row, Adds, Maps, Job
  <2> HIDE DEF row
  <2>4. /\ rows' \in Seq(Row) /\ DOMAIN rows' = 1 .. Len(rows) + 1 /\ DOMAIN rows = 1 .. Len(rows)
        /\ \A k \in DOMAIN rows : rows'[k] = rows[k]
        /\ rows'[Len(rows) + 1] = row /\ Len(rows) \in Nat
    BY <1>o, <2>1, <2>3
  <2>5. DOMAIN rows \subseteq DOMAIN rows' /\ deleted' \subseteq DOMAIN rows'
    BY <1>o, <2>1, <2>4
  <2>6. \A k \in DOMAIN rows' \ deleted' :
          k \in Live \/ domains[rows'[k].domain] = "live" \/ rows'[k].domain \in suspects
    <3> SUFFICES ASSUME NEW k \in DOMAIN rows', k \notin deleted, k \notin DOMAIN rows
                 PROVE  domains[rows'[k].domain] = "live" \/ rows'[k].domain \in suspects
      BY <2>1 DEF Live
    <3>1. k = Len(rows) + 1
      BY <2>4
    <3> QED
      BY <2>2, <2>3, <2>4, <3>1
  <2> QED
    BY <1>2, <2>1, <2>4, <2>5, <2>6
<1>4. ASSUME MappingUndelete(r, i) PROVE Inv'
  <2>1. /\ old.at = "undelete" /\ Job1(Done(d)) /\ deleted' = deleted \ {old.row}
        /\ UNCHANGED <<domains, expected, suspects, rows>>
    BY <1>4 DEF MappingUndelete, Become
  <2>2. domains[rows[old.row].domain] = "live" \/ rows[old.row].domain \in suspects
    BY <1>o, <2>1 DEF Writes
  <2> QED
    BY <1>2, <1>o, <2>1, <2>2 DEF Live
<1>5. ASSUME MappingUnmap(r, i) PROVE Inv'
  <2>1. /\ old.at = "unmap" /\ Job1(Done(d)) /\ deleted' = deleted \cup {old.row}
        /\ UNCHANGED <<domains, expected, suspects, rows>>
    BY <1>5 DEF MappingUnmap, Become
  <2>2. old.row \in DOMAIN rows
    BY <1>o, <2>1 DEF Rows
  <2> QED
    BY <1>2, <1>o, <2>1, <2>2 DEF Live
<1> QED
  BY <1>1, <1>3, <1>4, <1>5

LEMMA RemovalStepsKeep ==
  ASSUME Inv, NEW r \in Requests, NEW i \in DOMAIN jobs[r],
         RemovalFind(r, i) \/ RemovalDelete(r, i) \/ RemovalCut(r, i)
  PROVE  Inv'
<1> DEFINE old == jobs[r][i]
           d == old.domain
           Job1(job) == jobs' = [jobs EXCEPT ![r] = Settled([@ EXCEPT ![i] = job])]
<1>o. /\ old \in Job /\ d \in Domains
      /\ domains \in [Domains -> {"absent", "live", "deleted"}]
      /\ rows \in Seq(Row) /\ deleted \subseteq DOMAIN rows /\ suspects \subseteq Domains
      /\ \A k \in DOMAIN rows : rows[k] \in Row /\ rows[k].domain \in Domains
      /\ expected \in [Requests -> {Nothing} \cup Outcome]
  BY LineFacts
<1>d. /\ Done(d) \in Job /\ Done(d).domain = d
      /\ ~Adds(Done(d)) /\ ~Cuts(Done(d)) /\ ~Writes(Done(d)) /\ ~Rows(Done(d))
      /\ Done(d).at = "done"
  BY LineFacts
<1>e. \A s \in {"delete", "cut"} :
        LET job == [at |-> s, domain |-> d]
        IN  /\ job \in Job /\ job.domain = d /\ job.at = s
            /\ ~Adds(job) /\ ~Writes(job) /\ ~Rows(job)
  BY <1>o DEF Job, Adds, Maps, Writes, Rows
<1>c. old.at \in {"find", "delete", "cut"} /\ Cuts(old)
  BY DEF RemovalFind, RemovalDelete, RemovalCut, Cuts
<1>1. ASSUME RemovalFind(r, i) PROVE Inv'
  <2>1. old.at = "find" /\ UNCHANGED <<domains, rows, deleted, suspects, expected>>
    BY <1>1 DEF RemovalFind, Become
  <2>2. CASE Become(r, i, [at |-> "delete", domain |-> d])
    <3> DEFINE job == [at |-> "delete", domain |-> d]
    <3>1. job \in Job /\ job.domain = d /\ ~Adds(job) /\ ~Writes(job) /\ ~Rows(job) /\ job.at = "delete"
      BY <1>e
    <3>2. Job1(job)
      BY <2>2 DEF Become
    <3> HIDE DEF job
    <3>3. Quiet(r, i, job)
      BY <1>o, <1>c, <2>1, <3>1, <3>2 DEF Quiet
    <3> QED
      BY <3>1, <3>3, QuietKeeps
  <2>3. CASE Become(r, i, Done(d))
    <3>1. Quiet(r, i, Done(d))
      BY <1>o, <1>d, <2>1, <2>3 DEF Quiet, Become
    <3> QED
      BY <1>d, <3>1, QuietKeeps
  <2> QED
    BY <1>1, <2>2, <2>3 DEF RemovalFind
<1>2. ASSUME RemovalDelete(r, i) PROVE Inv'
  <2> DEFINE job == [at |-> "cut", domain |-> d]
  <2>1. /\ old.at = "delete" /\ domains' = [domains EXCEPT ![d] = "deleted"]
        /\ jobs' = [jobs EXCEPT ![r] = Settled([@ EXCEPT ![i] = [old EXCEPT !.at = "cut"]])]
        /\ UNCHANGED <<rows, deleted, suspects, expected>>
    BY <1>2 DEF RemovalDelete, Become
  <2>2. [old EXCEPT !.at = "cut"] = job
    BY <1>o, <2>1 DEF Job
  <2>3. job \in Job /\ job.domain = d /\ ~Adds(job) /\ ~Writes(job) /\ ~Rows(job) /\ job.at = "cut"
    BY <1>e
  <2>4. Job1(job)
    BY <2>1, <2>2
  <2>5. \A e \in Domains : domains[e] = "live" => domains'[e] = "live" \/ (e = d /\ job = [at |-> "cut", domain |-> e])
    BY <1>o, <2>1
  <2>6. domains' \in [Domains -> {"absent", "live", "deleted"}]
    BY <1>o, <2>1
  <2> HIDE DEF job
  <2>7. Quiet(r, i, job)
    BY <1>o, <1>c, <2>1, <2>3, <2>4, <2>5, <2>6 DEF Quiet
  <2> QED
    BY <2>3, <2>7, QuietKeeps
<1>3. ASSUME RemovalCut(r, i) PROVE Inv'
  <2>1. /\ old.at = "cut" /\ Job1(Done(d))
        /\ deleted' = deleted \cup { k \in DOMAIN rows : rows[k].domain = d }
        /\ UNCHANGED <<domains, rows, suspects, expected>>
    BY <1>3 DEF RemovalCut, Become
  <2>2. \A k \in DOMAIN rows' \ deleted' :
          \/ domains'[rows'[k].domain] = "live"
          \/ k \in Live /\ domains[rows[k].domain] # "live" /\ old # [at |-> "cut", domain |-> rows[k].domain]
    BY <2>1 DEF Live
  <2>3. deleted' \subseteq DOMAIN rows
    BY <1>o, <2>1
  <2>4. WellFounded(r, i, Done(d))
    BY <1>o, <1>d, <2>1, <2>2, <2>3 DEF WellFounded
  <2> QED
    BY <1>d, <2>4, LineKeeps
<1> QED
  BY <1>1, <1>2, <1>3

LEMMA FailureKeeps ==
  ASSUME Inv, NEW r \in Requests, NEW i \in DOMAIN jobs[r], LineFails(r, i) PROVE Inv'
<1> DEFINE old == jobs[r][i]
           d == old.domain
<1>o. /\ old \in Job /\ d \in Domains
      /\ domains \in [Domains -> {"absent", "live", "deleted"}]
      /\ rows \in Seq(Row) /\ deleted \subseteq DOMAIN rows /\ suspects \subseteq Domains
      /\ \A k \in DOMAIN rows : rows[k] \in Row /\ rows[k].domain \in Domains
      /\ expected \in [Requests -> {Nothing} \cup Outcome]
  BY LineFacts
<1>d. /\ Done(d) \in Job /\ Done(d).domain = d
      /\ ~Adds(Done(d)) /\ ~Cuts(Done(d)) /\ ~Writes(Done(d)) /\ ~Rows(Done(d))
      /\ Done(d).at = "done"
  BY LineFacts
<1>1. /\ jobs' = [jobs EXCEPT ![r] = Settled([@ EXCEPT ![i] = Done(d)])]
      /\ suspects' = IF old.at = "cut" THEN suspects \cup {d} ELSE suspects
      /\ UNCHANGED <<domains, rows, deleted>>
  BY DEF LineFails, LineEnds
<1>2. expected' \in [Requests -> {Nothing} \cup Outcome]
  BY <1>o DEF LineFails, LineEnds
<1>3. old.at = "cut" => old = [at |-> "cut", domain |-> d]
  BY <1>o DEF Job
<1>4. suspects \subseteq suspects' /\ suspects' \subseteq Domains /\ (old.at = "cut" => d \in suspects')
  BY <1>o, <1>1
<1>5. \A k \in DOMAIN rows' \ deleted' :
        \/ domains'[rows'[k].domain] = "live"
        \/ rows'[k].domain \in suspects'
        \/ /\ k \in Live /\ domains[rows[k].domain] # "live"
           /\ old # [at |-> "cut", domain |-> rows[k].domain]
  <2> SUFFICES ASSUME NEW k \in DOMAIN rows \ deleted, rows[k].domain \notin suspects',
                      old = [at |-> "cut", domain |-> rows[k].domain]
               PROVE  FALSE
    BY <1>1 DEF Live
  <2>1. old.at = "cut" /\ d = rows[k].domain
    OBVIOUS
  <2> QED
    BY <1>4, <2>1
<1>6. WellFounded(r, i, Done(d))
  BY <1>o, <1>d, <1>1, <1>2, <1>4, <1>5 DEF WellFounded
<1> QED
  BY <1>d, <1>6, LineKeeps
-----------------------------------------------------------------------------
LEMMA InvNext == Inv /\ [Next]_vars => Inv'
<1> SUFFICES ASSUME Inv, [Next]_vars PROVE Inv'
  OBVIOUS
<1>1. CASE Next
  <2>1. PICK r \in Requests :
          \/ \E file \in NonEmpty(Domains) : \E accepted \in SUBSET file : UploadDomains(r, file, accepted)
          \/ \E L \in NonEmpty(Lines) : \E lines \in [L -> Row] : UploadUsers(r, lines)
          \/ \E u \in Users, ds \in NonEmpty(Domains) : UploadOwn(r, u, ds) \/ MapDomains(r, u, ds)
          \/ \E i \in DOMAIN rows : UnmapFind(r, i)
          \/ \E d \in Domains : RemoveDomain(r, d)
          \/ \E i \in DOMAIN jobs[r] : Continue(r, i) \/ LineFails(r, i)
    BY <1>1 DEF Next
  <2>2. ASSUME NEW i \in DOMAIN jobs[r], Continue(r, i) \/ LineFails(r, i) PROVE Inv'
    BY <2>2, DomainStepsKeep, MappingStepsKeep, RemovalStepsKeep, FailureKeeps DEF Continue
  <2> QED
    BY <2>1, <2>2, BeginsKeep
<1>2. CASE UNCHANGED vars
  BY <1>2 DEF vars, Inv, TypeOK, OrphanFree, Grounded, Watched, Live, InService
<1> QED
  BY <1>1, <1>2

(* Type correctness: whatever the lines of clientDomain.service.ts and     *)
(* clientDomainUserMapping.service.ts do to each other, ids of deleted     *)
(* rows are ids of rows and a line is always at one of its statements.     *)
THEOREM TypeCorrect == Spec => []TypeOK
<1>1. Inv => TypeOK
  BY DEF Inv
<1> QED
  BY InvInit, InvNext, <1>1, PTL DEF Spec

(* OrphanFree: removeClientDomain deletes a domain and then its mappings,  *)
(* and no statement of any other line can come between them so that a      *)
(* mapping is left, except where one request maps what another removes or  *)
(* the removal breaks off.                                                 *)
THEOREM RemovedMappedToNobody == Spec => []OrphanFree
<1>1. Inv => OrphanFree
  BY DEF Inv
<1> QED
  BY InvInit, InvNext, <1>1, PTL DEF Spec
-----------------------------------------------------------------------------
(* What is left of the tables once lines js are done, if nothing else      *)
(* happens: the domains, and the pairs of live rows.                       *)
Creates(j) == j.at \in {"domain", "create", "revive"}

Ends(j) == j.at \in {"find", "delete"}

DomainsLeft(dom, js) ==
  { d \in Domains :
      \/ \E n \in DOMAIN js : Creates(js[n]) /\ js[n].domain = d
      \/ dom[d] = "live" /\ \A n \in DOMAIN js : Ends(js[n]) => js[n].domain # d }

Takes(dom, rs, j, k) ==
  \/ j.at \in {"delete", "cut"} /\ rs[k].domain = j.domain
  \/ j.at = "find" /\ dom[j.domain] = "live" /\ rs[k].domain = j.domain
  \/ j.at = "unmap" /\ j.row = k

PairsLeft(dom, rs, live, js) ==
  { p \in Row :
      \/ \E k \in live : rs[k] = p /\ \A n \in DOMAIN js : ~Takes(dom, rs, js[n], k)
      \/ \E n \in DOMAIN js : Gives(rs, js[n], p) }

(* A line that takes something away is the only one about its domain.      *)
Apart(js) ==
  \A m, n \in DOMAIN js :
    (Cuts(js[m]) \/ js[m].at = "unmap") /\ js[n].domain = js[m].domain => n = m

UnmapsOwn(rs, js) ==
  \A n \in DOMAIN js :
    js[n].at = "unmap" => js[n].row \in DOMAIN rs /\ rs[js[n].row].domain = js[n].domain

(* A mapping of domain d is live or about to be.                           *)
Reaches(rs, live, js, d) ==
  \/ \E k \in live : rs[k].domain = d
  \/ \E n \in DOMAIN js : Writes(js[n]) /\ js[n].domain = d

(* A line that is about to create a domain which is there by now will be   *)
(* refused, as lines were that gave the pairs in refused: a mapping of the *)
(* domain is live or about to be, and nobody will take it away.            *)
Served(dom, rs, live, js, refused) ==
  /\ \A n \in DOMAIN js : js[n].at = "revive" => dom[js[n].domain] # "absent"
  /\ \A n \in DOMAIN js : js[n].at = "create" =>
       dom[js[n].domain] = "absent"
         \/ (dom[js[n].domain] = "live" /\ Reaches(rs, live, js, js[n].domain))
  /\ \A m, n \in DOMAIN js :
       Creates(js[m]) /\ Creates(js[n]) /\ js[m].domain = js[n].domain /\ m # n
         => js[m].user # NoUser
  /\ \A p \in refused :
       /\ Reaches(rs, live, js, p.domain)
       /\ \A n \in DOMAIN js : Cuts(js[n]) \/ js[n].at = "unmap" => js[n].domain # p.domain

(* While a request is expected to leave what its atomic version would, it  *)
(* is the only one, and what its lines will leave is that.                 *)
OnCourse ==
  \A r \in Requests :
    expected[r] # Nothing =>
      /\ \A q \in Requests \ {r} : jobs[q] = <<>>
      /\ Apart(jobs[r]) /\ UnmapsOwn(rows, jobs[r])
      /\ Served(domains, rows, Live, jobs[r], expected[r].refused)
      /\ expected[r].domains = DomainsLeft(domains, jobs[r])
      /\ expected[r].pairs =
           PairsLeft(domains, rows, Live, jobs[r]) \cup expected[r].refused

(* Lines that are done leave nothing to do.                                *)
LEMMA SettledLeaves ==
  ASSUME NEW js, NEW dom, NEW rs, NEW live, NEW refused
  PROVE  /\ DomainsLeft(dom, Settled(js)) = DomainsLeft(dom, js)
         /\ PairsLeft(dom, rs, live, Settled(js)) = PairsLeft(dom, rs, live, js)
         /\ Apart(js) => Apart(Settled(js))
         /\ UnmapsOwn(rs, js) => UnmapsOwn(rs, Settled(js))
         /\ Served(dom, rs, live, js, refused) => Served(dom, rs, live, Settled(js), refused)
<1>1. CASE \A n \in DOMAIN js : js[n].at = "done"
  <2>1. Settled(js) = <<>> /\ DOMAIN <<>> = {}
    BY <1>1 DEF Settled
  <2>2. \A n \in DOMAIN js : ~Creates(js[n]) /\ ~Ends(js[n])
    BY <1>1 DEF Creates, Ends
  <2>3. \A n \in DOMAIN js : (\A k : ~Takes(dom, rs, js[n], k)) /\ \A p : ~Gives(rs, js[n], p)
    BY <1>1 DEF Takes, Gives, Maps
  <2>4. DomainsLeft(dom, <<>>) = DomainsLeft(dom, js)
    BY <2>1, <2>2 DEF DomainsLeft
  <2>5. PairsLeft(dom, rs, live, <<>>) = PairsLeft(dom, rs, live, js)
    BY <2>1, <2>3 DEF PairsLeft
  <2>6. Apart(<<>>) /\ UnmapsOwn(rs, <<>>)
    BY <2>1 DEF Apart, UnmapsOwn
  <2>7. Served(dom, rs, live, js, refused) => Served(dom, rs, live, <<>>, refused)
    <3>1. \A n \in DOMAIN js : ~Writes(js[n])
      BY <1>1 DEF Writes
    <3>2. \A d : Reaches(rs, live, js, d) => Reaches(rs, live, <<>>, d)
      BY <3>1 DEF Reaches
    <3> QED
      BY <2>1, <3>2 DEF Served
  <2> QED
    BY <2>1, <2>4, <2>5, <2>6, <2>7
<1>2. CASE ~\A n \in DOMAIN js : js[n].at = "done"
  BY <1>2 DEF Settled
<1> QED
  BY <1>1, <1>2

(* Line i goes on as job, and what it does to its domain either creates it *)
(* or leaves it to others.                                                 *)
LineAs(js, i, job, after) ==
  /\ DOMAIN after = DOMAIN js /\ i \in DOMAIN js
  /\ after[i] = job
  /\ \A n \in DOMAIN js \ {i} : after[n] = js[n]
  /\ job.domain = js[i].domain

(* What a line may do on its way from old to job: to the domains, to which *)
(* statement it comes, and to the rows.                                    *)
Leads(old, job, dom, next) ==
  /\ \A d \in Domains :
       \/ next[d] = dom[d]
       \/ d = old.domain /\ Cuts(old) /\ next[d] = "deleted"
       \/ /\ d = old.domain /\ Creates(old) /\ next[d] = "live"
          /\ old.user = NoUser \/ Writes(job)
  /\ job.at = "create" => dom[old.domain] = "absent" /\ next[old.domain] = "absent"
  /\ job.at = "revive" => next[old.domain] # "absent"
  /\ Creates(job) => Creates(old) /\ job.user = old.user
  /\ Cuts(job) \/ job.at = "unmap" => Cuts(old) \/ old.at = "unmap"

Keeps(old, job, rs, ss, live, now) ==
  /\ \A k \in live : \/ k \in now /\ ss[k] = rs[k]
                     \/ (Cuts(old) \/ old.at = "unmap") /\ rs[k].domain = old.domain
  /\ Writes(old) => Writes(job) \/ \E k \in now : ss[k].domain = old.domain

(* A mapping that nobody takes away stays within reach.                    *)
LEMMA ReachStays ==
  ASSUME NEW js, NEW i, NEW job, NEW after, LineAs(js, i, job, after),
         NEW rs, NEW ss, NEW live, NEW now, Keeps(js[i], job, rs, ss, live, now),
         NEW d, Reaches(rs, live, js, d),
         Cuts(js[i]) \/ js[i].at = "unmap" => js[i].domain # d
  PROVE  Reaches(ss, now, after, d)
<1>1. CASE \E k \in live : rs[k].domain = d
  BY <1>1 DEF Keeps, Reaches
<1>2. ASSUME NEW n \in DOMAIN js, Writes(js[n]), js[n].domain = d
      PROVE  Reaches(ss, now, after, d)
  <2>1. CASE n # i
    BY <1>2, <2>1 DEF LineAs, Reaches
  <2>2. CASE n = i
    BY <1>2, <2>2 DEF LineAs, Keeps, Reaches
  <2> QED
    BY <2>1, <2>2
<1> QED
  BY <1>1, <1>2 DEF Reaches

LEMMA ServedStays ==
  ASSUME NEW js, NEW i, NEW job, NEW after, LineAs(js, i, job, after), Apart(js),
         NEW dom, NEW next, NEW rs, NEW ss, NEW live, NEW now, NEW refused,
         \A n \in DOMAIN js : js[n].domain \in Domains,
         Served(dom, rs, live, js, refused),
         Leads(js[i], job, dom, next), Keeps(js[i], job, rs, ss, live, now)
  PROVE  Served(next, ss, now, after, refused)
<1> DEFINE old == js[i]
<1>1. /\ DOMAIN after = DOMAIN js /\ i \in DOMAIN js /\ after[i] = job
      /\ \A n \in DOMAIN js : n # i => after[n] = js[n]
      /\ \A n \in DOMAIN js : after[n].domain = js[n].domain
  BY DEF LineAs
<1>2. ASSUME NEW n \in DOMAIN js, n # i, js[n].at \in {"create", "revive"}
      PROVE  ~(js[n].domain = old.domain /\ (Cuts(old) \/ old.at = "unmap"))
  <2>1. CASE Cuts(old) \/ old.at = "unmap"
    BY <1>1, <1>2, <2>1 DEF Apart
  <2> QED
    BY <2>1
<1>3. ASSUME NEW n \in DOMAIN js, after[n].at = "revive" PROVE next[after[n].domain] # "absent"
  <2>1. CASE n = i
    BY <1>1, <1>3, <2>1 DEF Leads
  <2>2. CASE n # i
    <3>1. dom[js[n].domain] # "absent" /\ js[n].domain \in Domains
      BY <1>1, <1>3, <2>2 DEF Served
    <3> QED
      BY <1>1, <2>2, <3>1 DEF Leads
  <2> QED
    BY <2>1, <2>2
<1>4. ASSUME NEW n \in DOMAIN js, after[n].at = "create"
      PROVE  \/ next[after[n].domain] = "absent"
             \/ /\ next[after[n].domain] = "live"
                /\ Reaches(ss, now, after, after[n].domain)
  <2>1. CASE n = i
    BY <1>1, <1>4, <2>1 DEF Leads
  <2>2. CASE n # i
    <3> DEFINE d == js[n].domain
    <3>1. /\ js[n] = after[n] /\ js[n].at = "create" /\ Creates(js[n]) /\ d \in Domains
          /\ dom[d] = "absent" \/ (dom[d] = "live" /\ Reaches(rs, live, js, d))
      BY <1>1, <1>4, <2>2 DEF Served, Creates
    <3>2. ~(d = old.domain /\ (Cuts(old) \/ old.at = "unmap"))
      BY <1>2, <2>2, <3>1
    <3>3. \/ next[d] = dom[d]
          \/ /\ d = old.domain /\ Creates(old) /\ next[d] = "live"
             /\ old.user = NoUser \/ Writes(job)
      BY <3>1, <3>2 DEF Leads
    <3>4. CASE dom[d] = "live"
      BY <3>1, <3>2, <3>3, <3>4, ReachStays
    <3>5. CASE dom[d] = "absent" /\ next[d] # dom[d]
      <4>1. d = old.domain /\ Creates(old) /\ next[d] = "live" /\ (old.user = NoUser \/ Writes(job))
        BY <3>3, <3>5
      <4>2. old.user # NoUser
        BY <1>1, <2>2, <3>1, <4>1 DEF Served
      <4>3. Reaches(ss, now, after, d)
        BY <1>1, <4>1, <4>2 DEF Reaches
      <4> QED
        BY <3>1, <4>1, <4>3
    <3> QED
      BY <3>1, <3>4, <3>5
  <2> QED
    BY <2>1, <2>2
<1>5. ASSUME NEW m \in DOMAIN js, NEW n \in DOMAIN js, m # n,
             Creates(after[m]), Creates(after[n]), after[m].domain = after[n].domain
      PROVE  after[m].user # NoUser
  <2>1. \A l \in DOMAIN js : Creates(after[l]) => Creates(js[l]) /\ after[l].user = js[l].user
    BY <1>1 DEF Leads
  <2> QED
    BY <1>1, <1>5, <2>1 DEF Served
<1>6. ASSUME NEW p \in refused
      PROVE  /\ Reaches(ss, now, after, p.domain)
             /\ \A n \in DOMAIN js :
                  Cuts(after[n]) \/ after[n].at = "unmap" => after[n].domain # p.domain
  <2>1. /\ Reaches(rs, live, js, p.domain)
        /\ \A n \in DOMAIN js : Cuts(js[n]) \/ js[n].at = "unmap" => js[n].domain # p.domain
    BY DEF Served
  <2>2. Reaches(ss, now, after, p.domain)
    BY <1>1, <2>1, ReachStays
  <2>3. \A n \in DOMAIN js :
          Cuts(after[n]) \/ after[n].at = "unmap" => Cuts(js[n]) \/ js[n].at = "unmap"
    BY <1>1 DEF Leads
  <2> QED
    BY <1>1, <2>1, <2>2, <2>3
<1> QED
  BY <1>1, <1>3, <1>4, <1>5, <1>6 DEF Served

LEMMA DomainsStay ==
  ASSUME NEW js, NEW i, NEW job, NEW after, LineAs(js, i, job, after), NEW dom, NEW next,
         \A d \in Domains : d # job.domain => next[d] = dom[d],
         \/ /\ Creates(js[i])
            /\ Creates(job) \/ (next[job.domain] = "live" /\ ~Ends(job))
            /\ \A n \in DOMAIN js \ {i} : Ends(js[n]) => js[n].domain # job.domain
         \/ /\ ~Creates(js[i]) /\ ~Creates(job)
            /\ (next[job.domain] = "live" /\ ~Ends(job))
                 <=> (dom[job.domain] = "live" /\ ~Ends(js[i]))
  PROVE  DomainsLeft(next, after) = DomainsLeft(dom, js)
<1> DEFINE Others(d) == \E n \in DOMAIN js \ {i} : Creates(js[n]) /\ js[n].domain = d
           Spared(d) == \A n \in DOMAIN js \ {i} : Ends(js[n]) => js[n].domain # d
<1>1. \A d \in Domains : d \in DomainsLeft(dom, js) <=>
        \/ Creates(js[i]) /\ job.domain = d
        \/ Others(d)
        \/ dom[d] = "live" /\ (Ends(js[i]) => job.domain # d) /\ Spared(d)
  BY DEF DomainsLeft, LineAs
<1>2. \A d \in Domains : d \in DomainsLeft(next, after) <=>
        \/ Creates(job) /\ job.domain = d
        \/ Others(d)
        \/ next[d] = "live" /\ (Ends(job) => job.domain # d) /\ Spared(d)
  BY DEF DomainsLeft, LineAs
<1>3. DomainsLeft(next, after) \subseteq Domains /\ DomainsLeft(dom, js) \subseteq Domains
  BY DEF DomainsLeft
<1>4. Creates(js[i]) => Spared(job.domain)
  OBVIOUS
<1> HIDE DEF Others, Spared
<1>5. ASSUME NEW d \in Domains
      PROVE  d \in DomainsLeft(next, after) <=> d \in DomainsLeft(dom, js)
  <2>1. CASE d # job.domain
    BY <1>1, <1>2, <2>1
  <2>2. CASE d = job.domain
    BY <1>1, <1>2, <1>4, <2>2
  <2> QED
    BY <2>1, <2>2
<1> QED
  BY <1>3, <1>5

(* A line takes and gives the same before and after.                       *)
LEMMA PairsStay ==
  ASSUME NEW js, NEW i, NEW job, NEW after, LineAs(js, i, job, after), NEW dom, NEW next,
         NEW rs, NEW live,
         \A n \in DOMAIN js \ {i}, k \in live : Takes(next, rs, js[n], k) <=> Takes(dom, rs, js[n], k),
         \A k \in live : Takes(next, rs, job, k) <=> Takes(dom, rs, js[i], k),
         \A p \in Row : Gives(rs, job, p) <=> Gives(rs, js[i], p)
  PROVE  PairsLeft(next, rs, live, after) = PairsLeft(dom, rs, live, js)
<1>1. ASSUME NEW k \in live
      PROVE  (\A n \in DOMAIN after : ~Takes(next, rs, after[n], k))
               <=> (\A n \in DOMAIN js : ~Takes(dom, rs, js[n], k))
  BY DEF LineAs
<1>2. ASSUME NEW p \in Row
      PROVE  (\E n \in DOMAIN after : Gives(rs, after[n], p))
               <=> (\E n \in DOMAIN js : Gives(rs, js[n], p))
  BY DEF LineAs
<1> QED
  BY <1>1, <1>2 DEF PairsLeft

(* A line gives its pair: a row of it, which nobody is about to take, is   *)
(* live now.                                                               *)
Given(js, i, dom, rs, ss, live, now, x) ==
  /\ now = live \cup {x}
  /\ \A k \in live : ss[k] = rs[k]
  /\ \A k : ~Takes(dom, rs, js[i], k)
  /\ \A n \in DOMAIN js \ {i} : ~Takes(dom, ss, js[n], x)
  /\ \A n \in DOMAIN js \ {i}, p \in Row : Gives(ss, js[n], p) <=> Gives(rs, js[n], p)
  /\ \A p \in Row : Gives(rs, js[i], p) <=> p = ss[x]

LEMMA PairsGiven ==
  ASSUME NEW js, NEW i, NEW job, NEW after, LineAs(js, i, job, after), job.at = "done",
         NEW dom, NEW rs, NEW ss, NEW live, NEW now, NEW x,
         Given(js, i, dom, rs, ss, live, now, x)
  PROVE  PairsLeft(dom, ss, now, after) = PairsLeft(dom, rs, live, js)
<1> USE DEF Given
<1>1. (\A k : ~Takes(dom, ss, job, k)) /\ \A p : ~Gives(ss, job, p)
  BY DEF Takes, Gives, Maps
<1>2. \A n \in DOMAIN js, k \in live : Takes(dom, ss, js[n], k) <=> Takes(dom, rs, js[n], k)
  BY DEF Takes
<1>3. ASSUME NEW k \in live
      PROVE  (\A n \in DOMAIN after : ~Takes(dom, ss, after[n], k))
               <=> (\A n \in DOMAIN js : ~Takes(dom, rs, js[n], k))
  BY <1>1, <1>2 DEF LineAs
<1>4. \A n \in DOMAIN after : ~Takes(dom, ss, after[n], x)
  BY <1>1 DEF LineAs
<1>5. ASSUME NEW p \in Row
      PROVE  (\E n \in DOMAIN after : Gives(ss, after[n], p)) \/ p = ss[x]
               <=> (\E n \in DOMAIN js : Gives(rs, js[n], p))
  BY <1>1 DEF LineAs
<1>6. ASSUME NEW p \in Row
      PROVE  (\E k \in now : ss[k] = p /\ \A n \in DOMAIN after : ~Takes(dom, ss, after[n], k))
               <=> \/ \E k \in live : rs[k] = p /\ \A n \in DOMAIN js : ~Takes(dom, rs, js[n], k)
                   \/ p = ss[x]
  <2>1. (\E k \in now : ss[k] = p /\ \A n \in DOMAIN after : ~Takes(dom, ss, after[n], k))
          <=> \/ \E k \in live : ss[k] = p /\ \A n \in DOMAIN after : ~Takes(dom, ss, after[n], k)
              \/ p = ss[x]
    BY <1>4
  <2> QED
    BY <2>1, <1>3
<1> QED
  BY <1>5, <1>6 DEF PairsLeft

(* A line takes what it was about to take.                                 *)
LEMMA PairsTaken ==
  ASSUME NEW js, NEW i, NEW job, NEW after, LineAs(js, i, job, after), NEW dom,
         NEW rs, NEW live,
         job.at = "done",
         \A p : ~Gives(rs, js[i], p)
  PROVE  PairsLeft(dom, rs, { k \in live : ~Takes(dom, rs, js[i], k) }, after)
           = PairsLeft(dom, rs, live, js)
<1>1. (\A k : ~Takes(dom, rs, job, k)) /\ \A p : ~Gives(rs, job, p)
  BY DEF Takes, Gives, Maps
<1>2. ASSUME NEW k \in live
      PROVE  (\A n \in DOMAIN js : ~Takes(dom, rs, js[n], k))
               <=> /\ ~Takes(dom, rs, js[i], k)
                   /\ \A n \in DOMAIN after : ~Takes(dom, rs, after[n], k)
  BY <1>1 DEF LineAs
<1>3. ASSUME NEW p \in Row
      PROVE  (\E n \in DOMAIN after : Gives(rs, after[n], p))
               <=> (\E n \in DOMAIN js : Gives(rs, js[n], p))
  BY <1>1 DEF LineAs
<1> QED
  BY <1>2, <1>3 DEF PairsLeft

(* A line goes on and what is left stays the same: the request stays on    *)
(* course.                                                                 *)
LEMMA LineStays ==
  ASSUME Inv, OnCourse, NEW r \in Requests, NEW i \in DOMAIN jobs[r], NEW job, NEW after,
         jobs' = [jobs EXCEPT ![r] = Settled(after)], expected' = expected,
         LineAs(jobs[r], i, job, after),
         job.at # "unmap", Cuts(job) => Cuts(jobs[r][i]),
         \A k \in DOMAIN rows : k \in DOMAIN rows' /\ rows'[k] = rows[k],
         Leads(jobs[r][i], job, domains, domains'),
         expected[r] # Nothing =>
           /\ Keeps(jobs[r][i], job, rows, rows', Live, Live')
           /\ DomainsLeft(domains', after) = DomainsLeft(domains, jobs[r])
           /\ PairsLeft(domains', rows', Live', after) = PairsLeft(domains, rows, Live, jobs[r])
  PROVE  OnCourse'
<1>1. DOMAIN jobs = Requests
  BY DEF Inv, TypeOK
<1>2. SUFFICES ASSUME NEW q \in Requests, expected[q] # Nothing
               PROVE  /\ \A b \in Requests \ {q} : jobs'[b] = <<>>
                      /\ Apart(jobs'[q]) /\ UnmapsOwn(rows', jobs'[q])
                      /\ Served(domains', rows', Live', jobs'[q], expected[q].refused)
                      /\ expected[q].domains = DomainsLeft(domains', jobs'[q])
                      /\ expected[q].pairs = PairsLeft(domains', rows', Live', jobs'[q])
                                               \cup expected[q].refused
  BY DEF OnCourse
<1>3. /\ \A b \in Requests \ {q} : jobs[b] = <<>>
      /\ Apart(jobs[q]) /\ UnmapsOwn(rows, jobs[q])
      /\ Served(domains, rows, Live, jobs[q], expected[q].refused)
      /\ expected[q].domains = DomainsLeft(domains, jobs[q])
      /\ expected[q].pairs = PairsLeft(domains, rows, Live, jobs[q]) \cup expected[q].refused
  BY <1>2 DEF OnCourse
<1>4. q = r
  <2>1. jobs[r] # <<>>
    OBVIOUS
  <2> QED
    BY <1>3, <2>1
<1>5. jobs'[q] = Settled(after) /\ \A b \in Requests \ {q} : jobs'[b] = <<>>
  BY <1>1, <1>3, <1>4
<1>6. Apart(after)
  <2>1. \A n \in DOMAIN after : after[n].domain = jobs[r][n].domain
    BY DEF LineAs
  <2>2. \A n \in DOMAIN after : Cuts(after[n]) \/ after[n].at = "unmap" =>
          Cuts(jobs[r][n]) \/ jobs[r][n].at = "unmap"
    BY DEF LineAs
  <2> QED
    BY <1>3, <1>4, <2>1, <2>2 DEF Apart, LineAs
<1>7. UnmapsOwn(rows', after)
  BY <1>3, <1>4 DEF UnmapsOwn, LineAs
<1>8. Served(domains', rows', Live', after, expected[r].refused)
  <2>1. \A n \in DOMAIN jobs[r] : jobs[r][n].domain \in Domains
    BY LineTyped
  <2>2. /\ Apart(jobs[r]) /\ Served(domains, rows, Live, jobs[r], expected[r].refused)
        /\ Keeps(jobs[r][i], job, rows, rows', Live, Live')
    BY <1>2, <1>3, <1>4
  <2> QED
    BY <2>1, <2>2, ServedStays
<1>9. /\ DomainsLeft(domains', Settled(after)) = DomainsLeft(domains, jobs[r])
      /\ PairsLeft(domains', rows', Live', Settled(after)) = PairsLeft(domains, rows, Live, jobs[r])
      /\ Apart(Settled(after)) /\ UnmapsOwn(rows', Settled(after))
      /\ Served(domains', rows', Live', Settled(after), expected[r].refused)
  BY <1>2, <1>4, <1>6, <1>7, <1>8, SettledLeaves
<1> QED
  BY <1>3, <1>4, <1>5, <1>9

(* A line that ends with an error takes its request off course.            *)
LEMMA LineBroken ==
  ASSUME Inv, OnCourse, NEW r \in Requests, NEW i \in DOMAIN jobs[r], LineFails(r, i)
  PROVE  OnCourse'
<1>1. DOMAIN expected = Requests
  BY DEF Inv, TypeOK
<1>2. \A q \in Requests : expected'[q] = IF q = r THEN Nothing ELSE expected[q]
  BY <1>1 DEF LineFails
<1>3. jobs[r] # <<>>
  OBVIOUS
<1>4. ASSUME NEW q \in Requests, expected'[q] # Nothing PROVE FALSE
  <2>1. q # r /\ expected[q] # Nothing
    BY <1>2, <1>4
  <2> QED
    BY <1>3, <2>1 DEF OnCourse
<1> QED
  BY <1>4 DEF OnCourse

(* No line has looked at its domain yet, and lines that name the same one  *)
(* name users.                                                             *)
Fresh(js) ==
  /\ \A n \in DOMAIN js : js[n].at \notin {"create", "revive"}
  /\ \A m, n \in DOMAIN js :
       Creates(js[m]) /\ Creates(js[n]) /\ js[m].domain = js[n].domain /\ m # n
         => js[m].user # NoUser

(* A request begins with the lines that lead to what it is expected to     *)
(* leave.                                                                  *)
LEMMA BeginsOnCourse ==
  ASSUME Inv, NEW r \in Requests, NEW js, NEW ds, NEW ps, Begin(r, js, ds, ps),
         Apart(js), UnmapsOwn(rows', js),
         ds = DomainsLeft(domains', js),
         ps = PairsLeft(domains', rows', Live', js), Fresh(js)
  PROVE  OnCourse'
<1>1. DOMAIN jobs = Requests
  BY DEF Inv, TypeOK
<1>2. /\ jobs' = [jobs EXCEPT ![r] = js]
      /\ \A q \in Requests :
           expected'[q] = IF q # r \/ \E b \in Requests : Busy(b) THEN Nothing
                          ELSE [domains |-> ds, pairs |-> ps, refused |-> {}]
  BY DEF Begin
<1>3. ASSUME NEW q \in Requests, expected'[q] # Nothing
      PROVE  /\ \A b \in Requests \ {q} : jobs'[b] = <<>>
             /\ Apart(jobs'[q]) /\ UnmapsOwn(rows', jobs'[q])
             /\ Served(domains', rows', Live', jobs'[q], expected'[q].refused)
             /\ expected'[q].domains = DomainsLeft(domains', jobs'[q])
             /\ expected'[q].pairs = PairsLeft(domains', rows', Live', jobs'[q])
                                       \cup expected'[q].refused
  <2>1. /\ q = r /\ \A b \in Requests : ~Busy(b)
        /\ expected'[q].domains = ds /\ expected'[q].pairs = ps /\ expected'[q].refused = {}
    BY <1>2, <1>3
  <2>2. jobs'[q] = js /\ \A b \in Requests \ {q} : jobs'[b] = <<>>
    BY <1>1, <1>2, <2>1 DEF Busy
  <2>3. Served(domains', rows', Live', js, {})
    BY DEF Served, Fresh
  <2> QED
    BY <2>1, <2>2, <2>3
<1> QED
  BY <1>3 DEF OnCourse

LEMMA RequestsBeginOnCourse ==
  ASSUME Inv, NEW r \in Requests,
         \/ \E file \in NonEmpty(Domains) : \E accepted \in SUBSET file : UploadDomains(r, file, accepted)
         \/ \E L \in NonEmpty(Lines) : \E lines \in [L -> Row] : UploadUsers(r, lines)
         \/ \E u \in Users, ds \in NonEmpty(Domains) : UploadOwn(r, u, ds) \/ MapDomains(r, u, ds)
         \/ \E i \in DOMAIN rows : UnmapFind(r, i)
         \/ \E d \in Domains : RemoveDomain(r, d)
  PROVE  OnCourse'
<1>t. /\ domains \in [Domains -> {"absent", "live", "deleted"}]
      /\ deleted \subseteq DOMAIN rows
      /\ \A k \in DOMAIN rows : rows[k] \in Row /\ rows[k].user \in Users /\ rows[k].domain \in Domains
  BY RowsTyped DEF Inv, TypeOK
<1>0. \A u, d : /\ Creates(Job0(u, d)) /\ ~Ends(Job0(u, d)) /\ ~Cuts(Job0(u, d))
                /\ Job0(u, d).at = "domain" /\ Job0(u, d).domain = d /\ Job0(u, d).user = u
  BY DEF Job0, Creates, Ends, Cuts
<1>1. ASSUME NEW file \in SUBSET Domains, NEW accepted \in SUBSET file, UploadDomains(r, file, accepted)
      PROVE  OnCourse'
  <2> DEFINE missing == { d \in Domains : domains[d] # "absent" } \ file
             find(d) == [at |-> "find", domain |-> d]
             js == [d \in accepted \cup missing |->
                      IF d \in accepted THEN Job0(NoUser, d) ELSE find(d)]
             ds == accepted \cup (LiveDomains \cap file)
             ps == { p \in LivePairs : p.domain \in file \/ domains[p.domain] # "live" }
  <2>1. Begin(r, js, ds, ps) /\ UNCHANGED <<domains, rows, deleted>>
    BY <1>1 DEF UploadDomains
  <2>2. \A d : find(d).at = "find" /\ find(d).domain = d
    OBVIOUS
  <2>3. /\ DOMAIN js = accepted \cup missing
        /\ \A d \in accepted : js[d] = Job0(NoUser, d)
        /\ \A d \in missing : d \notin accepted /\ js[d] = find(d)
    OBVIOUS
  <2>4. \A d \in missing : d \in Domains /\ d \notin file /\ domains[d] # "absent"
    OBVIOUS
  <2>5. \A d \in Domains : domains[d] = "live" => d \in file \/ d \in missing
    OBVIOUS
  <2> HIDE DEF js, find, missing
  <2>6. \A d \in DOMAIN js : js[d].domain = d
    BY <1>0, <2>2, <2>3
  <2>7. /\ \A d \in accepted : Creates(js[d]) /\ ~Ends(js[d]) /\ js[d].at = "domain"
                               /\ js[d].user = NoUser
        /\ \A d \in missing : ~Creates(js[d]) /\ Ends(js[d]) /\ js[d].at = "find"
    BY <1>0, <2>2, <2>3 DEF Creates, Ends
  <2>8. Apart(js) /\ UnmapsOwn(rows', js) /\ Fresh(js)
    BY <2>3, <2>6, <2>7 DEF Apart, UnmapsOwn, Fresh
  <2>9. ds = DomainsLeft(domains', js)
    <3>1. \A d \in Domains : d \in DomainsLeft(domains', js) <=>
            d \in accepted \/ (domains[d] = "live" /\ d \notin missing)
      BY <2>1, <2>3, <2>6, <2>7 DEF DomainsLeft
    <3>2. DomainsLeft(domains', js) \subseteq Domains /\ ds \subseteq Domains
      BY DEF DomainsLeft, LiveDomains
    <3>3. \A d \in Domains : d \in ds <=> d \in accepted \/ (domains[d] = "live" /\ d \in file)
      BY DEF LiveDomains
    <3> QED
      BY <2>4, <2>5, <3>1, <3>2, <3>3
  <2>10. ps = PairsLeft(domains', rows', Live', js)
    <3>1. \A n \in DOMAIN js : \A p : ~Gives(rows, js[n], p)
      BY <2>3, <2>7 DEF Gives, Maps
    <3>2. ASSUME NEW k \in Live
          PROVE  (\A n \in DOMAIN js : ~Takes(domains, rows, js[n], k))
                   <=> rows[k].domain \in file \/ domains[rows[k].domain] # "live"
      <4>1. \A n \in accepted : \A e : ~Takes(domains, rows, js[n], e)
        BY <2>7 DEF Takes
      <4>2. \A n \in missing : Takes(domains, rows, js[n], k)
                                 <=> domains[n] = "live" /\ rows[k].domain = n
        BY <2>3, <2>6, <2>7 DEF Takes
      <4>3. rows[k].domain \in Domains
        BY <1>t DEF Live
      <4> QED
        BY <2>3, <2>4, <2>5, <4>1, <4>2, <4>3
    <3>3. \A k \in Live : rows[k] \in Row
      BY <1>t DEF Live
    <3>4. Live' = Live
      BY <2>1 DEF Live
    <3>5. PairsLeft(domains, rows, Live, js) = ps
      BY <3>1, <3>2, <3>3 DEF PairsLeft, LivePairs
    <3> QED
      BY <2>1, <3>4, <3>5
  <2> HIDE DEF ds, ps
  <2> QED
    BY <2>1, <2>8, <2>9, <2>10, BeginsOnCourse
<1>2. ASSUME NEW P \in SUBSET Lines, NEW lines \in [P -> Row], UploadUsers(r, lines)
      PROVE  OnCourse'
  <2> DEFINE js == [i \in DOMAIN lines |-> Job0(lines[i].user, lines[i].domain)]
             ds == LiveDomains \cup { lines[i].domain : i \in DOMAIN lines }
             ps == { lines[i] : i \in DOMAIN lines }
  <2>1. Begin(r, js, ds, ps) /\ deleted' = DOMAIN rows /\ UNCHANGED <<domains, rows>>
    BY <1>2 DEF UploadUsers
  <2>2. /\ DOMAIN js = P /\ DOMAIN lines = P
        /\ \A n \in P : /\ Creates(js[n]) /\ ~Ends(js[n]) /\ ~Cuts(js[n]) /\ js[n].at = "domain"
                        /\ js[n].domain = lines[n].domain /\ js[n].user = lines[n].user
    BY <1>0
  <2>3. \A n \in P : /\ lines[n] \in Row /\ lines[n].user \in Users /\ lines[n].domain \in Domains
                     /\ lines[n] = [user |-> lines[n].user, domain |-> lines[n].domain]
    BY DEF Row
  <2> HIDE DEF js
  <2>4. Apart(js) /\ UnmapsOwn(rows', js) /\ Fresh(js)
    BY <2>2, <2>3, NoUserAssumption DEF Apart, UnmapsOwn, Fresh
  <2>5. ds = DomainsLeft(domains', js)
    BY <2>1, <2>2, <2>3 DEF DomainsLeft, LiveDomains
  <2>6. ps = PairsLeft(domains', rows', Live', js)
    <3>1. Live' = {}
      BY <2>1 DEF Live
    <3>2. \A n \in P : \A p : Gives(rows', js[n], p) <=> p = lines[n]
      BY <2>2, <2>3, NoUserAssumption DEF Gives, Maps
    <3> QED
      BY <2>2, <2>3, <3>1, <3>2 DEF PairsLeft
  <2> HIDE DEF ds, ps
  <2> QED
    BY <2>1, <2>4, <2>5, <2>6, BeginsOnCourse
<1>3. ASSUME NEW u \in Users, NEW D \in SUBSET Domains
      PROVE  LET js == LinesOf(u, D)
             IN  /\ Apart(js) /\ UnmapsOwn(rows, js) /\ Fresh(js)
                 /\ LiveDomains \cup D = DomainsLeft(domains, js)
                 /\ \A live \in SUBSET DOMAIN rows :
                      { rows[k] : k \in live } \cup Pairs(u, D)
                        = PairsLeft(domains, rows, live, js)
  <2> DEFINE js == LinesOf(u, D)
  <2>1. /\ DOMAIN js = D
        /\ \A n \in D : /\ Creates(js[n]) /\ ~Ends(js[n]) /\ ~Cuts(js[n]) /\ js[n].at = "domain"
                        /\ js[n].domain = n /\ js[n].user = u
    BY <1>0 DEF LinesOf
  <2> HIDE DEF js
  <2>2. Apart(js) /\ UnmapsOwn(rows, js) /\ Fresh(js)
    BY <2>1 DEF Apart, UnmapsOwn, Fresh
  <2>3. LiveDomains \cup D = DomainsLeft(domains, js)
    BY <2>1 DEF DomainsLeft, LiveDomains
  <2>4. ASSUME NEW live \in SUBSET DOMAIN rows
        PROVE  { rows[k] : k \in live } \cup Pairs(u, D) = PairsLeft(domains, rows, live, js)
    <3>1. \A n \in D : \A p : Gives(rows, js[n], p) <=> p = [user |-> u, domain |-> n]
      BY <2>1, NoUserAssumption DEF Gives, Maps
    <3>2. \A n \in D : \A k : ~Takes(domains, rows, js[n], k)
      BY <2>1 DEF Takes
    <3>3. Pairs(u, D) = { [user |-> u, domain |-> n] : n \in D }
      <4>1. ASSUME NEW p \in Pairs(u, D) PROVE \E n \in D : p = [user |-> u, domain |-> n]
        <5>1. p \in [user : {u}, domain : D]
          BY DEF Pairs
        <5>2. p.user = u /\ p.domain \in D /\ p = [user |-> p.user, domain |-> p.domain]
          BY <5>1
        <5> QED
          BY <5>2
      <4>2. \A n \in D : [user |-> u, domain |-> n] \in Pairs(u, D)
        BY DEF Pairs
      <4> QED
        BY <4>1, <4>2
    <3>4. \A n \in D : [user |-> u, domain |-> n] \in Row
      BY DEF Row
    <3>5. \A k \in live : rows[k] \in Row
      BY <1>t
    <3> QED
      BY <2>1, <3>1, <3>2, <3>3, <3>4, <3>5 DEF PairsLeft
  <2> QED
    BY <2>2, <2>3, <2>4 DEF js
<1>4. ASSUME NEW u \in Users, NEW D \in SUBSET Domains, UploadOwn(r, u, D) PROVE OnCourse'
  <2> DEFINE js == LinesOf(u, D)
             ps == { p \in LivePairs : p.user # u } \cup Pairs(u, D)
  <2>1. /\ Begin(r, js, LiveDomains \cup D, ps) /\ UNCHANGED <<domains, rows>>
        /\ deleted' = deleted \cup { i \in DOMAIN rows : rows[i].user = u }
    BY <1>4 DEF UploadOwn
  <2>2. { rows[k] : k \in Live' } = { p \in LivePairs : p.user # u }
    BY <2>1 DEF Live, LivePairs
  <2>3. Live' \in SUBSET DOMAIN rows
    BY <2>1 DEF Live
  <2>4. { rows[k] : k \in Live' } \cup Pairs(u, D) = PairsLeft(domains, rows, Live', js)
    BY <1>3, <2>3
  <2>5. /\ Apart(js) /\ UnmapsOwn(rows, js) /\ Fresh(js)
        /\ LiveDomains \cup D = DomainsLeft(domains, js)
        /\ ps = PairsLeft(domains, rows, Live', js)
    BY <1>3, <2>2, <2>4
  <2> HIDE DEF js, ps
  <2> QED
    BY <2>1, <2>5, BeginsOnCourse
<1>5. ASSUME NEW u \in Users, NEW D \in SUBSET Domains, MapDomains(r, u, D) PROVE OnCourse'
  <2> DEFINE js == LinesOf(u, D)
             ps == LivePairs \cup Pairs(u, D)
  <2>1. Begin(r, js, LiveDomains \cup D, ps) /\ UNCHANGED <<domains, rows, deleted>>
    BY <1>5 DEF MapDomains
  <2>2. Live' = Live /\ Live \in SUBSET DOMAIN rows
    BY <2>1 DEF Live
  <2>3. /\ Apart(js) /\ UnmapsOwn(rows, js) /\ Fresh(js)
        /\ LiveDomains \cup D = DomainsLeft(domains, js)
        /\ ps = PairsLeft(domains, rows, Live, js)
    BY <1>3, <2>2 DEF LivePairs
  <2> HIDE DEF js, ps
  <2> QED
    BY <2>1, <2>2, <2>3, BeginsOnCourse
<1>6. ASSUME NEW i \in DOMAIN rows, UnmapFind(r, i) PROVE OnCourse'
  <2> DEFINE e == rows[i].domain
             job == [at |-> "unmap", domain |-> e, row |-> i]
             js == [d \in {e} |-> [at |-> "unmap", domain |-> d, row |-> i]]
             ps == { rows[k] : k \in Live \ {i} }
  <2>1. Begin(r, js, LiveDomains, ps) /\ UNCHANGED <<domains, rows, deleted>>
    BY <1>6 DEF UnmapFind
  <2>2. /\ DOMAIN js = {e} /\ js[e] = job
        /\ job.at = "unmap" /\ job.domain = e /\ job.row = i
    OBVIOUS
  <2>3. ~Creates(job) /\ ~Ends(job)
    BY <2>2 DEF Creates, Ends
  <2> HIDE DEF js, job
  <2>4. Apart(js) /\ UnmapsOwn(rows', js) /\ Fresh(js)
    BY <2>1, <2>2 DEF Apart, UnmapsOwn, Fresh
  <2>5. LiveDomains = DomainsLeft(domains', js)
    BY <2>1, <2>2, <2>3 DEF DomainsLeft, LiveDomains
  <2>6. ps = PairsLeft(domains', rows', Live', js)
    <3>1. /\ \A p : ~Gives(rows, js[e], p)
          /\ \A k : Takes(domains, rows, js[e], k) <=> k = i
      BY <2>2 DEF Gives, Takes, Maps
    <3>2. \A k \in Live : rows[k] \in Row
      BY <1>t DEF Live
    <3>3. Live' = Live
      BY <2>1 DEF Live
    <3>4. ps = PairsLeft(domains, rows, Live, js)
      BY <2>2, <3>1, <3>2 DEF PairsLeft
    <3> QED
      BY <2>1, <3>3, <3>4
  <2> HIDE DEF ps
  <2> QED
    BY <2>1, <2>4, <2>5, <2>6, BeginsOnCourse
<1>7. ASSUME NEW d \in Domains, RemoveDomain(r, d) PROVE OnCourse'
  <2> DEFINE job == [at |-> "delete", domain |-> d]
             js == [e \in {d} |-> [at |-> "delete", domain |-> e]]
             ps == { p \in LivePairs : p.domain # d }
  <2>1. Begin(r, js, LiveDomains \ {d}, ps) /\ UNCHANGED <<domains, rows, deleted>>
    BY <1>7 DEF RemoveDomain
  <2>2. DOMAIN js = {d} /\ js[d] = job /\ job.at = "delete" /\ job.domain = d
    OBVIOUS
  <2>3. ~Creates(job) /\ Ends(job)
    BY <2>2 DEF Creates, Ends
  <2> HIDE DEF js, job
  <2>4. Apart(js) /\ UnmapsOwn(rows', js) /\ Fresh(js)
    BY <2>1, <2>2 DEF Apart, UnmapsOwn, Fresh
  <2>5. LiveDomains \ {d} = DomainsLeft(domains', js)
    BY <2>1, <2>2, <2>3 DEF DomainsLeft, LiveDomains
  <2>6. ps = PairsLeft(domains', rows', Live', js)
    <3>1. /\ \A p : ~Gives(rows, js[d], p)
          /\ \A k : Takes(domains, rows, js[d], k) <=> rows[k].domain = d
      BY <2>2 DEF Gives, Takes, Maps
    <3>2. \A k \in Live : rows[k] \in Row
      BY <1>t DEF Live
    <3>3. Live' = Live
      BY <2>1 DEF Live
    <3>4. ps = PairsLeft(domains, rows, Live, js)
      BY <2>2, <3>1, <3>2 DEF PairsLeft, LivePairs
    <3> QED
      BY <2>1, <3>3, <3>4
  <2> HIDE DEF ps
  <2> QED
    BY <2>1, <2>4, <2>5, <2>6, BeginsOnCourse
<1> QED
  BY <1>1, <1>2, <1>4, <1>5, <1>6, <1>7 DEF NonEmpty

(* What the lines of a request that is on course have in common.           *)
LEMMA CourseFacts ==
  ASSUME Inv, OnCourse, NEW r \in Requests, NEW i \in DOMAIN jobs[r], expected[r] # Nothing
  PROVE  /\ Apart(jobs[r]) /\ UnmapsOwn(rows, jobs[r])
         /\ \A n \in DOMAIN jobs[r] :
              /\ jobs[r][n] \in Job
              /\ jobs[r][n].at = "undelete" => jobs[r][n].row \in DOMAIN rows
              /\ Ends(jobs[r][n]) => Cuts(jobs[r][n])
<1>1. \A n \in DOMAIN jobs[r] : jobs[r][n] \in Job /\ (Rows(jobs[r][n]) => jobs[r][n].row \in DOMAIN rows)
  BY LineTyped
<1> QED
  BY <1>1 DEF OnCourse, Rows, Ends, Cuts

(* The line as it goes on.                                                 *)
LEMMA LineGoesOn ==
  ASSUME Inv, NEW r \in Requests, NEW i \in DOMAIN jobs[r], NEW job, job.domain = jobs[r][i].domain,
         Become(r, i, job)
  PROVE  \E after : /\ jobs' = [jobs EXCEPT ![r] = Settled(after)]
                    /\ LineAs(jobs[r], i, job, after)
                    /\ expected' = expected
<1> DEFINE after == [jobs[r] EXCEPT ![i] = job]
<1>1. jobs' = [jobs EXCEPT ![r] = Settled(after)] /\ expected' = expected
  BY DEF Become
<1>2. jobs[r] \in [DOMAIN jobs[r] -> Job]
  BY DEF Inv, TypeOK
<1>3. LineAs(jobs[r], i, job, after)
  BY <1>2 DEF LineAs
<1> HIDE DEF after
<1> QED
  BY <1>1, <1>3

(* A line goes on and leaves the rows alone, gives and takes what it did.  *)
LEMMA LineMoves ==
  ASSUME Inv, OnCourse, NEW r \in Requests, NEW i \in DOMAIN jobs[r], NEW job,
         Become(r, i, job), job.domain = jobs[r][i].domain,
         job.at # "unmap", Cuts(job) => Cuts(jobs[r][i]),
         UNCHANGED <<rows, deleted>>,
         \A d \in Domains : d # job.domain => domains'[d] = domains[d],
         domains' = domains \/ Creates(jobs[r][i]) \/ Cuts(jobs[r][i]),
         \/ /\ Creates(jobs[r][i])
            /\ Creates(job) \/ (domains'[job.domain] = "live" /\ ~Ends(job))
         \/ /\ ~Creates(jobs[r][i]) /\ ~Creates(job)
            /\ (domains'[job.domain] = "live" /\ ~Ends(job))
                 <=> (domains[job.domain] = "live" /\ ~Ends(jobs[r][i])),
         Leads(jobs[r][i], job, domains, domains'), Writes(jobs[r][i]) => Writes(job),
         \A k \in Live : Takes(domains', rows, job, k) <=> Takes(domains, rows, jobs[r][i], k),
         \A p \in Row : Gives(rows, job, p) <=> Gives(rows, jobs[r][i], p)
  PROVE  OnCourse'
<1> DEFINE js == jobs[r]
           old == js[i]
<1>1. PICK after : /\ jobs' = [jobs EXCEPT ![r] = Settled(after)]
                   /\ LineAs(js, i, job, after)
                   /\ expected' = expected
  BY LineGoesOn
<1>2. ASSUME expected[r] # Nothing
      PROVE  /\ DomainsLeft(domains', after) = DomainsLeft(domains, js)
             /\ PairsLeft(domains', rows', Live', after) = PairsLeft(domains, rows, Live, js)
  <2>1. /\ Apart(js)
        /\ \A n \in DOMAIN js : js[n] \in Job /\ (Ends(js[n]) => Cuts(js[n]))
    BY <1>2, CourseFacts
  <2>2. \A n \in DOMAIN js \ {i} : Cuts(js[n]) => js[n].domain # job.domain
    BY <2>1 DEF Apart
  <2>3. DomainsLeft(domains', after) = DomainsLeft(domains, js)
    <3>1. \A n \in DOMAIN js \ {i} : Ends(js[n]) => js[n].domain # job.domain
      BY <2>1, <2>2
    <3> HIDE DEF js
    <3> QED
      BY <1>1, <3>1, DomainsStay DEF js
  <2>4. ASSUME NEW n \in DOMAIN js \ {i}, NEW k \in Live
        PROVE  Takes(domains', rows, js[n], k) <=> Takes(domains, rows, js[n], k)
    <3>1. js[n].at = "find" => js[n].domain # job.domain /\ js[n].domain \in Domains
      BY <2>1, <2>2 DEF Ends, Job
    <3> QED
      BY <3>1 DEF Takes
  <2>5. PairsLeft(domains', rows, Live, after) = PairsLeft(domains, rows, Live, js)
    BY <1>1, <2>4, PairsStay
  <2> QED
    BY <2>3, <2>5 DEF Live
<1>3. Keeps(old, job, rows, rows', Live, Live')
  BY DEF Keeps, Live
<1> QED
  BY <1>1, <1>2, <1>3, LineStays

(* A line that is refused hands its pair to those that were refused, and   *)
(* another line of the request has brought its domain.                     *)
LEMMA RefusalStaysOnCourse ==
  ASSUME Inv, OnCourse, NEW r \in Requests, NEW i \in DOMAIN jobs[r], LineRefused(r, i),
         jobs[r][i].at = "create", domains[jobs[r][i].domain] # "absent"
  PROVE  OnCourse'
<1> DEFINE js == jobs[r]
           old == js[i]
           d == old.domain
           job == Done(d)
           after == [js EXCEPT ![i] = job]
           given == { p \in Row : Gives(rows, old, p) }
<1>1. /\ jobs' = [jobs EXCEPT ![r] = Settled(after)]
      /\ UNCHANGED <<domains, rows, deleted>> /\ Live' = Live
  BY DEF LineRefused, LineEnds, Live
<1>2. SUFFICES ASSUME NEW q \in Requests, expected'[q] # Nothing
               PROVE  /\ \A b \in Requests \ {q} : jobs'[b] = <<>>
                      /\ Apart(jobs'[q]) /\ UnmapsOwn(rows, jobs'[q])
                      /\ Served(domains, rows, Live, jobs'[q], expected'[q].refused)
                      /\ expected'[q].domains = DomainsLeft(domains, jobs'[q])
                      /\ expected'[q].pairs = PairsLeft(domains, rows, Live, jobs'[q])
                                                \cup expected'[q].refused
  BY <1>1 DEF OnCourse
<1>3. expected[q] # Nothing
  BY <1>2, RefusalTyped
<1>4. q = r /\ \A b \in Requests \ {r} : jobs[b] = <<>>
  BY <1>3 DEF OnCourse
<1>5. /\ expected[r].domains = DomainsLeft(domains, js)
      /\ expected[r].pairs = PairsLeft(domains, rows, Live, js) \cup expected[r].refused
      /\ Served(domains, rows, Live, js, expected[r].refused)
      /\ Apart(js) /\ UnmapsOwn(rows, js)
  BY <1>3, <1>4 DEF OnCourse
<1>6. /\ expected'[r].domains = expected[r].domains /\ expected'[r].pairs = expected[r].pairs
      /\ expected'[r].refused = expected[r].refused \cup given
  BY <1>3, <1>4, RefusalTyped
<1>7. DOMAIN jobs = Requests /\ js \in [DOMAIN js -> Job]
      /\ \A n \in DOMAIN js : js[n].domain \in Domains /\ (Ends(js[n]) => Cuts(js[n]))
  BY LineTyped DEF Inv, TypeOK, Ends, Cuts
<1>8. LineAs(js, i, job, after) /\ job.domain = d /\ job.at = "done"
  BY <1>7 DEF LineAs, Done
<1>9. jobs'[r] = Settled(after) /\ \A b \in Requests \ {r} : jobs'[b] = <<>>
  BY <1>1, <1>4, <1>7
<1> HIDE DEF after, job
<1>10. domains[d] = "live" /\ Reaches(rows, Live, js, d)
  BY <1>5 DEF Served
<1>11. /\ Creates(old) /\ ~Writes(old) /\ ~Cuts(old) /\ old.at # "unmap"
       /\ ~Creates(job) /\ ~Cuts(job) /\ ~Ends(job)
       /\ \A k : ~Takes(domains, rows, old, k) /\ ~Takes(domains, rows, job, k)
       /\ \A p : ~Gives(rows, job, p) /\ (Gives(rows, old, p) => p.domain = d)
  BY <1>8 DEF Creates, Writes, Cuts, Ends, Takes, Gives, Maps
<1>12. \A n \in DOMAIN js : Cuts(js[n]) \/ js[n].at = "unmap" => js[n].domain # d
  BY <1>5, <1>11 DEF Apart
<1>13. DomainsLeft(domains, after) = DomainsLeft(domains, js)
  <2> HIDE DEF js, d
  <2>1. \A n \in DOMAIN js \ {i} : Ends(js[n]) => js[n].domain # job.domain
    BY <1>7, <1>8, <1>12
  <2> QED
    BY <1>8, <1>10, <1>11, <2>1, DomainsStay
<1>14. PairsLeft(domains, rows, Live, js) = PairsLeft(domains, rows, Live, after) \cup given
  <2>1. ASSUME NEW k \in Live
        PROVE  (\A n \in DOMAIN after : ~Takes(domains, rows, after[n], k))
                 <=> (\A n \in DOMAIN js : ~Takes(domains, rows, js[n], k))
    BY <1>8, <1>11 DEF LineAs
  <2>2. ASSUME NEW p \in Row
        PROVE  (\E n \in DOMAIN js : Gives(rows, js[n], p))
                 <=> (\E n \in DOMAIN after : Gives(rows, after[n], p)) \/ p \in given
    BY <1>8, <1>11 DEF LineAs
  <2> QED
    BY <2>1, <2>2 DEF PairsLeft
<1>15. Leads(old, job, domains, domains) /\ Keeps(old, job, rows, rows, Live, Live)
  BY <1>8, <1>11 DEF Leads, Keeps
<1>16. Served(domains, rows, Live, after, expected[r].refused)
  BY <1>5, <1>7, <1>8, <1>15, ServedStays
<1>17. Reaches(rows, Live, after, d)
  BY <1>8, <1>10, <1>11, <1>15, ReachStays
<1>18. \A n \in DOMAIN after :
         /\ after[n].domain = js[n].domain
         /\ Cuts(after[n]) \/ after[n].at = "unmap" => after[n] = js[n] /\ n \in DOMAIN js
  BY <1>8, <1>11 DEF LineAs
<1>19. Served(domains, rows, Live, after, expected'[r].refused)
  <2>1. \A p \in given : p.domain = d
    BY <1>11
  <2>2. \A n \in DOMAIN after : Cuts(after[n]) \/ after[n].at = "unmap" => after[n].domain # d
    BY <1>12, <1>18
  <2> HIDE DEF given, d
  <2> QED
    BY <1>6, <1>16, <1>17, <2>1, <2>2 DEF Served
<1>20. Apart(after) /\ UnmapsOwn(rows, after)
  <2>1. DOMAIN after = DOMAIN js
    BY <1>8 DEF LineAs
  <2> QED
    BY <1>5, <1>18, <2>1 DEF Apart, UnmapsOwn
<1>21. /\ DomainsLeft(domains, Settled(after)) = DomainsLeft(domains, js)
       /\ PairsLeft(domains, rows, Live, Settled(after)) = PairsLeft(domains, rows, Live, after)
       /\ Apart(Settled(after)) /\ UnmapsOwn(rows, Settled(after))
       /\ Served(domains, rows, Live, Settled(after), expected'[r].refused)
  BY <1>13, <1>19, <1>20, SettledLeaves
<1>22. expected'[r].pairs = PairsLeft(domains, rows, Live, after) \cup expected'[r].refused
  BY <1>5, <1>6, <1>14
<1> QED
  BY <1>4, <1>5, <1>6, <1>9, <1>21, <1>22

LEMMA DomainStepsStayOnCourse ==
  ASSUME Inv, OnCourse, NEW r \in Requests, NEW i \in DOMAIN jobs[r],
         DomainFind(r, i) \/ DomainCreate(r, i) \/ DomainRevive(r, i)
  PROVE  OnCourse'
<1> DEFINE old == jobs[r][i]
           d == old.domain
<1>o. /\ old \in Job /\ d \in Domains
      /\ domains \in [Domains -> {"absent", "live", "deleted"}]
  BY LineFacts
<1>a. old.at \in {"domain", "create", "revive"} /\ Creates(old)
  BY DEF DomainFind, DomainCreate, DomainRevive, Creates
<1>b. \A s \in {"create", "revive", "mapping"} :
           /\ [old EXCEPT !.at = s].at = s
           /\ [old EXCEPT !.at = s].domain = d
           /\ [old EXCEPT !.at = s].user = old.user
  BY <1>o, <1>a DEF Job
<1>1. ASSUME NEW job, Become(r, i, job), job.domain = d,
             job.at \in {"create", "revive", "mapping", "done"},
             IF job.at \in {"create", "revive"}
             THEN /\ domains' = domains
                  /\ IF job.at = "create" THEN domains[d] = "absent" ELSE domains[d] # "absent"
             ELSE domains'[d] = "live",
             job.at = "done" => old.user = NoUser,
             job.at # "done" => job.user = old.user,
             \A e \in Domains : e # d => domains'[e] = domains[e],
             UNCHANGED <<rows, deleted>>
      PROVE  OnCourse'
  <2>1. /\ job.at # "unmap" /\ ~Cuts(job) /\ ~Ends(job)
        /\ Creates(job) \/ domains'[d] = "live"
    BY <1>1 DEF Cuts, Ends, Creates
  <2>2. \A k : ~Takes(domains', rows, job, k) /\ ~Takes(domains, rows, old, k)
    BY <1>1, <1>a DEF Takes
  <2>3. \A p : Gives(rows, job, p) <=> Gives(rows, old, p)
    BY <1>1, <1>a DEF Gives, Maps
  <2>4. ~Writes(old) /\ (job.at = "mapping" => Writes(job)) /\ (Creates(job) => job.at # "done")
    BY <1>a DEF Writes, Creates
  <2>5. Leads(old, job, domains, domains')
    BY <1>1, <1>a, <2>1, <2>4 DEF Leads
  <2> HIDE DEF d
  <2> QED
    BY <1>1, <1>a, <2>1, <2>2, <2>3, <2>4, <2>5, LineMoves DEF d
<1>2. ASSUME DomainIsThere(r, i), domains'[d] = "live",
             \A e \in Domains : e # d => domains'[e] = domains[e],
             UNCHANGED <<rows, deleted>>
      PROVE  OnCourse'
  <2>1. CASE old.user = NoUser
    <3>1. Become(r, i, Done(d)) /\ Done(d).at = "done" /\ Done(d).domain = d
      BY <1>2, <2>1 DEF DomainIsThere, Done
    <3> QED
      BY <1>1, <1>2, <2>1, <3>1
  <2>2. CASE old.user # NoUser
    <3> DEFINE job == [old EXCEPT !.at = "mapping"]
    <3>1. Become(r, i, job)
      BY <1>2, <2>2 DEF DomainIsThere
    <3>2. job.at = "mapping" /\ job.domain = d /\ job.user = old.user
      BY <1>b
    <3> HIDE DEF job
    <3> QED
      BY <1>1, <1>2, <3>1, <3>2
  <2> QED
    BY <2>1, <2>2
<1>3. CASE DomainFind(r, i)
  <2>1. UNCHANGED <<domains, rows, deleted>>
    BY <1>3 DEF DomainFind
  <2>2. ASSUME NEW s \in {"create", "revive"}, Become(r, i, [old EXCEPT !.at = s]),
               IF s = "create" THEN domains[d] = "absent" ELSE domains[d] # "absent"
        PROVE  OnCourse'
    <3> DEFINE job == [old EXCEPT !.at = s]
    <3>1. job.at = s /\ job.domain = d /\ job.user = old.user /\ Become(r, i, job)
      BY <1>b, <2>2
    <3> HIDE DEF job
    <3> QED
      BY <1>1, <2>1, <2>2, <3>1
  <2>3. CASE domains[d] = "absent"
    BY <1>3, <2>2, <2>3 DEF DomainFind
  <2>4. CASE domains[d] = "deleted"
    BY <1>3, <2>2, <2>4 DEF DomainFind
  <2>5. CASE domains[d] = "live"
    <3>1. DomainIsThere(r, i)
      BY <1>3, <2>5 DEF DomainFind
    <3> QED
      BY <1>2, <2>1, <2>5, <3>1
  <2> QED
    BY <1>o, <2>3, <2>4, <2>5
<1>4. CASE DomainCreate(r, i)
  <2>1. CASE domains[d] = "absent"
    BY <1>2, <1>4, <1>o, <2>1 DEF DomainCreate
  <2>2. CASE domains[d] # "absent"
    BY <1>4, <2>2, RefusalStaysOnCourse DEF DomainCreate
  <2> QED
    BY <2>1, <2>2
<1>5. CASE DomainRevive(r, i)
  BY <1>2, <1>5, <1>o DEF DomainRevive
<1> QED
  BY <1>3, <1>4, <1>5

LEMMA RemovalStepsStayOnCourse ==
  ASSUME Inv, OnCourse, NEW r \in Requests, NEW i \in DOMAIN jobs[r],
         RemovalFind(r, i) \/ RemovalDelete(r, i)
  PROVE  OnCourse'
<1> DEFINE old == jobs[r][i]
           d == old.domain
<1>o. /\ old \in Job /\ d \in Domains
      /\ domains \in [Domains -> {"absent", "live", "deleted"}]
  BY LineFacts
<1>a. /\ old.at \in {"find", "delete"} /\ ~Creates(old) /\ Ends(old) /\ Cuts(old)
      /\ \A p : ~Gives(rows, old, p)
  BY DEF RemovalFind, RemovalDelete, Creates, Ends, Cuts, Gives, Maps
<1>1. ASSUME NEW job, Become(r, i, job), job.domain = d,
             job.at \in {"delete", "cut", "done"},
             job.at \in {"delete", "cut"} <=> old.at = "delete" \/ domains[d] = "live",
             job.at # "delete" => domains'[d] # "live",
             domains'[d] = domains[d] \/ domains'[d] = "deleted",
             \A e \in Domains : e # d => domains'[e] = domains[e],
             UNCHANGED <<rows, deleted>>
      PROVE  OnCourse'
  <2>1. /\ job.at # "unmap" /\ ~Creates(job) /\ ~(domains'[d] = "live" /\ ~Ends(job))
        /\ \A p : ~Gives(rows, job, p)
    BY <1>1 DEF Ends, Creates, Gives, Maps
  <2>2. \A k : Takes(domains', rows, job, k) <=> Takes(domains, rows, old, k)
    BY <1>1, <1>a DEF Takes
  <2>3. ~Writes(old) /\ Leads(old, job, domains, domains')
    BY <1>1, <1>a, <2>1 DEF Writes, Leads
  <2> HIDE DEF d
  <2> QED
    BY <1>1, <1>a, <2>1, <2>2, <2>3, LineMoves DEF d
<1>2. CASE RemovalFind(r, i)
  <2>1. old.at = "find" /\ UNCHANGED <<domains, rows, deleted>>
    BY <1>2 DEF RemovalFind
  <2>2. CASE domains[d] = "live"
    <3> DEFINE job == [at |-> "delete", domain |-> d]
    <3>1. job.at = "delete" /\ job.domain = d /\ Become(r, i, job)
      BY <1>2, <2>2 DEF RemovalFind
    <3> HIDE DEF job
    <3> QED
      BY <1>1, <2>1, <2>2, <3>1
  <2>3. CASE domains[d] # "live"
    <3>1. Become(r, i, Done(d)) /\ Done(d).at = "done" /\ Done(d).domain = d
      BY <1>2, <2>3 DEF RemovalFind, Done
    <3> QED
      BY <1>1, <2>1, <2>3, <3>1
  <2> QED
    BY <2>2, <2>3
<1>3. CASE RemovalDelete(r, i)
  <2> DEFINE job == [old EXCEPT !.at = "cut"]
  <2>1. /\ old.at = "delete" /\ domains' = [domains EXCEPT ![d] = "deleted"]
        /\ UNCHANGED <<rows, deleted>> /\ Become(r, i, job)
    BY <1>3 DEF RemovalDelete
  <2>2. job.at = "cut" /\ job.domain = d
    BY <1>o, <2>1 DEF Job
  <2> HIDE DEF job
  <2> QED
    BY <1>1, <1>o, <2>1, <2>2
<1> QED
  BY <1>2, <1>3

(* A line ends by making its pair's row x live, or by finding it so.       *)
LEMMA LineGives ==
  ASSUME Inv, OnCourse, NEW r \in Requests, NEW i \in DOMAIN jobs[r],
         Become(r, i, Done(jobs[r][i].domain)), domains' = domains,
         NEW x, Live' = Live \cup {x},
         \A k \in DOMAIN rows : k \in DOMAIN rows' /\ rows'[k] = rows[k],
         rows'[x].domain = jobs[r][i].domain,
         jobs[r][i].at \in {"mapping", "insert", "undelete"},
         \A p \in Row : Gives(rows, jobs[r][i], p) <=> p = rows'[x]
  PROVE  OnCourse'
<1> DEFINE js == jobs[r]
           old == js[i]
           job == Done(old.domain)
<1>1. job.domain = old.domain /\ job.at = "done"
  BY DEF Done
<1>2. ~Cuts(job) /\ ~Creates(job) /\ ~Ends(job) /\ ~Creates(old) /\ ~Ends(old)
  BY <1>1 DEF Cuts, Creates, Ends
<1> HIDE DEF job
<1>3. PICK after : /\ jobs' = [jobs EXCEPT ![r] = Settled(after)]
                   /\ LineAs(js, i, job, after)
                   /\ expected' = expected
  <2>1. Become(r, i, job)
    BY DEF job
  <2> QED
    BY <1>1, <2>1, LineGoesOn
<1>4. ASSUME expected[r] # Nothing
      PROVE  /\ DomainsLeft(domains', after) = DomainsLeft(domains, js)
             /\ PairsLeft(domains', rows', Live', after) = PairsLeft(domains, rows, Live, js)
  <2>1. /\ Apart(js) /\ UnmapsOwn(rows, js)
        /\ \A n \in DOMAIN js : js[n].at = "undelete" => js[n].row \in DOMAIN rows
    BY <1>4, CourseFacts
  <2>2. \A n \in DOMAIN js \ {i} : Cuts(js[n]) \/ js[n].at = "unmap" => js[n].domain # old.domain
    BY <2>1 DEF Apart
  <2>3. DomainsLeft(domains', after) = DomainsLeft(domains, js)
    BY <1>2, <1>3, DomainsStay
  <2>4. \A k : ~Takes(domains, rows, old, k)
    BY DEF Takes
  <2>5. ASSUME NEW n \in DOMAIN js \ {i} PROVE ~Takes(domains, rows', js[n], x)
    <3>1. js[n].at = "unmap" /\ js[n].row = x => js[n].domain = rows'[x].domain
      BY <2>1 DEF UnmapsOwn
    <3> QED
      BY <2>2, <3>1 DEF Takes, Cuts
  <2>6. ASSUME NEW n \in DOMAIN js \ {i}, NEW p \in Row
        PROVE  Gives(rows', js[n], p) <=> Gives(rows, js[n], p)
    BY <2>1 DEF Gives
  <2>7. \A k \in Live : rows'[k] = rows[k]
    BY DEF Live
  <2>8. PairsLeft(domains, rows', Live', after) = PairsLeft(domains, rows, Live, js)
    <3>1. Given(js, i, domains, rows, rows', Live, Live', x)
      BY <2>4, <2>5, <2>6, <2>7 DEF Given
    <3> HIDE DEF js
    <3>2. QED
      BY <1>1, <1>3, <3>1, PairsGiven
  <2> QED
    BY <2>3, <2>8
<1>5. Keeps(old, job, rows, rows', Live, Live')
  BY DEF Keeps, Live
<1>6. Leads(old, job, domains, domains')
  BY <1>1, <1>2 DEF Leads
<1> QED
  BY <1>1, <1>2, <1>3, <1>4, <1>5, <1>6, LineStays

LEMMA MappingStepsStayOnCourse ==
  ASSUME Inv, OnCourse, NEW r \in Requests, NEW i \in DOMAIN jobs[r],
         MappingFind(r, i) \/ MappingInsert(r, i) \/ MappingUndelete(r, i)
  PROVE  OnCourse'
<1> DEFINE old == jobs[r][i]
           d == old.domain
           pair == [user |-> old.user, domain |-> d]
<1>o. /\ old \in Job /\ d \in Domains
      /\ Writes(old) => Adds(old)
      /\ old.at = "undelete" => old.row \in DOMAIN rows /\ rows[old.row].domain = d
      /\ rows \in Seq(Row) /\ deleted \subseteq DOMAIN rows
  BY LineFacts DEF Rows
<1>a. old.at \in {"mapping", "insert", "undelete"}
  BY DEF MappingFind, MappingInsert, MappingUndelete
<1>m. ASSUME old.at # "undelete" PROVE Maps(old) /\ \A p : Gives(rows, old, p) <=> p = pair
  <2>1. Maps(old)
    BY <1>o, <1>a, <1>m DEF Writes, Adds
  <2> QED
    BY <1>m, <2>1 DEF Gives
<1>1. CASE MappingFind(r, i)
  <2>1. old.at = "mapping" /\ UNCHANGED <<domains, rows, deleted>>
    BY <1>1 DEF MappingFind
  <2>2. ~Creates(old) /\ ~Ends(old) /\ \A k : ~Takes(domains, rows, old, k)
    BY <2>1 DEF Creates, Ends, Takes
  <2>3. ASSUME NEW job, Become(r, i, job), job.domain = d, job.at \in {"insert", "undelete"},
               \A p : Gives(rows, job, p) <=> p = pair
        PROVE  OnCourse'
    <3>1. /\ job.at # "unmap" /\ ~Cuts(job) /\ ~Creates(job) /\ ~Ends(job)
          /\ \A k : ~Takes(domains', rows, job, k)
      BY <2>3 DEF Cuts, Creates, Ends, Takes
    <3>2. \A p : Gives(rows, job, p) <=> Gives(rows, old, p)
      BY <1>m, <2>1, <2>3
    <3>3. Writes(job) /\ Leads(old, job, domains, domains')
      BY <2>1, <2>3, <3>1 DEF Writes, Leads
    <3> HIDE DEF d
    <3> QED
      BY <2>1, <2>2, <2>3, <3>1, <3>2, <3>3, LineMoves DEF d
  <2>4. CASE Become(r, i, [old EXCEPT !.at = "insert"])
    <3> DEFINE job == [old EXCEPT !.at = "insert"]
    <3>1. job.at = "insert" /\ job.domain = d /\ job.user = old.user
      BY <1>o, <2>1 DEF Job
    <3>2. Become(r, i, job)
      BY <2>4
    <3> HIDE DEF job
    <3>3. \A p : Gives(rows, job, p) <=> p = pair
      BY <1>m, <2>1, <3>1 DEF Gives, Maps
    <3> QED
      BY <2>3, <3>1, <3>2, <3>3
  <2>5. ASSUME NEW k \in DOMAIN rows, rows[k] = pair,
               Become(r, i, IF k \in deleted
                            THEN [at |-> "undelete", domain |-> d, row |-> k]
                            ELSE Done(d))
        PROVE  OnCourse'
    <3>1. CASE k \in deleted
      <4> DEFINE job == [at |-> "undelete", domain |-> d, row |-> k]
      <4>1. job.at = "undelete" /\ job.domain = d /\ job.row = k /\ Become(r, i, job)
        BY <2>5, <3>1
      <4> HIDE DEF job
      <4>2. \A p : Gives(rows, job, p) <=> p = pair
        BY <2>5, <4>1 DEF Gives, Maps
      <4> QED
        BY <2>3, <4>1, <4>2
    <3>2. CASE k \notin deleted
      <4>1. Become(r, i, Done(d)) /\ Live' = Live \cup {k} /\ rows'[k].domain = d
        BY <2>1, <2>5, <3>2 DEF Live
      <4>2. \A p \in Row : Gives(rows, old, p) <=> p = rows'[k]
        BY <1>m, <2>1, <2>5
      <4> QED
        BY <1>a, <2>1, <4>1, <4>2, LineGives
    <3> QED
      BY <3>1, <3>2
  <2> QED
    BY <1>1, <2>4, <2>5 DEF MappingFind
<1>2. CASE MappingInsert(r, i)
  <2> DEFINE x == Len(rows) + 1
  <2>1. /\ old.at = "insert" /\ rows' = Append(rows, pair)
        /\ Become(r, i, Done(d)) /\ UNCHANGED <<domains, deleted>>
    BY <1>2 DEF MappingInsert
  <2>2. pair \in Row
    BY <1>o, <1>m, <2>1 DEF Row, Maps, Job
  <2>3. pair.domain = d
    OBVIOUS
  <2> HIDE DEF pair
  <2>4. /\ DOMAIN rows' = DOMAIN rows \cup {x} /\ x \notin DOMAIN rows
        /\ rows'[x] = pair
        /\ \A k \in DOMAIN rows : rows'[k] = rows[k]
    BY <1>o, <2>1, <2>2
  <2> HIDE DEF x
  <2>5. Live' = Live \cup {x}
    BY <1>o, <2>1, <2>4 DEF Live
  <2>6. \A p \in Row : Gives(rows, old, p) <=> p = rows'[x]
    BY <1>m, <2>1, <2>4
  <2> QED
    BY <1>a, <2>1, <2>3, <2>4, <2>5, <2>6, LineGives
<1>3. CASE MappingUndelete(r, i)
  <2> DEFINE x == old.row
  <2>1. /\ old.at = "undelete" /\ deleted' = deleted \ {x}
        /\ Become(r, i, Done(d)) /\ UNCHANGED <<domains, rows>>
    BY <1>3 DEF MappingUndelete
  <2>2. x \in DOMAIN rows /\ rows'[x].domain = d
    BY <1>o, <2>1
  <2>3. Live' = Live \cup {x}
    BY <2>1, <2>2 DEF Live
  <2>4. \A p \in Row : Gives(rows, old, p) <=> p = rows'[x]
    BY <2>1 DEF Gives, Maps
  <2> HIDE DEF x
  <2> QED
    BY <1>a, <2>1, <2>2, <2>3, <2>4, LineGives
<1> QED
  BY <1>1, <1>2, <1>3

LEMMA TakingStepsStayOnCourse ==
  ASSUME Inv, OnCourse, NEW r \in Requests, NEW i \in DOMAIN jobs[r],
         MappingUnmap(r, i) \/ RemovalCut(r, i)
  PROVE  OnCourse'
<1> DEFINE js == jobs[r]
           old == js[i]
           job == Done(old.domain)
<1>1. job.domain = old.domain /\ job.at = "done"
  BY DEF Done
<1>2. /\ ~Cuts(job) /\ ~Creates(job) /\ ~Ends(job)
      /\ old.at \in {"unmap", "cut"} /\ Become(r, i, job) /\ UNCHANGED <<domains, rows>>
  BY <1>1 DEF Cuts, Creates, Ends, MappingUnmap, RemovalCut
<1>3. ~Creates(old) /\ ~Ends(old) /\ \A p : ~Gives(rows, old, p)
  BY <1>2 DEF Creates, Ends, Gives, Maps
<1>4. Live' = { k \in Live : ~Takes(domains, rows, old, k) }
  <2>1. CASE old.at = "unmap"
    <3>1. deleted' = deleted \cup {old.row}
      BY <2>1 DEF MappingUnmap, RemovalCut
    <3> QED
      BY <1>2, <2>1, <3>1 DEF Live, Takes
  <2>2. CASE old.at = "cut"
    <3>1. deleted' = deleted \cup { k \in DOMAIN rows : rows[k].domain = old.domain }
      BY <2>2 DEF MappingUnmap, RemovalCut
    <3> QED
      BY <1>2, <2>2, <3>1 DEF Live, Takes
  <2> QED
    BY <1>2, <2>1, <2>2
<1> HIDE DEF job
<1>5. PICK after : /\ jobs' = [jobs EXCEPT ![r] = Settled(after)]
                   /\ LineAs(js, i, job, after)
                   /\ expected' = expected
  BY <1>1, <1>2, LineGoesOn
<1>6. DomainsLeft(domains', after) = DomainsLeft(domains, js)
  BY <1>2, <1>3, <1>5, DomainsStay
<1>7. PairsLeft(domains, rows, { k \in Live : ~Takes(domains, rows, old, k) }, after)
        = PairsLeft(domains, rows, Live, js)
  BY <1>1, <1>3, <1>5, PairsTaken
<1>8. PairsLeft(domains', rows', Live', after) = PairsLeft(domains, rows, Live, js)
  BY <1>2, <1>4, <1>7
<1>9. ASSUME expected[r] # Nothing PROVE Keeps(old, job, rows, rows', Live, Live')
  <2>1. UnmapsOwn(rows, js)
    BY <1>9, CourseFacts
  <2>2. \A k \in Live : Takes(domains, rows, old, k) => rows[k].domain = old.domain
    BY <1>2, <2>1 DEF Takes, UnmapsOwn
  <2> QED
    BY <1>2, <1>4, <2>2 DEF Keeps, Writes, Cuts
<1>10. Leads(old, job, domains, domains')
  BY <1>1, <1>2 DEF Leads
<1> QED
  BY <1>1, <1>2, <1>5, <1>6, <1>8, <1>9, <1>10, LineStays

LEMMA OnCourseInit == Init => OnCourse
BY DEF Init, OnCourse

LEMMA OnCourseNext == Inv /\ OnCourse /\ [Next]_vars => OnCourse'
<1> SUFFICES ASSUME Inv, OnCourse, [Next]_vars PROVE OnCourse'
  OBVIOUS
<1>1. CASE Next
  <2>1. PICK r \in Requests :
          \/ \E file \in NonEmpty(Domains) : \E accepted \in SUBSET file : UploadDomains(r, file, accepted)
          \/ \E L \in NonEmpty(Lines) : \E lines \in [L -> Row] : UploadUsers(r, lines)
          \/ \E u \in Users, ds \in NonEmpty(Domains) : UploadOwn(r, u, ds) \/ MapDomains(r, u, ds)
          \/ \E i \in DOMAIN rows : UnmapFind(r, i)
          \/ \E d \in Domains : RemoveDomain(r, d)
          \/ \E i \in DOMAIN jobs[r] : Continue(r, i) \/ LineFails(r, i)
    BY <1>1 DEF Next
  <2>2. ASSUME NEW i \in DOMAIN jobs[r], Continue(r, i) \/ LineFails(r, i) PROVE OnCourse'
    <3>1. CASE Continue(r, i)
      BY <3>1, DomainStepsStayOnCourse, MappingStepsStayOnCourse, TakingStepsStayOnCourse,
         RemovalStepsStayOnCourse DEF Continue
    <3>2. CASE LineFails(r, i)
      BY <3>2, LineBroken
    <3> QED
      BY <2>2, <3>1, <3>2
  <2> QED
    BY <2>1, <2>2, RequestsBeginOnCourse
<1>2. CASE UNCHANGED vars
  BY <1>2 DEF vars, OnCourse, Live
<1> QED
  BY <1>1, <1>2

(* AloneIsAtomic: whatever the order in which the lines of a request go    *)
(* on, and for any files and tables, a request that has the tables to      *)
(* itself, and no statement of which fails but on the unique column,       *)
(* leaves what it would leave in a single step, except mappings it was     *)
(* refused, each for a domain that is left with another one.               *)
THEOREM AloneAsInOneStep == Spec => []AloneIsAtomic
<1>1. Inv /\ OnCourse => AloneIsAtomic
  <2> SUFFICES ASSUME Inv, OnCourse, NEW r \in Requests, jobs[r] = <<>>, expected[r] # Nothing
               PROVE  /\ LiveDomains = expected[r].domains
                      /\ LivePairs \cup expected[r].refused = expected[r].pairs
                      /\ \A p \in expected[r].refused : \E q \in LivePairs : q.domain = p.domain
    BY DEF AloneIsAtomic, Busy
  <2>1. DOMAIN <<>> = {}
    OBVIOUS
  <2>2. DomainsLeft(domains, <<>>) = LiveDomains
    BY <2>1 DEF DomainsLeft, LiveDomains
  <2>3. \A k \in Live : rows[k] \in Row
    BY RowsTyped DEF Inv, Live
  <2>4. PairsLeft(domains, rows, Live, <<>>) = LivePairs
    BY <2>1, <2>3 DEF PairsLeft, LivePairs
  <2>5. /\ expected[r].domains = DomainsLeft(domains, <<>>)
        /\ expected[r].pairs = PairsLeft(domains, rows, Live, <<>>) \cup expected[r].refused
        /\ Served(domains, rows, Live, <<>>, expected[r].refused)
    BY DEF OnCourse
  <2>6. \A p \in expected[r].refused : \E k \in Live : rows[k].domain = p.domain
    BY <2>1, <2>5 DEF Served, Reaches
  <2> QED
    BY <2>2, <2>4, <2>5, <2>6 DEF LivePairs
<1> QED
  BY InvInit, InvNext, OnCourseInit, OnCourseNext, <1>1, PTL DEF Spec
=============================================================================
