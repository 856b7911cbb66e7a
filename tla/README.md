# Recovvo web API: a TLA+ model

Recovvo is a multi-tenant web API (Express, TypeScript, Knex over Postgres):
companies give selected employees, and their supervisors, access to the mail of
former or other employees. Every tenant has a database schema of its own; a
shared `admin` schema holds the tenants. This directory models the parts of it
whose correctness depends on the *order* in which things happen. Paths below are
relative to `src/src/` of the repository.

Two facts about the code make order matter everywhere:

- **No request holds a transaction.** A handler is a series of awaited
  statements; any other request may run between two of them, a failure between
  two of them leaves the first one done, and the mapping tables have no unique
  constraint that would stop what a stale look-up lets through.
- **Some statements are not awaited at all.** The creates of an assigned
  supervisor and of an added alias, and every statement of the event pipeline, are started and left
  alone; the response, or the next step, does not wait for them, and the server
  survives their failure (`index.ts` only logs an unhandled rejection).

## 1. Inventory

| component | state | operations | hard behaviour | what makes it correct |
|---|---|---|---|---|
| **Buffered queue** `client/common/utils/BufferedQueue.ts` | `_items`, `intervalId`, the timers the event loop holds | `add`, the timer's callback, `onFlush` | two ways to flush, a handle that outlives its timer | nothing lost, repeated or reordered; a timer is set iff something waits; what waits gets out |
| **Event log pipeline** `client/eventLogs`, `client/usageReport`, `client/searchReport` | three queues, the statements under way, three tables per tenant | the `RECOVVO_LOG_EVENT` handler, three flush listeners, the `then` of the log's INSERT | unawaited statements, tenants mixed in one queue, failures, loss of memory at a crash | an event counts at most once per report and never unlogged, tenants stay apart, a crash loses a bounded amount, every event settles |
| **Usage report table** `pg_update_usage_report` | `usage_report` rows, row locks | SELECT ... FOR UPDATE, then UPDATE or INSERT | concurrent calls of one user, duplicates, lock cycles | counts add up |
| **Supervisor mapping** `client/user/user.service.ts`, `client/userMappings` | `isSupervisor`, `provider_users_supervisors` | assign, remove, change role | check-then-act, stale snapshot, role and mappings in two statements, unawaited create | nobody keeps a mapping to someone who is no supervisor; one row per pair; a removal removes |
| **User upload and activation** `client/user/user.service.ts` | `isActive`, `isSupervisor`, mappings | `processCSV`, `uploadUsers`, `activateUsers`, `verifyEmailInvitation` | wipes first, restores later, all rows at once, failing mails | the outcome is what the file says; the upload is answered |
| **Collaborator mappings** `client/userCollaboratorMapping` | rows with dates and a history each | add, change dates, remove one or all, two CSV uploads | check-then-act, a history read before it is written back, wipe first and restore later | one row per pair; the history forgets nothing; an upload leaves what its file says; a removed mapping stays removed |
| **Alias mappings** `client/userAliasMappings` | rows with dates and a history each | the same | as for collaborators, a create that is not awaited, a removal that fills in dates and writes a history | one row per pair; what a live mapping grants was asked for; an upload leaves what its file says |
| **Client domains** `client/clientDomain` | `client_domains`, `provider_users_client_domains` | three uploads, map, unmap, remove | the lines of a request run at once, a removal in two statements, a unique column beside a table without one | no mapping to a removed domain; a request alone does what it says |
| **Onboarding** `client/organizationOperation` | one row: the step, the time frame of e-mails, the default expiries | advance the step, set the frame, look at it, set an expiry | check-then-act, a look that writes | steps in order, none skipped; a frame stays as it was set, on any day |
| **Provider secrets** `client/provider` | one secret all tenants share, a flag per tenant | upload a credential, upload a tenant id | read, change and write back a text in an external store; flag and secret in two calls | no tenant's entry is lost; the flag is never ahead |
| **Suppression list** `client/suppressionList` | `is_suppressed` of the users | upload (replace), add, remove one or all; reset by an upload of users | reset, find and flag in three statements, readers in between | the flags are what was asked for; contents are hidden accordingly |
| **Threads** `client/providerUserThread`, `client/messagePart` | tables an external job fills | lists page by page, a thread's messages, attachments | page and total by different statements, offsets that shift, dates and flags that change while a request reads | no row is passed over; what is shown was allowed |
| **Contacts** `client/contact` | nothing of its own; reads mappings of supervisors, collaborators, aliases and domains, and who has mail with whom | lists of contacts and attachments, the mail with a contact, opening a thread | six look-ups at different moments, some twice, an empty limit that is none, a limit by ids of two tables | who had a grant all along sees what it stands for; nobody else's mail but a withdrawn grant's or one with a mistaken id |
| **Sessions** `client/auth`, `client/userSession`, `core/middlewares` | session rows, tokens with a role | log in, refresh, log out | tokens outlive demotion | not modelled |
| **Tenants** `admin/tenants` | tenants, their schemas, administrators | create, delete, change admin | several schemas, mails | not modelled |
| Routes, validation, migrations, seeds | none | plumbing | none | - |

**Interactions.** The web handlers share the tenant's tables and nothing else;
they meet there. `findAppUserById` reads the live mappings to decide who may
see whose mail, so the mappings are the access relation. An
upload writes the same columns and rows as the single requests. A finished
request emits `RECOVVO_LOG_EVENT`; the handler pushes into the master queue,
whose listener pushes into the search queue and, after the log's INSERT, into the
usage queue, whose listener calls the stored procedure once per user. An upload of
users resets the suppression list. The time frame of the organization limits
what the lists of threads show, and they read it through the function that writes it
back.

The hazards found while reading are listed with their lines in `PROJECT.json`.

## 2. Modules

```
BufferedQueueOps ── BufferedQueue ──implements── BatchChannel
       │                 └─ BufferedQueueProofs
       └── EventPipeline  ...calls...  UsageReport
                 └─ EventPipelineProofs ─┘
SupervisorMapping ── UserUpload
                        └─ SupervisorMappingProofs
CollaboratorMapping ── CollaboratorMappingProofs
AliasMapping ── AliasMappingProofs
ClientDomain ── ClientDomainProofs
Organization ── OrganizationProofs    ┐
SuppressionList ─┐                    ├ checked through MCOrganization
ThreadListing   ─┼─ VisibilityProofs  │
ContactAccess   ─┘                    ┘
```

A line down or to the right is EXTENDS; each `MC*` module extends the one it is
named for, and `MCOrganization` four that share no state. `BufferedQueueOps` holds the queue's methods as functions on a record,
so that one queue (`BufferedQueue`) and the three of the pipeline
(`EventPipeline`) are the same code, as they are in the program. `UserUpload`
takes the whole next-state relation of `SupervisorMapping` as one of its
disjuncts: uploads and requests interleave over the same two tables.

### BufferedQueueOps, BufferedQueue, BatchChannel

The record has the fields of the object and `timeouts`, the number of timers
the *event loop* holds for it. They are told apart because `intervalId` is
never reset by the timer itself, only by `stopTimeout`: when the callback runs,
the handle still looks set. `Pushed` and `RecurringQueue` are a whole `add` and a
whole `recurringQueue`; JavaScript runs them to completion, so each is one step.
`BatchChannel` is what producers may assume, and `ImplementsChannel` the
refinement: what the channel accepted is `added`, what it delivered is `out`.

### SupervisorMapping

`rows` is the table as a sequence (a row's id is its place), `deleted` the ids
with `is_deleted`. `req[r]` is what a request in service is about to do, together
with everything it has read and will still use: `update` carries the role of its
snapshot, `undelete` and `remove` the row that was found.

| action | code |
|---|---|
| `AssignCheck`, `AssignFind`, `AssignUndelete` | `addSupervisorMapping`, `assignSupervisor` up to each await |
| `InsertLands` | the create that is not awaited, whenever it gets to the table |
| `RemoveFind`, `RemoveDelete` | `removeSupervisorMapping` |
| `UpdateRead`, `UpdateWrite`, `UpdateUnmap` | `update`: the snapshot, the write of the role, the deletion of the mappings |
| `RequestFails` | a statement that fails or a server that stops: everything in flight is dropped, what is written stays |

The emails of one request are handled concurrently and independently by the
code; each is a request of the model.

The code does *not* prevent every bad interleaving, and the properties do not
pretend it does. `suspects` is a history variable, read by no action, that
records the supervisors about whom two conflicting requests overlapped
(`Conflict`) or whose update broke off between its two writes. The properties
say that **nothing else** goes wrong: a mapping to someone who is no
supervisor, or a second row of a pair, exists only for suspects. Removals, and
requests about different supervisors, overlap with anything without harm; that
is the part that has to be shown.

### UserUpload

`upload[k]` is one run of `processCSV`, `lines` its rows, each with how far it
has come and what became of the create it did not wait for. `Deactivate` and
`UnmapAll` are the two statements that take everything away; `LineFind`,
`LineUndelete`, `LineInsertLands`, `LineWrite` and `LineFails` run for all rows
in any order; `PromoteSupervisors` comes when all are answered. Emails are the
users who have them, or `Unknown`, or `None`. `disturbed` is history: the
uploads that met another writer.

### CollaboratorMapping

`rows` and `deleted` are the table as in `SupervisorMapping`, with the dates
(`window`) and the history of each row. `task[s]` is one pair a request is
about; the code handles the emails of a request and the lines of a file
concurrently, so each is a task.

| action | code |
|---|---|
| `Submit`, `CheckMapping` | the look-up of a live mapping, which an add must not and the others must find |
| `FindMapping` | `assignCollaborator` with `findAccessDuration`, up to the look-up of `createOrUpdateCollaboratorMapping`, which any row of the pair satisfies |
| `InsertMapping`, `WriteMapping` | its create and its update; the update writes *all* rows of the pair, with the history of the one that was found |
| `RemoveMapping`, `RemoveAll` | `removeCollaboratorMapping`, `removeAllCollaboratorMappings` |
| `Upload`, `UploadAnswer` | both CSV uploads: the wipe of the scope (one user, or all), and a task for every line that counts |
| `Fail` | a statement that fails |

A history that is one object, as `create` leaves it, becomes an array of one when
it is spread into the next one: the compiler's target is ES5 with
`downlevelIteration`, whose spread helper takes what is not iterable as one
element. So the model has sequences from the start. `suspects` has the pairs about
which tasks overlapped that the code does not keep apart; `disturbed` whether
the upload under way met another writer.

### AliasMapping

The table looks like the collaborators', its code does not. A removal goes through the
same update as a change of dates (`WriteMapping`), which fills in dates nobody asked
for and replaces the history by itself; the entries of the history say in the model
whether a removal wrote them, so that `GrantedWasAsked` can relate what is live to
what was asked. Removing all aliases of a user touches neither dates nor history.

| action | code |
|---|---|
| `AddAlias`, `UpdateAccess`, `RemoveAlias` | `assignAlias`, `updateAliasAccess`, `removeAliasMapping` up to the look-up that decides |
| `InsertLands`, `WriteMapping` | the create (awaited only in an upload) and the update of all rows of the pair |
| `RemoveAll` | `removeAllAliases` |
| `Upload`, `FindMapping`, `UploadAnswer` | both CSV uploads: the wipe, `createOrUpdateAliasMapping` for every line that counts, the answer |
| `Fail` | a statement that fails |

### ClientDomain

`domains` has the state of each domain's row, `rows` and `deleted` the mappings.
`jobs[r]` is what the lines of request `r` still have to do: a request runs its lines
at once, so each is a chain of steps of its own.

| action | code |
|---|---|
| `UploadDomains`, `UploadUsers`, `UploadOwn` | `processCSV`, `processClientDomainsUsers`, `processSpecificClientDomainsUsers` up to their lines |
| `MapDomains`, `UnmapFind`, `RemoveDomain` | `mapDomainsToUser`, `unmapDomainFromUser`, `removeClientDomain` called by its route |
| `DomainFind`, `DomainCreate`, `DomainRevive` | `createIfNotExistClientDomain` |
| `MappingFind`, `MappingInsert`, `MappingUndelete`, `MappingUnmap` | `createIfNotExistClientDomainUserMaping`, the update of `unmapDomainFromUser` |
| `RemovalFind`, `RemovalDelete`, `RemovalCut` | `removeClientDomain` as `processCSV` calls it when all domains of the file are answered |
| `LineFails` | a statement that fails; the other lines go on |

`expected[r]` is history: what the request would leave if it were one step, taken when
it begins with nothing else in service and given up when another begins or a statement of it
fails. `AloneIsAtomic` compares it with what the interleaved lines leave. The unique column
is no such excuse: the mappings of the lines it refuses (`LineRefused`) are noted in
`refused`, all others must be there, and each refused one must have left its domain live
and mapped to somebody.
`suspects` has the domains that one request removed while another mapped them.

### Organization

One tenant's row `organization_operation`, and the secret of all tenants. Its four
parts have nothing in common but requests.

| action | code |
|---|---|
| `StepRead`, `StepLands` | `updateOnboardingStep`: the comparison with the client's step, the write |
| `ExpiryRead`, `ExpiryLands` | `updateDefaultCollaboratorExpiry`, `updateDefaultAliasExpiry` |
| `FrameUpdate`, `FrameLands` | `updateEmailAccessTimeFrame` by an administrator |
| `FrameRead`, `FrameReadBack` | `getEmailAccessTimeFrame`, which calls the same update with what it has computed from the row |
| `Midnight` | the day on which dates are computed |
| `UploadCredential`, `UpdateTenantInformation`, `SecretLands`, `TenantReceived` | `provider.service.ts` with `addCredential`: the secret's text read, then written with one entry changed; the flag after it |
| `RequestFails` | a statement or a call that fails |

A *rolling* frame has no moving start in the table: each look computes the start from
the stored range and writes both back, so `FrameIsAsAsked` says the length stays, over
any number of looks and nights.

### SuppressionList

| action | code |
|---|---|
| `UploadCSV`, `UploadUsers`, `FlagUsers` | `processSuppressionCSV` (reset, find, then flag), `uploadSuppressionUsers` (find, then flag) |
| `RemoveUserSuppression`, `ClearUser`, `RemoveUserSuppressionList` | removal of one user in two statements, of all in one |
| `UserUploadResets` | the reset at the start of an upload of users |
| `ReadBegins`, `ReadThread`, `ReadMessages` | a page of threads, whose flags are asked for by a statement per thread; messages and attachments, by one statement for all |
| `CallFails` | a statement that fails |

`wanted` is the list somebody asked for; `crossed` that requests were at odds about it;
`watch` who was to be suppressed, and who was not, since a request began to read.

### ThreadListing

A client goes through the pages of a list while mail arrives and the alias's dates
and the company's frame change. A row is the set of its threads: one for a user's or an
alias's list, all copies of a mail for the list with a contact. `RowOrders` are
the orders the database may return, any for rows of the same time and another one with
every statement.

| action | code |
|---|---|
| `ListingBegins` | the client asks for a list (or, after `TotalRead`, for its next page) |
| `AskUser` | `fetchByUserId` takes the dates of the query |
| `AskAlias`, `AliasFound` | `fetchByAliasId` reads the frame, then the alias, and `getValidEmailRange` |
| `AskContact` | `filterByEmailAccessStartDateQuery`, once for the page and once for the total |
| `PageRead`, `TotalRead` | the query of the page; the query of the total, and `paginateData` |
| `MessageArrives` (external), `WindowChanges`, `FrameChanges` | what happens meanwhile |
| `ListingFails` | a statement that fails |

`steady` is history: the rows to which nothing happened since the first page and above
which nothing disappeared.

### ContactAccess

What one user, the reader, is shown of the mail between his colleagues and contacts, while
others change what he may see. Whatever lets him see something is a *grant*: a subordinate, an alias and
that its dates include today, an active collaborator, a domain mapped to somebody. The modules above
say how grants come and go one statement at a time; here they change as a whole.

| actions | code |
|---|---|
| `Ask` | the middlewares of a list of contacts (`contacts`) or of their attachments (`attachments`), of the mail with one (`emails`), of opening a thread (`thread`) |
| `OwnFound` ... `ActiveFound` | `getClientDomainIdsByLoggedInUser`, one action per look-up: the active aliases are looked up twice |
| `SupervisedFound`, `LimitFound` | the subordinates once more, then for each contact `getContactAccessType` and `fetchVisibleEmailsProviderIds`, in any order |
| `AccessAnswer` | the list with its limit, or a refusal |
| `Grant`, `Withdraw` | another request, or a date that is reached |

A thread (`Mail`) has an owner, in whose mailbox it is, and a row of
`user_sender_receiver_association` for each colleague (`users`) and each contact (`contacts`) who wrote or got it. A limit is
a set of colleagues, and the queries use it in two ways:

- `InMailboxOf`: attachments, and the last dates in the list of contacts, join the owner of the mailbox
  and compare his id with the limit (`visibleProviderUsersFilter`).
- `HasRowOf`: the mail with a contact (`fetchThreadsByContactId`) and the count of threads in the list of
  contacts (`fetchOriginalThreads` of `userSenderReceiverAssociation`) join `provider_users` by
  `sender_receiver_user_id` and do not look at `sender_receiver_user_type`. That column holds ids of two tables,
  so the row of a contact passes for one of the colleague with the same id (`IdMistaken`). `SameId` says which
  colleagues and contacts have the same id; two tables numbered from 1 have many. `findClientDominIdsFromUser` does
  test the type, and so `ContactsOf` takes colleagues for colleagues.

`ever` and `always` are the grants there were at some moment of the request and those there were all along.
`ShownWasGranted` bounds what is shown by the first and `HeldIsShown` by the second. There are two exceptions that
`ShownWasGranted` has to make, and it says of each exactly how far it reaches:

- The empty set is no limit, so a contact that was found through people who
  are all withdrawn before the limit is made (`LimitLost`) is shown with everybody's mail.
- A thread with a contact who has the id of a colleague the reader was given comes through a limit by rows, whoever
  exchanged it. Attachments are limited by mailboxes and are not affected.

### EventPipeline

Events are numbers, groups are sets of events, and every unawaited statement is
a member of `creating` (event_logs), `inserting` (search_report) or `calling`
(the stored procedure) until it succeeds, fails, or a `Crash` decides. A crash empties
the queues and lets any subset of the statements under way have been executed.
`searchLost` and `usageLost` are history variables.

### UsageReport

One transaction per call: `Select` takes the lock of the row it finds, `Update`
waits for the locks of others, `Insert` waits for nobody. `lastSearch` is kept
as a truth value because `IF oldUsageReport IS NOT NULL` is true only of a
record *all* of whose columns are non-null, and `last_search` is the one column that
can be null. Postgres itself (row locks, read committed, deadlock detection) is
external and modelled from its documented behaviour, as far as the procedure
relies on it.

## 3. Runs

| run | what it asks | bounds and why they are enough |
|---|---|---|
| `buffered_queue` | queue and timer stay in step; the channel is implemented; it delivers | size 3, two items, 7 adds: two full batches and a partial one, flushes by size and by timer in every order |
| `supervisor_mapping` | which interleavings leave orphans or duplicates; a demotion gets to the mappings, under fairness | two requests at a time, followed by any others; 2 users; 3 rows, so a pair can have a duplicate beside another pair. A conflict is between two requests |
| `user_upload` | uploads one after another, with every failure | seven files of at most two lines: the same pair twice, mutual supervision, a supervisor with a line of his own, an admin, refused and skipped lines |
| `user_upload_requests` | the same among single requests | one request at a time beside the upload; files of the same mapping twice and of its reverse |
| `collaborator_mapping` | which overlaps cost a history, make a second row, or bring a mapping back; what an upload leaves | two tasks at once beside `RemoveAll`, two users, two rows, histories of two: a conflict is between two, and a lost entry needs a history of two. One file about everybody repeats a pair and names a user twice, the other is one user's |
| `collaborator_active` | a comment at a query, **violated** | as above |
| `alias_mapping` | when a pair gets a second row; that nothing a removal filled in is granted; what an upload leaves | as above, with histories of three and a line that has an end but no start |
| `client_domain` | which requests leave a mapping to a removed domain; that a request alone is as good as one step | two users, two domains, two requests of at most two lines, two rows, from every state of the domains: two lines about the same new domain, a removal beside a mapping of the same domain |
| `organization` | the step, the frame, the secret, the suppression list, and the pages of a list of threads | two requests at a time; four days, so that a rolling frame moves more than once; two tenants; three users, one of them an administrator and one the reader, with three items; three threads of which two may be copies of a mail, three messages, pages of one row, so that a list has up to three pages; two colleagues, three contacts at two domains, one of them private, and one change during a request, which can fall between any two look-ups; a contact with a colleague's id, and three threads that tell a limit by rows from one by mailboxes |
| `event_pipeline` | conservation and isolation of events; every event arrives or is lost | queues of 2, three events of two tenants and two users, one crash: every flush by size and by timer happens at every queue, before and after the crash |
| `usage_report` | concurrent calls of the procedure | one user and day (calls for others never meet), four calls: two duplicates and two calls that lock each other out |
| `usage_report_new_data` | a comment of the procedure, **violated** | two calls |

`user_upload_requests` uses a VIEW that leaves out `suspects`, which no action
and no property of that run reads. Symmetry is used in runs of safety properties only:
for slots, for requests, callers, tenants and copies of a mail, and in
`client_domain` for users, domains and places in a file. In `organization` a behaviour is about one of seven parts
(`part`) and the others stand still: they share no variable but the slots of requests,
so interleaving them would show nothing more. Deadlock is checked except where the
bound on events or calls ends the run.

**Bounds in the guards**: `MaxAdds`, `MaxEvents`, `MaxCrashes`, `MaxCalls`,
`MaxRows` (`HasRoom` also counts the inserts under way; an upload begins only
below the bound and may exceed it by its own lines), `MaxHistory` and `Days` of the
collaborators and aliases, `Lines` of the domains, `LastDay`, `LastTime` and `MaxMessages`
of the threads, `MaxChanges` of the grants, and the sizes of `Requests`, `Slots`, `Callers` and `Uploads`, which say how many
are served *at once*, not how many there are.

**What is shown.**
- The queue never leaves `intervalId` set without a timer, though its code has a
  branch (`recurringQueue` on an empty queue) that would: the branch is dead
  because a timer is set only while something waits.
- Orphaned and duplicate mappings need a conflict about the same supervisor or
  an update that broke off.
- An upload that ran without another writer leaves exactly what its file says,
  *whatever* state earlier races, crashes and half-done uploads had left; so an
  upload repairs. A line that fails takes nothing from the others.
- A collaborator's second row, a lost entry of his history and a mapping that comes
  back after its removal need overlapping tasks about the same pair; what a row
  grants is always what its history says last, even of duplicated rows.
- The dates a removal of an alias fills in, and the history it wipes, never become a
  grant: whatever makes the mapping live again writes its own.
- A domain's mapping outlives the domain only when one request maps it while another
  removes it, or when a removal breaks off; alone, each request does what it says, although its
  lines race, but for mappings to a domain that several of its lines brought as new: of these at least one is made.
- Onboarding skips no step, and goes back only when updates overlap. A time frame survives
  any number of looks at it but one that straddles an update, or midnight.
- Only entries of the secret whose changes overlapped can be lost, also another tenant's.
- A reader gets the contents of an item only if one of its users was not to be suppressed
  at some time while he read, unless the list was being replaced.
- Mail that arrives may show a row twice but never makes one be passed over.
- A reader is shown a colleague's mail with a contact only through a grant there was during his request, or
  after all those through whom he found the contact were withdrawn in its course, or, except for attachments, if a contact of the
  thread has the id of a colleague he was given; what he was granted
  throughout he is shown, whatever else changes, but for an alias whose contacts are at a subordinate's domain.
- No event is counted twice, in any order of failures, timers and crashes; no
  event is in the usage report that is not in the log.
- A single usage report is exact; with duplicates counts get lost but never doubled.

**Finding** (`usage_report_new_data`). The INSERT of `pg_update_usage_report` is
commented as the case of new data, but it runs as well when the report found has
no `last_search`. As the UPDATE never fills that column, a user whose first batch
of the day has no search gets a new row per batch until one with a search is
picked, and from then on every row of the day is overwritten with one row's sum.

**Finding** (`collaborator_active`). `fetchActiveCollaboratorByUserId` says in a comment
that a collaborator is active through a mapping that is not deleted and whose
dates surround today. Its `orWhere` is not grouped with the condition before it,
so as SQL reads it the end date is an alternative to *all* conditions: the rows
of other users, removed rows and rows that have not begun count when their end date is
later than today, and `contact.service.ts` builds a user's list from them.

**Observations** that contradict no document but that a maintainer may want to know:
- `update` deletes a supervisor's mappings on *any* request that does not repeat
  the role, a change of name included (`UpdateWrite`, role `none`).
- `addSupervisorMapping` answers with success before the INSERT; a failed one goes
  unnoticed, and one that lands late can follow a demotion.
- As `processCSV` first resets `isActive`, `uploadUsers` sees every user as
  inactive and invites everybody again at each upload.
- Supervisors of lines whose mail failed are promoted all the same
  (`uploadedSupervisorEmails` is filled before the mail is sent).
- `createOrUpdateCollaboratorMapping` sets `isDeleted` to false also for a change
  of dates, so a removal between its look-up and its write has no effect.
- The emails of one add run in `Promise.all`: when a look-up fails the request is
  answered with an error while the other emails go on being added.
- The alias service's removal writes dates, and a history that has nothing but itself; the
  collaborator service's keeps both.
- Two lines of one file that name the same new domain both insert it; the unique column
  refuses the second, which is answered with a 500, and its user is not mapped.
- A removal of a domain that breaks off, or is overtaken by a mapping, leaves a live mapping
  which a second removal refuses to cut (the domain is deleted already), while
  `contact.service.ts:284` and `messagePart.service.ts:113` look at mappings and not at domains.
- A domain that is created while `processCSV` runs is not removed although the file misses
  it; a missing one that was deleted and is revived meanwhile is. `deactivateClientDomain` has no caller.
- When `updateTenantInformation` breaks off after the secret is stored, the tenant id is there but not
  flagged as received. The flag is set on the provider rows there are, and login makes such a row by a look-up and
  a create without a unique column.
- Reading the time frame writes it: a look that overlaps an administrator's update may undo it.
- A suppression file resets all flags first, so whoever reads in between sees everything; of
  two overlapping files the union may be left; an upload of users empties the list but for administrators.
- With a search, the list of threads with a contact filters *after* choosing one copy of a mail, by addresses and
  subject, its total *before*, by addresses alone: they need not agree.
- An empty list of colleagues whose mail may be seen means no limit (`fetchVisibleEmailsProviderIds`,
  `visibleProviderUsersFilter`), also when it is empty because they were withdrawn a moment ago.
- The mail with a contact (`providerUserThread.model.ts:245-263`) and the count of threads in the list of contacts
  (`userSenderReceiverAssociation.model.ts:233-257`) are limited by `sender_receiver_user_id` without a look at
  `sender_receiver_user_type`, so a thread with another contact whose id in `client_domain_contacts` is a permitted
  colleague's in `provider_users` is listed although that colleague has nothing to do with it.
- A contact's domain is found through at most one kind of grant: an alias adds nothing to a domain
  that a subordinate has mail with, so the alias's mail with it is not shown.
- A thread that is answered after the last day of the range drops out of a list and makes
  the rows below it slip to a page that has been read.
- `tenant.service.ts:92` tests `tenant.is_schema_created`, but rows come with their names in camel case
  (`core/config/knex.ts:49-63`), so the administrator of an existing tenant is not updated as the comment
  at `tenant.service.ts:112` has it.
- An upload that breaks off leaves the users who are no admins without access.

## 4. Fairness

- *Timers* (`WF` of each timeout): the event loop runs a timer that stays set.
- *Statements* (`WF` of `Continue`, `UploadStep`, `Database`, `Step`): the
  driver settles every promise, with a result or an error, and the handler goes
  on. Failure is an alternative the spec never has to take.
- Postgres ends a deadlock (`AbortDeadlock`, external, is part of `Step`). No property rests on it: it
  lets `usage_report` reach what comes after two calls have locked each other out.
- No fairness for clients (`Add`, `LogEvent`, `AssignCheck`, `Activate`, ...),
  for failures or for crashes; none for the unawaited create, which nothing
  depends on.

## 5. Proofs

Checked by TLAPS for every value of the constants.

**BufferedQueueProofs.** From `QueueOptions` alone (`Size \in Int`,
`HasTimeout \in BOOLEAN`). The inductive invariant is the conjunction of
`TypeOK`, `TimerArmed`, `FifoNoLoss` and `NeverFull`. `TimerArmed` is what makes the
case of a timer firing on an empty queue impossible, without which neither the
type of `timeouts` nor the refinement of the channel would be inductive.
`RefinesChannel` maps each `Add` to
`Accept` or `AcceptAndDeliver` and each `TimeoutFires` to `Deliver`; it is the
safety half, `Channel!Safety`.

**SupervisorMappingProofs.** From no assumption on `Users` or `Requests`. None of
the claims is inductive by itself. The invariant `MappingInv` adds

- `RowsKnown`: the row a request carries exists and is of its supervisor;
- `Exclusive`: unless its supervisor is a suspect, an update in service shares its
  supervisor with no assignment and no other update, and two assignments of a
  pair are not both before their insert;
- `Serial`: unless the supervisor is a suspect, what a request has read is still
  true: an assignment's supervisor is one, an update's snapshot is the role, and
  while a row is inserted its pair has none.

`Exclusive` keeps `Serial`, `Serial` gives `OrphanFree` and `NoDuplicates`, and
`NoDuplicates` with `RowsKnown` gives the action property `RemovalTakesEffect`.

The second part is about `UserUpload`, from `UploadAssumption`. Its invariant `UploadInv` says what is remembered of
each line that has been judged (`Judged`) and, of an upload that nobody disturbed, where it is (`Course`): that every
line still waits once all is reset, that each live mapping was brought by a line of the file and each line that
has brought one still finds it (`Mappings`), and who has access and who is a supervisor (`Access`).
At the end this is `UploadIsTheFile`. The verdict on a line was a `CASE` whose arms
overlapped, which TLA+ leaves open and TLC hides by taking the first; the code is a chain of `if`s, and so
is the definition now.

**CollaboratorMappingProofs.** From `CollaboratorAssumption`. Only `HistoryEndsWithWindow` is inductive with the
types; the others rest on two facts. `Met`: two tasks in service that conflict, both assigning a pair or one of them
changing dates that the other removes or assigns, have made the pair a suspect. `Current`: unless its pair is
one, what a task's look-up saw is still so; an INSERT finds no row, an update the history it read, a change of dates
a live mapping. `Met` keeps `Current`, as whoever would make it untrue conflicts, and `Current` gives `OneRowPerPair`
and both action properties. For an upload, `Met` needs that the lines that count are about different pairs.

`UploadIsTheFile` has an invariant of its own, `Undisturbed`: only slots of the upload are at work, one for each pair
of its file, each by its place still to write the pair or done with it as the file says (`OnCourse`); and pairs of the
uploader's scope that no slot is for are mapped no more.

**AliasMappingProofs.** From `AliasAssumption`, for any users, files, dates and slots. `TypeOK` is mostly about
histories, and about the row a task remembers. `OneRowPerPair` is not inductive: the invariant adds `Alone`, that an
INSERT under way is the only one of its pair, whose row there is none of, unless the pair is a
suspect. `GrantedWasAsked` holds of rows and of what tasks are about to write; a removal's dates
never get into a live row, as it writes them together with `is_deleted`. `UploadIsTheFile` is proved as for
`CollaboratorMapping`.

**ClientDomainProofs.** From `RowBoundAssumption` and `NoUserAssumption`, for any users, domains, requests and
files. `TypeOK` needs the remembered row of a line to exist, and that rows are never taken out.
`OrphanFree` is not inductive: the invariant adds that while a line of one request may add a mapping to a
domain and a line of another removes it, the domain is a suspect, and that a line past its domain's look-up
finds the domain live unless it is one; a removal's second write then cuts all that the first left.

`AloneIsAtomic` is about all orders of a request's lines at once, refusals by the unique column included. The invariant `OnCourse` says what the lines that
are not done, and have not been refused, will leave, as sets that do not depend on an order: the live domains but for those a line is about to
delete, with those a line is about to create; the pairs of live rows no line is about to take, with those a line is
about to give. A step moves one effect from a line into the tables (`DomainsStay`, `PairsStay`, `PairsGiven`,
`PairsTaken`), and no two effects get in each other's way because a line that takes something is the only one
about its domain (`Apart`). A refused mapping's domain is served (`Served`): while the request is at work some pair of it
is live, or a line past the creation of the domain leads to one; that line is there because only the line that
created the domain can have made the column refuse another, and it names a user as well.

**OrganizationProofs.** From `SetUpAssumption`. `TypeOK` is where the arithmetic is: a range is a difference
of days, and never negative but when unlimited, as no start is later than today. `OnboardingInOrder`
needs that what a request will write is at most one beyond a step there was, and, while no two overlapped, one
beyond the step there is. `FrameIsAsAsked` needs what a look has read, or is about to write, to agree with
what was asked unless it was raced; for a rolling frame the difference of the day and the start is the range.
`SecretsStand` needs the copy each change carries to be the secret, but for the entries that overlapped.

**VisibilityProofs** has a part for each of three modules, from its own assumption.

*SuppressionList.* The invariant is the type,
`SuppressionIsAsAsked`, `HidesAsAsked` and `Noted`: while a request reads with the flags as
they were asked for, those who are flagged now are among those it has noted as to be suppressed, and those who are not
among the others.

*ContactAccess.* Both properties follow from bounds on what each look-up has
found: `FromBelow`, by the grants there were since the request began, and `FromAbove`, by those there were all along;
`Limits` says the same of each contact's limit. A change of grants can only widen the first and narrow
the second bound, and each look-up lies between them because it reads the grants of its moment.
Whatever passes a limit passes through a colleague in it (`PassesGiven`), by mailbox, row or id, and whoever bears a
thread's name in the answer lets it pass (`BearerPasses`).

*ThreadListing.* `PageInv`: a steady row the client has not got has at least `offset` rows above it, and
once the page is read a page more. It holds because steady rows are alone with their time, so that in every order
the database may choose such a row comes right after those above it (`PageHolds`, by a bijection), and
what is above it stays above it. When the total is too small for another page, there would be more rows above it than
rows besides it. `LimitsInv`: what a page keeps to was made of dates noted since the request began; it gives the
action property `ShownWasAllowed`.

**EventPipelineProofs.** From `EventAssumption` and `QueueOptions`. The invariant says of each way, to the usage report and
to the search report, that its parts are disjoint and together are all events; that groups within a part are
disjoint; and that groups are of one tenant, calls of one user. Most steps move a set of events from a part to
another, which the lemmas on `OnWay` and `Apart` deal with once and for all. The exception is the master queue's listener:
it adds to the search queue once per tenant, and each add may flush. `PushedAllKeepsAll` shows by induction over the
groups that what the queue holds and what it has emitted are what it held and the groups, each once.
That induction is first-order: were the statement false for some number of groups, it would be for a least one
(`SetInduction`, from the library's theorem that the naturals are well-founded).

*UsageReport* is the module's second part, from `BoundAssumption`. `CallsAddUp` sums over all calls; that a commit adds
to one total what it passed, and nothing to the others, is an induction over the partial sums (`SumMoves`, again
by `SetInduction`). The invariant adds `StillReads`, that what a selected call has read is still in its row,
which is what the row's lock is for, and `NoRowNoCall`, that no call has committed to a report without a
row, which makes a first row exact.

**Only model-checked**: liveness (`DemotionCuts`, `UploadEnds`, `EveryEventSettles`) and the liveness half of the channel (`ImplementsChannel`), as the prover has no ENABLED. Every
invariant and action property of the passing runs is stated by a theorem.

## 6. Not modelled

- **Sessions and login.** Mostly the protocol of an external identity provider; the rest are inserts and
  deletes of single rows. What a refresh finds depends on whether the external model library answers a look-up
  with a row or a list, which the source does not say.
- **Tenants.** Creation and deletion are an operator's series of migrations, mails and writes to
  several schemas, one at a time.
- **Searches, lists of users, downloads**: single queries. Of contacts only who is shown whose mail
  is modelled, of threads only paging, dates and hidden contents. The link to a single document
  (`authorizeToGetPressignedUrl`) compares rows whose shape the external model library decides.
- **Routes, validation, mail and CSV formats, migrations, seeds**: no state of their own.
- In the pipeline: which routes are logged, the table of routes that grows with each
  event, and the day an event is counted on.

Left to do: the grants of `ContactAccess` as what `SupervisorMapping`, `CollaboratorMapping` and `AliasMapping`
implement while there is no suspect; days in `EventPipeline`.
