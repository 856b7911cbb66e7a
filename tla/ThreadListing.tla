----------------------------- MODULE ThreadListing -----------------------------
(***************************************************************************)
(* Going through the pages of a list of e-mail threads while mail arrives  *)
(* and the dates that may be read change (providerUserThread.service.ts    *)
(* and .model.ts).  Each page is a request of several statements: what     *)
(* limits the dates, the page, the total, which says whether there is a    *)
(* next page.                                                              *)
(*                                                                         *)
(* There are three lists: a subordinate's threads ("user"), an alias's,    *)
(* and those with a contact, where copies of a mail in several mailboxes   *)
(* are one row.  A row is the set of its threads.  Times are days, 0 stands*)
(* for no limit.  Rows come with the latest first, the order a client asks *)
(* for and the list of a contact has anyway; rows of the same time come in *)
(* any order, another one with each statement.  The mailboxes, searches,   *)
(* attachments and addresses a query picks choose threads once and for     *)
(* all, and so do the dates given for single mailboxes of a contact.  One  *)
(* search is left out: with secondarySearch the page and the total of the  *)
(* list of a contact are filtered differently.                             *)
(***************************************************************************)
EXTENDS Integers, FiniteSetsExt

CONSTANTS Threads,
          Copies,      \* the rows of a contact
          LastTime,    \* bounds the times of messages
          MaxMessages, \* bounds how many there are
          PageSize,
          Asked,       \* the ranges clients ask for,
          Windows,     \* the historical dates an alias may be given,
          Starts       \* and the starts of the company's time frame

Times == 1 .. LastTime

DateRange == [from : 0 .. LastTime, upto : 0 .. LastTime]

Always == [from |-> 0, upto |-> LastTime]

ASSUME ListingAssumption ==
  /\ IsFiniteSet(Threads) /\ Copies \subseteq SUBSET Threads
  /\ LastTime \in Nat /\ MaxMessages \in Nat /\ PageSize \in Nat \ {0}
  /\ Asked \subseteq DateRange /\ Windows \subseteq DateRange /\ Starts \subseteq 0 .. LastTime

VARIABLES times,      \* of the messages of each thread
          window,     \* the dates of the alias
          timeFrame,  \* the start of the company's
          kind,       \* of list that is read,
          durationParams, \* the range asked for,
          at,         \* how far the request for a page is,
          start,      \* what it has read of the time frame,
          limits,     \* and the dates it keeps to,
          offset,     \* the rows on the pages before,
          seen,       \* the rows the client has got
          steady,     \* history, read by no action: rows to which nothing happened,
          windows,    \* and the dates and the frames
          starts      \* there were since the page was asked for

mail == <<times, window, timeFrame>>
request == <<kind, durationParams, at, start, limits, offset, seen>>
since == <<windows, starts>>
listingVars == <<mail, request, steady, since>>

Newest(t) == CHOOSE m \in times[t] : \A n \in times[t] : n <= m

(* The conditions of the queries: a subordinate's or an alias's list looks *)
(* at the newest message of a thread, a contact's takes any message.       *)
IsInRange(t) ==
  /\ times[t] # {}
  /\ IF kind = "contact" THEN \E m \in times[t] : limits.from <= m
     ELSE limits.from <= Newest(t) /\ Newest(t) <= limits.upto

Rows == IF kind = "contact" THEN Copies ELSE { {t} : t \in Threads }

Listed == { row \in Rows : \E t \in row : IsInRange(t) }

(* last_updated_datetime, of copies that of the one updated first.         *)
Updated(row) ==
  CHOOSE u \in { Newest(t) : t \in { s \in row : IsInRange(s) } } :
    \A t \in row : IsInRange(t) => u <= Newest(t)

Above(row) == { r \in Listed : Updated(r) > Updated(row) }

(* Mutant: the latest come last. *)
RowOrders_Ascending ==
  { o \in [1 .. Cardinality(Listed) -> Listed] :
      /\ \A row \in Listed : \E p \in DOMAIN o : o[p] = row
      /\ \A p, q \in DOMAIN o : p < q => o[p] # o[q] /\ Updated(o[p]) <= Updated(o[q]) }

(* The orders in which the database may return the rows.                   *)
RowOrders ==
  { o \in [1 .. Cardinality(Listed) -> Listed] :
      /\ \A row \in Listed : \E p \in DOMAIN o : o[p] = row
      /\ \A p, q \in DOMAIN o : p < q => o[p] # o[q] /\ Updated(o[p]) >= Updated(o[q]) }

Page(o) == { o[p] : p \in DOMAIN o \cap (offset + 1) .. (offset + PageSize) }

HasNextPage == offset + PageSize < Cardinality(Listed)

Later(a, b) == IF a <= b THEN b ELSE a

Earlier(a, b) == IF a <= b THEN a ELSE b

(* Mutant: the company's time frame is not considered. *)
ValidEmailRange_Unframed ==
  [from |-> Later(window.from, durationParams.from), upto |-> Earlier(window.upto, durationParams.upto)]

(* getValidEmailRange.                                                     *)
ValidEmailRange ==
  [from |-> Later(Later(window.from, start), durationParams.from), upto |-> Earlier(window.upto, durationParams.upto)]
-----------------------------------------------------------------------------
ListingInit ==
  /\ times = [t \in Threads |-> {}] /\ window \in Windows /\ timeFrame = 0
  /\ kind = "user" /\ durationParams = Always /\ at = "idle" /\ start = 0
  /\ limits = Always /\ offset = 0 /\ seen = {}
  /\ steady = {} /\ windows = {} /\ starts = {}

(* History: a row stays steady while it is listed with the same time, no   *)
(* other has that time and what was above it stays above it.               *)
IsAlone(row) == \A r \in Listed \ {row} : Updated(r) # Updated(row)

StillSteady ==
  steady' = { row \in steady : /\ row \in Listed' /\ Updated(row)' = Updated(row)
                               /\ IsAlone(row)' /\ Above(row) \subseteq Above(row)' }

(* With the first page the rows begin to be watched.                       *)
RowsAreWatched ==
  IF offset = 0 /\ at \in {"next", "range"}
  THEN steady' = { row \in Listed' : IsAlone(row)' } ELSE StillSteady

Noticed ==
  /\ StillSteady
  /\ windows' = IF windows = {} THEN {} ELSE windows \cup {window'}
  /\ starts' = IF starts = {} THEN {} ELSE starts \cup {timeFrame'}

(* The mail service's job stores a message, maybe an old one.              *)
MessageArrives(t, m) ==
  /\ m \notin times[t]
  /\ MapThenSumSet(LAMBDA s : Cardinality(times[s]), Threads) < MaxMessages
  /\ times' = [times EXCEPT ![t] = @ \cup {m}]
  /\ UNCHANGED <<window, timeFrame, request>>
  /\ Noticed

WindowChanges(w) ==
  /\ w # window /\ kind = "alias"
  /\ window' = w
  /\ UNCHANGED <<times, timeFrame, request>>
  /\ Noticed

FrameChanges(s) ==
  /\ s # timeFrame /\ kind # "user"
  /\ timeFrame' = s
  /\ UNCHANGED <<times, window, request>>
  /\ Noticed

ListingBegins(k, range) ==
  /\ at = "idle"
  /\ k = "contact" => range = Always
  /\ kind' = k /\ durationParams' = range /\ at' = "next"
  /\ UNCHANGED <<mail, start, limits, offset, seen, since, steady>>

(* fetchByUserId takes the dates of its query.                             *)
AskUser ==
  /\ kind = "user" /\ at = "next"
  /\ limits' = durationParams /\ at' = "page"
  /\ UNCHANGED <<mail, kind, durationParams, start, offset, seen, since>>
  /\ RowsAreWatched

(* fetchByAliasId reads the company's time frame, then the alias.          *)
AskAlias ==
  /\ kind = "alias" /\ at = "next"
  /\ start' = timeFrame /\ at' = "range"
  /\ windows' = {window} /\ starts' = {timeFrame}
  /\ UNCHANGED <<mail, kind, durationParams, limits, offset, seen, steady>>

AliasFound ==
  /\ at = "range"
  /\ limits' = ValidEmailRange /\ start' = 0 /\ at' = "page"
  /\ UNCHANGED <<mail, kind, durationParams, offset, seen, since>>
  /\ RowsAreWatched

(* fetchThreadsByContactId reads the time frame for the page, and again    *)
(* for the total.                                                          *)
AskContact ==
  /\ kind = "contact" /\ at \in {"next", "recount"}
  /\ limits' = [Always EXCEPT !.from = timeFrame]
  /\ at' = IF at = "next" THEN "page" ELSE "count"
  /\ IF at = "next" THEN windows' = {window} /\ starts' = {timeFrame} ELSE UNCHANGED since
  /\ UNCHANGED <<mail, kind, durationParams, start, offset, seen>>
  /\ RowsAreWatched

PageRead ==
  /\ at = "page"
  /\ \E o \in RowOrders : seen' = seen \cup Page(o)
  /\ at' = IF kind = "contact" THEN "recount" ELSE "count"
  /\ windows' = {} /\ starts' = {}
  /\ UNCHANGED <<mail, kind, durationParams, start, limits, offset, steady>>

RequestEnds ==
  /\ kind' = "user" /\ durationParams' = Always /\ at' = "idle" /\ start' = 0
  /\ limits' = Always /\ offset' = 0 /\ seen' = {}
  /\ steady' = {} /\ windows' = {} /\ starts' = {}

(* The total, and with it the answer; paginateData's hasNextPage has the   *)
(* client ask for the next page.                                           *)
TotalRead ==
  /\ at = "count"
  /\ IF HasNextPage
     THEN /\ at' = "next" /\ offset' = offset + PageSize
          /\ UNCHANGED <<kind, durationParams, start, limits, seen, steady, since>>
     ELSE RequestEnds
  /\ UNCHANGED mail

ListingFails ==
  /\ at # "idle"
  /\ RequestEnds
  /\ UNCHANGED mail

ListingNext ==
  \/ \E t \in Threads, m \in Times : MessageArrives(t, m)
  \/ \E w \in Windows : WindowChanges(w)
  \/ \E s \in Starts : FrameChanges(s)
  \/ \E k \in {"user", "alias", "contact"}, range \in Asked : ListingBegins(k, range)
  \/ AskUser \/ AskAlias \/ AliasFound \/ AskContact
  \/ PageRead \/ TotalRead \/ ListingFails

ListingSpec == ListingInit /\ [][ListingNext]_listingVars
-----------------------------------------------------------------------------
ListingTypeOK ==
  /\ times \in [Threads -> SUBSET Times] /\ window \in Windows /\ timeFrame \in 0 .. LastTime
  /\ kind \in {"user", "alias", "contact"} /\ durationParams \in DateRange
  /\ at \in {"idle", "next", "range", "page", "recount", "count"}
  /\ start \in 0 .. LastTime /\ limits \in DateRange /\ offset \in Nat
  /\ seen \subseteq SUBSET Threads /\ steady \subseteq Listed
  /\ windows \subseteq Windows /\ starts \subseteq 0 .. LastTime

(* When the total says that there are no more pages, the client has got    *)
(* every row to which nothing happened meanwhile: mail that arrives pushes *)
(* rows down, onto pages that are still to come, and the total that ends   *)
(* the list is counted after its last page.  Only a row above it that      *)
(* disappears or falls - a thread that is answered after the last day of a *)
(* range, an older copy of a mail - makes a row slip to a page that was    *)
(* read before.  And all is of its type.                                   *)
PagesMissNothing ==
  /\ ListingTypeOK
  /\ at = "count" /\ ~HasNextPage => steady \subseteq seen

(* A thread is shown through an alias only if its newest message is within *)
(* the range asked for, the alias's dates and the company's time frame,    *)
(* and with a contact only if a message is in the time frame, as they were *)
(* at some moment of the request.                                          *)
ShownWasAllowed ==
  [][\A row \in seen' \ seen :
       /\ kind = "contact" => \E s \in starts, t \in row : \E m \in times[t] : s <= m
       /\ kind = "alias" =>
            \E w \in windows, s \in starts, t \in row :
              /\ w.from <= Newest(t) /\ Newest(t) <= w.upto /\ s <= Newest(t)
              /\ durationParams.from <= Newest(t) /\ Newest(t) <= durationParams.upto]_listingVars
=============================================================================
