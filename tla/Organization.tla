----------------------------- MODULE Organization -----------------------------
(***************************************************************************)
(* What a tenant's administrator sets up: the row of organization_operation*)
(* (organizationOperation.service.ts: the onboarding step, the time frame  *)
(* of the e-mails that may be read, the default expiries) and the          *)
(* credentials of the mail providers (provider.service.ts), which the      *)
(* secret manager keeps for all tenants in one JSON text                   *)
(* (secretManager.service.ts).                                             *)
(*                                                                         *)
(* Every request reads, waits and writes back, without a lock.  Reading    *)
(* the time frame is such a request, too: getEmailAccessTimeFrame writes   *)
(* what it has read, brought to the present day, back into the row.        *)
(*                                                                         *)
(* A step is its onboardingPage; a day has a number (all days are of the   *)
(* same length) and is the server's.  The row is modelled for one tenant.  *)
(* emailAccessTimeRangeInYears is the range in days in another unit.       *)
(* That ETL approves of a credential is part of its request's arrival: a   *)
(* refused one changes nothing.                                            *)
(***************************************************************************)
EXTENDS Integers

CONSTANTS Tenants,
          ServiceTypes,    \* of the credentials: GSUITE, OUTLOOK
          Outlook,         \* the one with a tenant id
          Credentials,     \* what is uploaded, a tenant id included
          Durations,       \* the default expiries that are set
          Requests,        \* bounds how many requests are served at once
          LastDay,         \* bounds how many days pass
          Null

ASSUME SetUpAssumption ==
  /\ Outlook \in ServiceTypes
  /\ Null \notin Credentials /\ Null \notin 0 .. LastDay
  /\ Durations \subseteq Nat \ {0}
  /\ LastDay \in Nat

VARIABLES step,         \* onboardingPage
          frame,        \* the columns of the time frame
          expiry,       \* the default durations of collaborators and aliases
          secrets,      \* the entries of the secret
          received,     \* the tenants with isTenantIdRecieved
          today,
          req,          \* the requests in service
          visited,      \* history, read by no action: every step there was,
          asked,        \* the frame that the administrator set last,
          stored,       \* of each entry what was stored last,
          raced,        \* what overlapping requests may have changed:
                        \* the step, the frame,
          overlapped    \* and the entries

vars == <<step, frame, expiry, secrets, received, today, req, visited, asked, stored,
          raced, overlapped>>
stepVars == <<step, visited>>
frameVars == <<frame, asked, today>>
secretVars == <<secrets, received, stored, overlapped>>

Completed == 5

Steps == 0 .. Completed

Days == 0 .. LastDay

Unlimited == -1    \* UNLIMITED_ACCESS, UNLIMITED_EXPIRATION

(* kind is isEmailAccessTimeFrameSet and isRollingTimeFrameSet; all e-mail *)
(* has no start, a frame has one.                                          *)
Frame == [kind : {"all", "fixed", "rolling"}, start : Days \cup {Null},
          range : Days \cup {Unlimited}]

Entries == Tenants \X ServiceTypes

Secret == [Entries -> Credentials \cup {Null}]

Idle == [at |-> "idle"]

Tasks ==
  [at : {"step"}, next : Steps]
    \cup [at : {"expiry"}, of : {"collaborator", "alias"}, duration : Durations \cup {Unlimited}]
    \cup [at : {"readback"}, kind : {"all", "fixed", "rolling"}, start : Days \cup {Null}]
    \cup [at : {"frame"}, by : {"admin", "readback"}, row : Frame]
    \cup [at : {"secret"}, entry : Entries, value : Credentials, copy : Secret,
          then : {"receive", "end"}]
    \cup [at : {"receive"}, tenant : Tenants]

NoFrame == [kind |-> "all", start |-> Null, range |-> Unlimited]

Init ==
  /\ step = 0 /\ visited = {0}
  /\ frame = NoFrame /\ asked = NoFrame /\ today = 0
  /\ expiry = [k \in {"collaborator", "alias"} |-> Unlimited]
  /\ secrets = [e \in Entries |-> Null] /\ stored = secrets /\ received = {}
  /\ req = [r \in Requests |-> Idle]
  /\ raced = {} /\ overlapped = {}

Become(r, t) == req' = [req EXCEPT ![r] = t]

Begin(r, t) == req[r] = Idle /\ Become(r, t)

Others(r, S) == { q \in Requests \ {r} : req[q].at \in S }
-----------------------------------------------------------------------------
(* getNextOnboardingStep.                                                  *)
NextOnboardingStep(s) == IF s = Completed THEN s ELSE s + 1

(* Mutant: the step the client believes to be at is not compared. *)
StepRead_Unchecked(r, currentStep) ==
  /\ Begin(r, [at |-> "step", next |-> NextOnboardingStep(currentStep)])
  /\ raced' = raced \cup (IF Others(r, {"step"}) # {} THEN {"step"} ELSE {})
  /\ UNCHANGED <<stepVars, frameVars, secretVars, expiry>>

(* updateOnboardingStep compares the client's step with the stored one.    *)
StepRead(r, currentStep) ==
  /\ currentStep = step
  /\ Begin(r, [at |-> "step", next |-> NextOnboardingStep(currentStep)])
  /\ raced' = raced \cup (IF Others(r, {"step"}) # {} THEN {"step"} ELSE {})
  /\ UNCHANGED <<stepVars, frameVars, secretVars, expiry>>

StepLands(r) ==
  /\ req[r].at = "step"
  /\ step' = req[r].next
  /\ visited' = visited \cup {req[r].next}
  /\ Become(r, Idle)
  /\ UNCHANGED <<frameVars, secretVars, expiry, raced>>

(* updateDefaultCollaboratorExpiry and updateDefaultAliasExpiry: the flag  *)
(* that is not set makes the duration unlimited.                           *)
ExpiryRead(r, k, duration) ==
  /\ Begin(r, [at |-> "expiry", of |-> k, duration |-> duration])
  /\ UNCHANGED <<stepVars, frameVars, secretVars, expiry, raced>>

ExpiryLands(r) ==
  /\ req[r].at = "expiry"
  /\ expiry' = [expiry EXCEPT ![req[r].of] = req[r].duration]
  /\ Become(r, Idle)
  /\ UNCHANGED <<stepVars, frameVars, secretVars, raced>>
-----------------------------------------------------------------------------
(* Mutant: the days are subtracted the other way round. *)
FrameOf_Reversed(kind, start) ==
  IF kind = "all" THEN NoFrame
  ELSE [kind |-> kind, start |-> start,
        range |-> IF start = Null THEN Unlimited ELSE start - today]

(* The row that updateEmailAccessTimeFrame writes.                         *)
FrameOf(kind, start) ==
  IF kind = "all" THEN NoFrame
  ELSE [kind |-> kind, start |-> start,
        range |-> IF start = Null THEN Unlimited ELSE today - start]

(* Mutant: a rolling frame keeps its start. *)
CurrentStart_Fixed == frame.start

(* getCurrentAccessStartDate.                                              *)
CurrentStart ==
  IF frame.kind = "rolling" /\ frame.start # Null /\ frame.start < today
  THEN today - frame.range ELSE frame.start

(* The administrator's update: a start is validated not to be later than   *)
(* now.                                                                    *)
FrameUpdate(r, kind, start) ==
  /\ start <= today
  /\ Begin(r, [at |-> "frame", by |-> "admin", row |-> FrameOf(kind, start)])
  /\ UNCHANGED <<stepVars, frameVars, secretVars, expiry, raced>>

(* getEmailAccessTimeFrame reads the row; updateEmailAccessTimeFrame, when *)
(* it has read it again, computes the range, maybe on the next day.        *)
FrameRead(r) ==
  /\ Begin(r, [at |-> "readback", kind |-> frame.kind, start |-> CurrentStart])
  /\ UNCHANGED <<stepVars, frameVars, secretVars, expiry, raced>>

FrameReadBack(r) ==
  /\ req[r].at = "readback"
  /\ Become(r, [at |-> "frame", by |-> "readback", row |-> FrameOf(req[r].kind, req[r].start)])
  /\ UNCHANGED <<stepVars, frameVars, secretVars, expiry, raced>>

(* An update of the administrator is at risk from those that have read the *)
(* row before it and will write it after; it heals what an earlier race    *)
(* left.                                                                   *)
FrameLands(r) ==
  LET readers == { q \in Others(r, {"readback", "frame"}) :
                     req[q].at = "frame" => req[q].by = "readback" }
  IN  /\ req[r].at = "frame"
      /\ frame' = req[r].row
      /\ IF req[r].by = "admin"
         THEN /\ asked' = req[r].row
              /\ raced' = (raced \ {"frame"}) \cup (IF readers # {} THEN {"frame"} ELSE {})
         ELSE UNCHANGED <<asked, raced>>
      /\ Become(r, Idle)
      /\ UNCHANGED <<stepVars, today, secretVars, expiry>>

(* Midnight: whoever has read a rolling frame computes its range a day     *)
(* later.                                                                  *)
Midnight ==
  /\ today < LastDay
  /\ today' = today + 1
  /\ raced' = raced \cup (IF \E q \in Requests : req[q].at = "readback" /\ req[q].kind = "rolling"
                          THEN {"frame"} ELSE {})
  /\ UNCHANGED <<stepVars, frame, asked, secretVars, expiry, req>>
-----------------------------------------------------------------------------
(* addCredential reads the whole text.  Those under way for other entries  *)
(* have read it without this one, and it without theirs.                   *)
SecretRead(r, entry, value, then) ==
  LET others == { q \in Others(r, {"secret"}) : req[q].entry # entry }
  IN  /\ Begin(r, [at |-> "secret", entry |-> entry, value |-> value, copy |-> secrets, then |-> then])
      /\ overlapped' = overlapped \cup { req[q].entry : q \in others }
                                  \cup (IF others # {} THEN {entry} ELSE {})
      /\ UNCHANGED <<stepVars, frameVars, secrets, received, stored, expiry, raced>>

(* insert stores a credential of any service, updateTenantInformation a    *)
(* tenant id of OUTLOOK.                                                   *)
UploadCredential(r, tenant, type, value) == SecretRead(r, <<tenant, type>>, value, "end")

UpdateTenantInformation(r, tenant, value) == SecretRead(r, <<tenant, Outlook>>, value, "receive")

(* Mutant: the text is begun anew. *)
SecretLands_Anew(r) ==
  /\ req[r].at = "secret"
  /\ secrets' = [e \in Entries |-> IF e = req[r].entry THEN req[r].value ELSE Null]
  /\ stored' = [stored EXCEPT ![req[r].entry] = req[r].value]
  /\ IF req[r].then = "receive" THEN Become(r, [at |-> "receive", tenant |-> req[r].entry[1]])
     ELSE Become(r, Idle)
  /\ UNCHANGED <<stepVars, frameVars, received, overlapped, expiry, raced>>

SecretLands(r) ==
  /\ req[r].at = "secret"
  /\ secrets' = [req[r].copy EXCEPT ![req[r].entry] = req[r].value]
  /\ stored' = [stored EXCEPT ![req[r].entry] = req[r].value]
  /\ IF req[r].then = "receive" THEN Become(r, [at |-> "receive", tenant |-> req[r].entry[1]])
     ELSE Become(r, Idle)
  /\ UNCHANGED <<stepVars, frameVars, received, overlapped, expiry, raced>>

(* The last statement of updateTenantInformation.                          *)
TenantReceived(r) ==
  /\ req[r].at = "receive"
  /\ received' = received \cup {req[r].tenant}
  /\ Become(r, Idle)
  /\ UNCHANGED <<stepVars, frameVars, secrets, stored, overlapped, expiry, raced>>

(* A call fails: what the request has written before stays.                *)
RequestFails(r) ==
  /\ req[r] # Idle
  /\ Become(r, Idle)
  /\ UNCHANGED <<stepVars, frameVars, secretVars, expiry, raced>>

OnboardingNext ==
  \E r \in Requests : StepLands(r) \/ RequestFails(r) \/ \E s \in Steps : StepRead(r, s)

ExpiryNext ==
  \E r \in Requests :
    \/ ExpiryLands(r) \/ RequestFails(r)
    \/ \E k \in {"collaborator", "alias"}, d \in Durations \cup {Unlimited} : ExpiryRead(r, k, d)

FrameNext ==
  \/ Midnight
  \/ \E r \in Requests :
       \/ FrameRead(r) \/ FrameReadBack(r) \/ FrameLands(r) \/ RequestFails(r)
       \/ \E kind \in {"all", "fixed", "rolling"}, start \in Days : FrameUpdate(r, kind, start)

SecretNext ==
  \E r \in Requests :
    \/ SecretLands(r) \/ TenantReceived(r) \/ RequestFails(r)
    \/ \E t \in Tenants, value \in Credentials :
         \/ UpdateTenantInformation(r, t, value)
         \/ \E type \in ServiceTypes : UploadCredential(r, t, type, value)

Next == OnboardingNext \/ ExpiryNext \/ FrameNext \/ SecretNext

Spec == Init /\ [][Next]_vars
-----------------------------------------------------------------------------
TypeOK ==
  /\ step \in Steps /\ visited \subseteq Steps
  /\ frame \in Frame /\ asked \in Frame /\ today \in Days
  /\ expiry \in [{"collaborator", "alias"} -> Durations \cup {Unlimited}]
  /\ secrets \in Secret /\ stored \in Secret /\ received \subseteq Tenants
  /\ req \in [Requests -> {Idle} \cup Tasks]
  /\ raced \subseteq {"step", "frame"} /\ overlapped \subseteq Entries

(* However updates of the step overlap, repeat and come late, no step is   *)
(* left out on the way, and only overlapping ones ever lead back.          *)
OnboardingInOrder ==
  /\ \A s \in visited : 0 .. s \subseteq visited
  /\ "step" \in raced \/ \A s \in visited : s <= step

(* Every look at the time frame writes it, on whatever day, and yet it     *)
(* stays what the administrator has asked for - a fixed frame its start, a *)
(* rolling one its length - unless a look that straddled his update or (a  *)
(* rolling one) midnight wrote its old or shifted values over it.          *)
FrameIsAsAsked ==
  \/ "frame" \in raced
  \/ /\ frame.kind = asked.kind
     /\ frame.kind = "all" => frame = NoFrame
     /\ frame.kind = "fixed" => frame.start = asked.start
     /\ frame.kind = "rolling" => frame.range = asked.range

(* Every change of the secret writes the entries of all tenants, and yet   *)
(* an entry is what was last stored for it unless changes of others        *)
(* overlapped with that; and whoever is known to have given a tenant id    *)
(* has one stored.                                                         *)
SecretsStand ==
  /\ \A e \in Entries : e \in overlapped \/ secrets[e] = stored[e]
  /\ \A t \in received : stored[<<t, Outlook>>] # Null
=============================================================================
