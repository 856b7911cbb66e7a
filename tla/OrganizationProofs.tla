-------------------------- MODULE OrganizationProofs --------------------------
(***************************************************************************)
(* The invariants of Organization, for any number of requests, tenants and *)
(* days.  Each of its parts gets an inductive invariant of its own.  The    *)
(* parts share only the requests in service: PartsApart says that a step   *)
(* of one of them leaves the tasks and the state of the others alone, so   *)
(* that the proof for a part looks at the part's own actions.              *)
(***************************************************************************)
EXTENDS Organization, TLAPS

At(at) == { q \in Requests : req[q].at = at }

(* A row that was computed on some day up to today.                        *)
Computed(f) ==
  \/ f = NoFrame
  \/ /\ f.kind \in {"fixed", "rolling"}
     /\ f.start \in 0 .. today /\ f.range \in 0 .. today
     /\ f.start + f.range <= today

(* The types, and what the dates of a row need to be computed from it.     *)
TInv ==
  /\ TypeOK
  /\ Computed(frame) /\ Computed(asked)
  /\ \A q \in At("frame") : Computed(req[q].row)
  /\ \A q \in At("readback") : \/ req[q].kind = "all"
                               \/ req[q].kind # "all" /\ req[q].start \in 0 .. today

LEMMA FrameOfComputed ==
  ASSUME today \in Days, NEW kind \in {"all", "fixed", "rolling"}, NEW start,
         kind # "all" => start \in 0 .. today
  PROVE  FrameOf(kind, start) \in Frame /\ Computed(FrameOf(kind, start))
<1>1. CASE kind = "all"
  BY <1>1 DEF FrameOf, NoFrame, Computed, Frame
<1>2. CASE kind # "all"
  <2>1. start \in 0 .. LastDay /\ start # Null
    BY <1>2, SetUpAssumption DEF Days
  <2>2. FrameOf(kind, start) = [kind |-> kind, start |-> start, range |-> today - start]
    BY <1>2, <2>1 DEF FrameOf
  <2>3. today - start \in 0 .. today /\ start + (today - start) <= today
    BY <1>2, SetUpAssumption DEF Days
  <2> QED
    BY <1>2, <2>1, <2>2, <2>3, SetUpAssumption DEF Computed, Frame, Days
<1> QED
  BY <1>1, <1>2

LEMMA TInvInit == Init => TInv
BY SetUpAssumption DEF Init, TInv, TypeOK, Steps, Completed, Frame, NoFrame, Days, Secret, Idle,
   At, Computed, Unlimited

LEMMA CurrentStartInRange ==
  ASSUME TInv
  PROVE  /\ CurrentStart \in Days \cup {Null}
         /\ frame.kind # "all" => CurrentStart \in 0 .. today
         /\ frame.kind = "rolling" => today - CurrentStart = frame.range
         /\ frame.kind # "rolling" => CurrentStart = frame.start
<1>1. CASE frame = NoFrame
  BY <1>1 DEF NoFrame, CurrentStart
<1>2. CASE frame # NoFrame
  <2>1. /\ frame.start \in 0 .. today /\ frame.range \in 0 .. today
        /\ frame.start + frame.range <= today /\ today \in 0 .. LastDay /\ frame.start # Null
    BY <1>2, SetUpAssumption DEF TInv, Computed, TypeOK, Days
  <2>2. CASE frame.kind = "rolling" /\ frame.start < today
    BY <2>1, <2>2, SetUpAssumption DEF CurrentStart, Days
  <2>3. CASE ~(frame.kind = "rolling" /\ frame.start < today)
    BY <2>1, <2>3, SetUpAssumption DEF CurrentStart, Days
  <2> QED
    BY <2>2, <2>3
<1> QED
  BY <1>1, <1>2

(* Next, with the two uploads of a secret as one action.                   *)
GoesOn(r) == \/ StepLands(r) \/ ExpiryLands(r)
             \/ FrameRead(r) \/ FrameReadBack(r) \/ FrameLands(r)
             \/ SecretLands(r) \/ TenantReceived(r) \/ RequestFails(r)

Arrives(r) ==
  \/ \E s \in Steps : StepRead(r, s)
  \/ \E k \in {"collaborator", "alias"}, d \in Durations \cup {Unlimited} : ExpiryRead(r, k, d)
  \/ \E kind \in {"all", "fixed", "rolling"}, start \in Days : FrameUpdate(r, kind, start)
  \/ \E e \in Entries, v \in Credentials, then \in {"receive", "end"} :
       (then = "receive" => e[2] = Outlook) /\ SecretRead(r, e, v, then)

LEMMA NextSteps ==
  ASSUME Next
  PROVE  Midnight \/ \E r \in Requests : GoesOn(r) \/ Arrives(r)
<1>1. CASE OnboardingNext
  BY <1>1 DEF OnboardingNext, GoesOn, Arrives
<1>2. CASE ExpiryNext
  BY <1>2 DEF ExpiryNext, GoesOn, Arrives
<1>3. CASE FrameNext
  BY <1>3 DEF FrameNext, GoesOn, Arrives
<1>4. ASSUME NEW r \in Requests, NEW t \in Tenants, NEW v \in Credentials,
             UpdateTenantInformation(r, t, v)
      PROVE  Arrives(r)
  <2>1. <<t, Outlook>> \in Entries /\ <<t, Outlook>>[2] = Outlook
    BY SetUpAssumption DEF Entries
  <2> QED
    BY <1>4, <2>1 DEF UpdateTenantInformation, Arrives
<1>5. ASSUME NEW r \in Requests, NEW t \in Tenants, NEW v \in Credentials,
             NEW type \in ServiceTypes, UploadCredential(r, t, type, v)
      PROVE  Arrives(r)
  <2>1. <<t, type>> \in Entries
    BY DEF Entries
  <2> QED
    BY <1>5, <2>1 DEF UploadCredential, Arrives
<1>6. CASE SecretNext
  BY <1>4, <1>5, <1>6 DEF SecretNext, GoesOn
<1> QED
  BY <1>1, <1>2, <1>3, <1>6 DEF Next

(* A request goes on as t, and everything else keeps its type.             *)
LEMMA TInvKept ==
  ASSUME TInv, NEW r \in Requests, NEW t \in {Idle} \cup Tasks, req' = [req EXCEPT ![r] = t],
         t.at = "frame" => Computed(t.row),
         t.at = "readback" => t.kind = "all" \/ t.start \in 0 .. today,
         today' = today, frame' \in Frame, Computed(frame'), asked' \in Frame, Computed(asked'),
         step' \in Steps, visited' \subseteq Steps,
         expiry' \in [{"collaborator", "alias"} -> Durations \cup {Unlimited}],
         secrets' \in Secret, stored' \in Secret, received' \subseteq Tenants,
         raced' \subseteq {"step", "frame"}, overlapped' \subseteq Entries
  PROVE  TInv'
<1>1. TypeOK'
  BY DEF TInv, TypeOK
<1>2. \A f : Computed(f) => Computed(f)'
  BY DEF Computed
<1>3. Computed(frame)' /\ Computed(asked)'
  BY DEF Computed
<1>4. \A q \in Requests : req'[q] = IF q = r THEN t ELSE req[q]
  BY DEF TInv, TypeOK
<1>5. \A q \in At("frame")' : Computed(req[q].row)'
  BY <1>4 DEF TInv, At, Computed
<1>6. \A q \in At("readback")' : \/ req'[q].kind = "all"
                                 \/ req'[q].kind # "all" /\ req'[q].start \in 0 .. today'
  BY <1>4 DEF TInv, At
<1> QED
  BY <1>1, <1>3, <1>5, <1>6 DEF TInv

LEMMA TInvNext == TInv /\ [Next]_vars => TInv'
<1> SUFFICES ASSUME TInv, [Next]_vars PROVE TInv'
  OBVIOUS
<1> USE DEF Become, Begin
<1>t. /\ step \in Steps /\ visited \subseteq Steps
      /\ frame \in Frame /\ asked \in Frame /\ today \in Days
      /\ expiry \in [{"collaborator", "alias"} -> Durations \cup {Unlimited}]
      /\ secrets \in Secret /\ stored \in Secret /\ received \subseteq Tenants
      /\ req \in [Requests -> {Idle} \cup Tasks]
      /\ raced \subseteq {"step", "frame"} /\ overlapped \subseteq Entries
      /\ Computed(frame) /\ Computed(asked)
  BY DEF TInv, TypeOK
<1>i. Idle \in {Idle} \cup Tasks /\ Idle.at = "idle"
  BY DEF Idle
<1>n. \A s \in Steps : NextOnboardingStep(s) \in Steps
  BY DEF NextOnboardingStep, Steps, Completed
<1>1. ASSUME NEW r \in Requests, NEW s \in Steps, StepRead(r, s) PROVE TInv'
  <2> DEFINE t == [at |-> "step", next |-> NextOnboardingStep(s)]
  <2>1. t \in Tasks /\ t.at = "step"
    BY <1>n DEF Tasks
  <2>2. req' = [req EXCEPT ![r] = t] /\ raced' \subseteq {"step", "frame"}
        /\ UNCHANGED <<stepVars, frameVars, secretVars, expiry>>
    BY <1>t, <1>1 DEF StepRead
  <2> HIDE DEF t
  <2> QED
    BY <1>t, <2>1, <2>2, TInvKept DEF stepVars, frameVars, secretVars
<1>2. ASSUME NEW r \in Requests, StepLands(r) PROVE TInv'
  <2>1. req[r].next \in Steps
    BY <1>t, <1>2 DEF StepLands, Tasks, Idle
  <2>2. step' \in Steps /\ visited' \subseteq Steps
    BY <1>t, <1>2, <2>1 DEF StepLands
  <2> QED
    BY <1>t, <1>i, <1>2, <2>2, TInvKept DEF StepLands, frameVars, secretVars
<1>3. ASSUME NEW r \in Requests, NEW k \in {"collaborator", "alias"},
             NEW d \in Durations \cup {Unlimited}, ExpiryRead(r, k, d)
      PROVE  TInv'
  <2> DEFINE t == [at |-> "expiry", of |-> k, duration |-> d]
  <2>1. t \in Tasks /\ t.at = "expiry"
    BY DEF Tasks
  <2>2. req' = [req EXCEPT ![r] = t] /\ UNCHANGED <<stepVars, frameVars, secretVars, expiry, raced>>
    BY <1>3 DEF ExpiryRead
  <2> HIDE DEF t
  <2> QED
    BY <1>t, <2>1, <2>2, TInvKept DEF stepVars, frameVars, secretVars
<1>4. ASSUME NEW r \in Requests, ExpiryLands(r) PROVE TInv'
  <2>1. req[r].of \in {"collaborator", "alias"} /\ req[r].duration \in Durations \cup {Unlimited}
    BY <1>t, <1>4 DEF ExpiryLands, Tasks, Idle
  <2>2. expiry' \in [{"collaborator", "alias"} -> Durations \cup {Unlimited}]
    BY <1>t, <1>4, <2>1 DEF ExpiryLands
  <2> QED
    BY <1>t, <1>i, <1>4, <2>2, TInvKept DEF ExpiryLands, stepVars, frameVars, secretVars
<1>5. ASSUME NEW r \in Requests, NEW kind \in {"all", "fixed", "rolling"}, NEW start \in Days,
             FrameUpdate(r, kind, start)
      PROVE  TInv'
  <2> DEFINE t == [at |-> "frame", by |-> "admin", row |-> FrameOf(kind, start)]
  <2>1. start \in 0 .. today
    BY <1>t, <1>5, SetUpAssumption DEF FrameUpdate, Days
  <2>2. FrameOf(kind, start) \in Frame /\ Computed(FrameOf(kind, start))
    BY <1>t, <2>1, FrameOfComputed
  <2>3. t \in Tasks /\ t.at = "frame" /\ Computed(t.row)
    BY <2>2 DEF Tasks
  <2>4. req' = [req EXCEPT ![r] = t] /\ UNCHANGED <<stepVars, frameVars, secretVars, expiry, raced>>
    BY <1>5 DEF FrameUpdate
  <2> HIDE DEF t
  <2> QED
    BY <1>t, <2>3, <2>4, TInvKept DEF stepVars, frameVars, secretVars
<1>6. ASSUME NEW r \in Requests, FrameRead(r) PROVE TInv'
  <2> DEFINE t == [at |-> "readback", kind |-> frame.kind, start |-> CurrentStart]
  <2>1. frame.kind \in {"all", "fixed", "rolling"}
    BY <1>t DEF Frame
  <2>2. t \in Tasks /\ t.at = "readback" /\ (t.kind = "all" \/ t.start \in 0 .. today)
    BY <2>1, CurrentStartInRange DEF Tasks
  <2>3. req' = [req EXCEPT ![r] = t] /\ UNCHANGED <<stepVars, frameVars, secretVars, expiry, raced>>
    BY <1>6 DEF FrameRead
  <2> HIDE DEF t
  <2> QED
    BY <1>t, <2>2, <2>3, TInvKept DEF stepVars, frameVars, secretVars
<1>7. ASSUME NEW r \in Requests, FrameReadBack(r) PROVE TInv'
  <2> DEFINE row == FrameOf(req[r].kind, req[r].start)
             t == [at |-> "frame", by |-> "readback", row |-> row]
  <2>1. req[r].kind \in {"all", "fixed", "rolling"}
        /\ (req[r].kind # "all" => req[r].start \in 0 .. today)
    BY <1>t, <1>7 DEF FrameReadBack, Tasks, Idle, TInv, At
  <2>2. row \in Frame /\ Computed(row)
    BY <1>t, <2>1, FrameOfComputed
  <2> HIDE DEF row
  <2>3. t \in Tasks /\ t.at = "frame" /\ Computed(t.row)
    BY <2>2 DEF Tasks
  <2>4. req' = [req EXCEPT ![r] = t] /\ UNCHANGED <<stepVars, frameVars, secretVars, expiry, raced>>
    BY <1>7 DEF FrameReadBack, row
  <2> HIDE DEF t
  <2> QED
    BY <1>t, <2>3, <2>4, TInvKept DEF stepVars, frameVars, secretVars
<1>8. ASSUME NEW r \in Requests, FrameLands(r) PROVE TInv'
  <2>1. req[r].row \in Frame /\ Computed(req[r].row)
    BY <1>t, <1>8 DEF FrameLands, Tasks, Idle, TInv, At
  <2>2. /\ frame' = req[r].row /\ (asked' = req[r].row \/ asked' = asked)
        /\ raced' \subseteq {"step", "frame"}
    BY <1>t, <1>8 DEF FrameLands
  <2>3. req' = [req EXCEPT ![r] = Idle] /\ UNCHANGED <<stepVars, today, secretVars, expiry>>
    BY <1>8 DEF FrameLands
  <2>4. frame' \in Frame /\ Computed(frame') /\ asked' \in Frame /\ Computed(asked')
    BY <1>t, <2>1, <2>2
  <2> QED
    BY <1>t, <1>i, <2>2, <2>3, <2>4, TInvKept DEF stepVars, secretVars
<1>9. CASE Midnight
  <2>1. /\ today' \in Days /\ today' = today + 1 /\ raced' \subseteq {"step", "frame"}
        /\ UNCHANGED <<stepVars, frame, asked, secretVars, expiry, req>>
    BY <1>t, <1>9, SetUpAssumption DEF Midnight, Days
  <2>2. TypeOK'
    BY <1>t, <2>1 DEF TypeOK, stepVars, secretVars
  <2>3. \A f : Computed(f) => Computed(f)'
    <3> SUFFICES ASSUME NEW f, Computed(f), f # NoFrame PROVE Computed(f)'
      BY DEF Computed
    <3>1. /\ f.kind \in {"fixed", "rolling"}
          /\ f.start \in 0 .. today /\ f.range \in 0 .. today /\ f.start + f.range <= today
      BY DEF Computed
    <3>2. f.start \in 0 .. today' /\ f.range \in 0 .. today' /\ f.start + f.range <= today'
      BY <1>t, <2>1, <3>1, SetUpAssumption DEF Days
    <3> QED
      BY <3>1, <3>2 DEF Computed
  <2>4. Computed(frame)' /\ Computed(asked)'
    BY <1>t, <2>1, <2>3
  <2>5. \A q \in At("frame") : Computed(req[q].row)'
    BY <2>3, <2>1 DEF TInv
  <2>6. \A q \in At("readback") : \/ req[q].kind = "all"
                                  \/ req[q].kind # "all" /\ req[q].start \in 0 .. today'
    BY <1>t, <2>1, SetUpAssumption DEF TInv, Days
  <2> QED
    BY <2>1, <2>2, <2>4, <2>5, <2>6 DEF TInv, At
<1>10. ASSUME NEW r \in Requests, NEW e \in Entries, NEW v \in Credentials,
              NEW then \in {"receive", "end"}, SecretRead(r, e, v, then)
       PROVE  TInv'
  <2> DEFINE t == [at |-> "secret", entry |-> e, value |-> v, copy |-> secrets, then |-> then]
  <2>1. t \in Tasks /\ t.at = "secret"
    BY <1>t DEF Tasks
  <2>2. req' = [req EXCEPT ![r] = t]
        /\ UNCHANGED <<stepVars, frameVars, secrets, received, stored, expiry, raced>>
    BY <1>10 DEF SecretRead
  <2>3. \A q \in Others(r, {"secret"}) : req[q].entry \in Entries
    BY <1>t DEF Others, Tasks, Idle
  <2>4. overlapped' \subseteq Entries
    BY <1>t, <1>10, <2>3 DEF SecretRead
  <2> HIDE DEF t
  <2> QED
    BY <1>t, <2>1, <2>2, <2>4, TInvKept DEF stepVars, frameVars
<1>11. ASSUME NEW r \in Requests, SecretLands(r) PROVE TInv'
  <2>1. req[r].entry \in Entries /\ req[r].value \in Credentials /\ req[r].copy \in Secret
    BY <1>t, <1>11 DEF SecretLands, Tasks, Idle
  <2>2. secrets' \in Secret /\ stored' \in Secret
    BY <1>t, <1>11, <2>1 DEF SecretLands, Secret
  <2> DEFINE t == IF req[r].then = "receive" THEN [at |-> "receive", tenant |-> req[r].entry[1]] ELSE Idle
  <2>3. t \in {Idle} \cup Tasks /\ t.at \in {"idle", "receive"}
    BY <1>i, <2>1 DEF Tasks, Entries
  <2>4. req' = [req EXCEPT ![r] = t]
        /\ UNCHANGED <<stepVars, frameVars, received, overlapped, expiry, raced>>
    BY <1>11 DEF SecretLands
  <2> HIDE DEF t
  <2> QED
    BY <1>t, <2>2, <2>3, <2>4, TInvKept DEF stepVars, frameVars
<1>12. ASSUME NEW r \in Requests, TenantReceived(r) PROVE TInv'
  <2>1. req[r].tenant \in Tenants
    BY <1>t, <1>12 DEF TenantReceived, Tasks, Idle
  <2> QED
    BY <1>t, <1>i, <1>12, <2>1, TInvKept DEF TenantReceived, stepVars, frameVars
<1>13. ASSUME NEW r \in Requests, RequestFails(r) PROVE TInv'
  BY <1>t, <1>i, <1>13, TInvKept DEF RequestFails, stepVars, frameVars, secretVars
<1>14. CASE UNCHANGED vars
  BY <1>14 DEF vars, TInv, TypeOK, Computed, At
<1>15. ASSUME NEW r \in Requests, Arrives(r) PROVE TInv'
  BY <1>15, <1>1, <1>3, <1>5, <1>10 DEF Arrives
<1>16. ASSUME NEW r \in Requests, GoesOn(r) PROVE TInv'
  BY <1>16, <1>2, <1>4, <1>6, <1>7, <1>8, <1>11, <1>12, <1>13 DEF GoesOn
<1> QED
  BY <1>9, <1>14, <1>15, <1>16, NextSteps

(* TypeOK: every field of the row, of the secret and of the requests in    *)
(* service keeps its type; a range is never negative but when unlimited.   *)
THEOREM TypeCorrect == Spec => []TypeOK
<1>1. TInv => TypeOK
  BY DEF TInv
<1> QED
  BY TInvInit, TInvNext, <1>1, PTL DEF Spec
-----------------------------------------------------------------------------
(* What an action of another part does to the tasks at the places S and to *)
(* the state of a part.                                                    *)
Keeps(S) == \A q \in Requests : req'[q].at \in S => req'[q] = req[q]

StepApart == Keeps({"step"}) /\ UNCHANGED stepVars /\ ("step" \in raced => "step" \in raced')

FrameApart ==
  Keeps({"readback", "frame"}) /\ UNCHANGED <<frame, frameVars>> /\ ("frame" \in raced => "frame" \in raced')

SecretApart == Keeps({"secret", "receive"}) /\ UNCHANGED secretVars

StepMoves == \E r \in Requests : StepLands(r) \/ \E s \in Steps : StepRead(r, s)

FrameMoves ==
  \/ Midnight
  \/ \E r \in Requests :
       \/ FrameRead(r) \/ FrameReadBack(r) \/ FrameLands(r)
       \/ \E kind \in {"all", "fixed", "rolling"}, start \in Days : FrameUpdate(r, kind, start)

SecretMoves ==
  \E r \in Requests :
    \/ SecretLands(r) \/ TenantReceived(r)
    \/ \E e \in Entries, v \in Credentials, then \in {"receive", "end"} :
         (then = "receive" => e[2] = Outlook) /\ SecretRead(r, e, v, then)

LEMMA PartsApart ==
  ASSUME TypeOK, [Next]_vars
  PROVE  /\ StepMoves \/ StepApart
         /\ FrameMoves \/ FrameApart
         /\ SecretMoves \/ SecretApart
<1> USE DEF Become, Begin, Keeps, StepApart, FrameApart, SecretApart
<1>t. DOMAIN req = Requests /\ req \in [Requests -> {Idle} \cup Tasks] /\ Idle.at = "idle"
  BY DEF TypeOK, Idle
<1>1. ASSUME NEW r \in Requests, NEW s \in Steps, StepRead(r, s)
      PROVE  FrameApart /\ SecretApart
  BY <1>t, <1>1 DEF StepRead, frameVars, secretVars
<1>2. ASSUME NEW r \in Requests, StepLands(r) PROVE FrameApart /\ SecretApart
  BY <1>t, <1>2 DEF StepLands, frameVars, secretVars
<1>3. ASSUME NEW r \in Requests, NEW k \in {"collaborator", "alias"},
             NEW d \in Durations \cup {Unlimited}, ExpiryRead(r, k, d)
      PROVE  StepApart /\ FrameApart /\ SecretApart
  BY <1>t, <1>3 DEF ExpiryRead, stepVars, frameVars, secretVars
<1>4. ASSUME NEW r \in Requests, ExpiryLands(r) \/ RequestFails(r)
      PROVE  StepApart /\ FrameApart /\ SecretApart
  BY <1>t, <1>4 DEF ExpiryLands, RequestFails, stepVars, frameVars, secretVars
<1>5. ASSUME NEW r \in Requests, NEW kind \in {"all", "fixed", "rolling"}, NEW start \in Days,
             FrameUpdate(r, kind, start)
      PROVE  StepApart /\ SecretApart
  BY <1>t, <1>5 DEF FrameUpdate, stepVars, secretVars
<1>6. ASSUME NEW r \in Requests, FrameRead(r) \/ FrameReadBack(r) PROVE StepApart /\ SecretApart
  BY <1>t, <1>6 DEF FrameRead, FrameReadBack, stepVars, secretVars
<1>7. ASSUME NEW r \in Requests, FrameLands(r) PROVE StepApart /\ SecretApart
  <2>1. "step" \in raced => "step" \in raced'
    BY <1>7 DEF FrameLands
  <2> QED
    BY <1>t, <1>7, <2>1 DEF FrameLands, stepVars, secretVars
<1>8. CASE Midnight
  BY <1>t, <1>8 DEF Midnight, stepVars, secretVars, FrameMoves
<1>9. ASSUME NEW r \in Requests, NEW e \in Entries, NEW v \in Credentials,
             NEW then \in {"receive", "end"}, SecretRead(r, e, v, then)
      PROVE  StepApart /\ FrameApart
  BY <1>t, <1>9 DEF SecretRead, stepVars, frameVars
<1>10. ASSUME NEW r \in Requests, SecretLands(r) \/ TenantReceived(r)
       PROVE  StepApart /\ FrameApart
  BY <1>t, <1>10 DEF SecretLands, TenantReceived, stepVars, frameVars
<1>11. CASE UNCHANGED vars
  BY <1>11 DEF vars, stepVars, frameVars, secretVars
<1> HIDE DEF StepApart, FrameApart, SecretApart
<1>12. ASSUME NEW r \in Requests, GoesOn(r)
       PROVE  /\ StepMoves \/ StepApart
              /\ FrameMoves \/ FrameApart
              /\ SecretMoves \/ SecretApart
  BY <1>12, <1>2, <1>4, <1>6, <1>7, <1>10 DEF GoesOn, StepMoves, FrameMoves, SecretMoves
<1>13. ASSUME NEW r \in Requests, Arrives(r)
       PROVE  /\ StepMoves \/ StepApart
              /\ FrameMoves \/ FrameApart
              /\ SecretMoves \/ SecretApart
  BY <1>13, <1>1, <1>3, <1>5, <1>9 DEF Arrives, StepMoves, FrameMoves, SecretMoves
<1> QED
  BY <1>8, <1>11, <1>12, <1>13, NextSteps DEF FrameMoves
-----------------------------------------------------------------------------
(* The onboarding: an update under way leads to a step that was there      *)
(* before or to the one after such a step; without a race there is only    *)
(* one, and it leads to the next.                                          *)
OInv ==
  /\ step \in visited
  /\ \A s \in visited : 0 .. s \subseteq visited
  /\ \A q \in Requests : req[q].at = "step" => \/ req[q].next \in visited
                                               \/ req[q].next - 1 \in visited
  /\ \/ "step" \in raced
     \/ /\ \A s \in visited : s <= step
        /\ \A q \in Requests : req[q].at = "step" =>
             /\ req[q].next = NextOnboardingStep(step)
             /\ \A p \in Requests : req[p].at = "step" => p = q

LEMMA OInvInit == Init => OInv
BY DEF Init, OInv, Idle

LEMMA OInvNext == TypeOK /\ OInv /\ [Next]_vars => OInv'
<1> SUFFICES ASSUME TypeOK, OInv, [Next]_vars PROVE OInv'
  OBVIOUS
<1>t. /\ step \in 0 .. 5 /\ visited \subseteq 0 .. 5 /\ DOMAIN req = Requests
      /\ \A q \in Requests : req[q].at = "step" => req[q].next \in 0 .. 5
  BY DEF TypeOK, Steps, Completed, Tasks, Idle
<1>1. ASSUME NEW r \in Requests, NEW s \in Steps, StepRead(r, s) PROVE OInv'
  <2> DEFINE n == NextOnboardingStep(step)
             t == [at |-> "step", next |-> n]
  <2>1. /\ \A q \in Requests : req'[q] = IF q = r THEN t ELSE req[q]
        /\ UNCHANGED <<step, visited>>
    BY <1>t, <1>1 DEF StepRead, Begin, Become, stepVars
  <2>2. n \in visited \/ n - 1 \in visited
    BY <1>t DEF OInv, NextOnboardingStep, Completed
  <2>3. \/ "step" \in raced'
        \/ "step" \notin raced /\ \A q \in Requests \ {r} : req[q].at # "step"
    BY <1>1 DEF StepRead, Others
  <2>4. t.at = "step" /\ t.next = n
    OBVIOUS
  <2> HIDE DEF t
  <2>5. \A q \in Requests : req'[q].at = "step" => req'[q].next \in visited \/ req'[q].next - 1 \in visited
    BY <2>1, <2>2, <2>4 DEF OInv
  <2>6. CASE "step" \notin raced'
    <3>1. \A q \in Requests : req'[q].at = "step" => q = r /\ req'[q].next = n
      BY <2>1, <2>3, <2>4, <2>6
    <3>2. \A s0 \in visited : s0 <= step
      BY <2>3, <2>6 DEF OInv
    <3> QED
      BY <2>1, <2>5, <3>1, <3>2 DEF OInv, NextOnboardingStep
  <2> QED
    BY <2>1, <2>5, <2>6 DEF OInv
<1>2. ASSUME NEW r \in Requests, StepLands(r) PROVE OInv'
  <2> DEFINE n == req[r].next
  <2>1. /\ \A q \in Requests : req'[q] = IF q = r THEN Idle ELSE req[q]
        /\ step' = n /\ visited' = visited \cup {n} /\ raced' = raced
        /\ req[r].at = "step" /\ n \in 0 .. 5
    BY <1>t, <1>2 DEF StepLands, Become
  <2>2. 0 .. n \subseteq visited'
    <3>1. CASE n \in visited
      BY <2>1, <3>1 DEF OInv
    <3>2. CASE n - 1 \in visited
      BY <2>1, <3>2 DEF OInv
    <3> QED
      BY <2>1, <3>1, <3>2 DEF OInv
  <2>3. \A s \in visited' : 0 .. s \subseteq visited'
    BY <2>1, <2>2 DEF OInv
  <2>4. \A q \in Requests : req'[q].at = "step" => q # r /\ req'[q] = req[q]
    BY <2>1 DEF Idle
  <2>5. CASE "step" \notin raced
    <3>1. n = NextOnboardingStep(step) /\ \A q \in Requests : req[q].at = "step" => q = r
      BY <2>1, <2>5 DEF OInv
    <3>2. \A s \in visited' : s <= n
      BY <1>t, <2>1, <2>5, <3>1 DEF OInv, NextOnboardingStep, Completed
    <3>3. \A q \in Requests : req'[q].at # "step"
      BY <2>4, <3>1
    <3> QED
      BY <2>1, <2>3, <3>2, <3>3 DEF OInv
  <2>6. CASE "step" \in raced
    BY <2>1, <2>3, <2>4, <2>6 DEF OInv
  <2> QED
    BY <2>5, <2>6
<1>3. CASE StepApart
  BY <1>3 DEF StepApart, Keeps, stepVars, OInv, NextOnboardingStep
<1> QED
  BY <1>1, <1>2, <1>3, PartsApart DEF StepMoves

(* OnboardingInOrder: in updateOnboardingStep the comparison with the      *)
(* stored step and the write are two statements; however requests overlap  *)
(* there, no step is left out, and only overlapping ones lead back.        *)
THEOREM StepsInOrder == Spec => []OnboardingInOrder
<1>1. TInv => TypeOK
  BY DEF TInv
<1>2. OInv => OnboardingInOrder
  BY DEF OInv, OnboardingInOrder
<1> QED
  BY TInvInit, TInvNext, OInvInit, OInvNext, <1>1, <1>2, PTL DEF Spec
-----------------------------------------------------------------------------
(* The time frame: a row to be written back says the same as the one that  *)
(* was asked for, and what a look has read will, if it is computed today.  *)
Agrees(f) ==
  /\ f.kind = asked.kind
  /\ f.kind = "all" => f = NoFrame
  /\ f.kind = "fixed" => f.start = asked.start
  /\ f.kind = "rolling" => f.range = asked.range

FInv ==
  \/ "frame" \in raced
  \/ /\ Agrees(frame)
     /\ \A q \in Requests : req[q].at = "frame" /\ req[q].by = "readback" => Agrees(req[q].row)
     /\ \A q \in Requests : req[q].at = "readback" =>
          /\ req[q].kind = asked.kind
          /\ req[q].kind = "fixed" => req[q].start = asked.start
          /\ req[q].kind = "rolling" => today - req[q].start = asked.range

LEMMA FInvInit == Init => FInv
BY DEF Init, FInv, Idle, Agrees, NoFrame

LEMMA FInvNext == TInv /\ FInv /\ [Next]_vars => FInv'
<1> SUFFICES ASSUME TInv, FInv, [Next]_vars, "frame" \notin raced' PROVE FInv'
  BY DEF FInv
<1>t. /\ TypeOK /\ DOMAIN req = Requests /\ frame.kind \in {"all", "fixed", "rolling"}
  BY DEF TInv, TypeOK, Frame
<1>f. "frame" \notin raced => /\ Agrees(frame)
                              /\ \A q \in Requests : req[q].at = "frame" /\ req[q].by = "readback" => Agrees(req[q].row)
                              /\ \A q \in Requests : req[q].at = "readback" =>
                                   /\ req[q].kind = asked.kind
                                   /\ req[q].kind = "fixed" => req[q].start = asked.start
                                   /\ req[q].kind = "rolling" => today - req[q].start = asked.range
  BY DEF FInv
<1>1. ASSUME NEW r \in Requests, NEW kind \in {"all", "fixed", "rolling"}, NEW start \in Days,
             FrameUpdate(r, kind, start)
      PROVE  FInv'
  BY <1>t, <1>f, <1>1 DEF FrameUpdate, Begin, Become, frameVars, FInv, Agrees
<1>2. ASSUME NEW r \in Requests, FrameRead(r) PROVE FInv'
  <2>1. "frame" \notin raced /\ UNCHANGED <<frame, asked, today>>
    BY <1>2 DEF FrameRead, frameVars
  <2>2. /\ frame.kind = asked.kind
        /\ frame.kind = "fixed" => CurrentStart = asked.start
        /\ frame.kind = "rolling" => today - CurrentStart = asked.range
    BY <1>f, <2>1, CurrentStartInRange DEF Agrees
  <2> DEFINE t == [at |-> "readback", kind |-> frame.kind, start |-> CurrentStart]
  <2>3. \A q \in Requests : req'[q] = IF q = r THEN t ELSE req[q]
    BY <1>t, <1>2 DEF FrameRead, Begin, Become
  <2> QED
    BY <1>f, <2>1, <2>2, <2>3 DEF FInv, Agrees
<1>3. ASSUME NEW r \in Requests, FrameReadBack(r) PROVE FInv'
  <2>1. "frame" \notin raced /\ UNCHANGED <<frame, asked, today>>
    BY <1>3 DEF FrameReadBack, frameVars
  <2> DEFINE row == FrameOf(req[r].kind, req[r].start)
  <2>2. /\ req[r].kind = asked.kind
        /\ req[r].kind # "all" => req[r].start \in 0 .. today
        /\ req[r].kind = "fixed" => req[r].start = asked.start
        /\ req[r].kind = "rolling" => today - req[r].start = asked.range
    BY <1>f, <1>3, <2>1 DEF FrameReadBack, TInv, At
  <2>3. req[r].kind # "all" => req[r].start # Null
    BY <1>t, <2>2, SetUpAssumption DEF TypeOK, Days
  <2>4. Agrees(row)
    BY <2>2, <2>3 DEF FrameOf, Agrees, NoFrame
  <2> HIDE DEF row
  <2>5. \A q \in Requests : req'[q] = IF q = r THEN [at |-> "frame", by |-> "readback", row |-> row] ELSE req[q]
    BY <1>t, <1>3 DEF FrameReadBack, Become, row
  <2> QED
    BY <1>f, <2>1, <2>4, <2>5 DEF FInv, Agrees
<1>4. ASSUME NEW r \in Requests, FrameLands(r) PROVE FInv'
  <2>1. /\ req[r].at = "frame" /\ frame' = req[r].row /\ today' = today
        /\ \A q \in Requests : req'[q] = IF q = r THEN Idle ELSE req[q]
    BY <1>t, <1>4 DEF FrameLands, Become
  <2>2. Idle.at = "idle"
    BY DEF Idle
  <2>3. CASE req[r].by = "admin"
    <3>1. /\ asked' = req[r].row
          /\ \A q \in Requests \ {r} : req[q].at # "readback" /\ (req[q].at = "frame" => req[q].by # "readback")
      BY <1>4, <2>3 DEF FrameLands, Others
    <3>2. Computed(req[r].row)
      BY <2>1 DEF TInv, At
    <3>3. Agrees(frame)'
      BY <2>1, <3>1, <3>2 DEF Agrees, Computed
    <3> QED
      BY <2>1, <2>2, <3>1, <3>3 DEF FInv
  <2>4. CASE req[r].by # "admin"
    <3>1. "frame" \notin raced /\ asked' = asked
      BY <1>4, <2>4 DEF FrameLands
    <3>2. req[r].by = "readback"
      BY <1>t, <2>1, <2>4 DEF TypeOK, Tasks, Idle
    <3> QED
      BY <1>f, <2>1, <2>2, <3>1, <3>2 DEF FInv, Agrees
  <2> QED
    BY <2>3, <2>4
<1>5. CASE Midnight
  BY <1>f, <1>5 DEF Midnight, FInv, Agrees
<1>6. CASE FrameApart
  BY <1>f, <1>6 DEF FrameApart, Keeps, frameVars, FInv, Agrees
<1> QED
  BY <1>t, <1>1, <1>2, <1>3, <1>4, <1>5, <1>6, PartsApart DEF FrameMoves

(* FrameIsAsAsked: getEmailAccessTimeFrame may write the row as often and  *)
(* on whatever days it likes, it stays what the administrator set, except  *)
(* when a look straddled an update or a midnight.                          *)
THEOREM ReadBackKeepsFrame == Spec => []FrameIsAsAsked
<1>1. FInv => FrameIsAsAsked
  BY DEF FInv, FrameIsAsAsked, Agrees
<1> QED
  BY TInvInit, TInvNext, FInvInit, FInvNext, <1>1, PTL DEF Spec
-----------------------------------------------------------------------------
(* The secret: the copy of a change under way is right about the entries   *)
(* that no other change overlapped, its own aside.                         *)
SInv ==
  /\ \A p, q \in Requests :
       req[p].at = "secret" /\ req[q].at = "secret" /\ req[p].entry # req[q].entry
         => req[p].entry \in overlapped
  /\ \A e \in Entries \ overlapped :
       /\ secrets[e] = stored[e]
       /\ \A q \in Requests : req[q].at = "secret" /\ req[q].entry # e => req[q].copy[e] = stored[e]
  /\ \A q \in Requests : req[q].at = "secret" /\ req[q].then = "receive"
                           => req[q].entry = <<req[q].entry[1], Outlook>>
  /\ \A q \in Requests : req[q].at = "receive" => stored[<<req[q].tenant, Outlook>>] # Null
  /\ \A t \in received : stored[<<t, Outlook>>] # Null

LEMMA SInvInit == Init => SInv
BY DEF Init, SInv, Idle

LEMMA SInvNext == TypeOK /\ SInv /\ [Next]_vars => SInv'
<1> SUFFICES ASSUME TypeOK, SInv, [Next]_vars PROVE SInv'
  OBVIOUS
<1>t. /\ DOMAIN req = Requests /\ DOMAIN stored = Entries /\ received \subseteq Tenants
      /\ \A q \in Requests : req[q].at = "secret" =>
           req[q].entry \in Entries /\ req[q].value \in Credentials /\ DOMAIN req[q].copy = Entries
      /\ \A q \in Requests : req[q].at = "receive" => req[q].tenant \in Tenants
  BY DEF TypeOK, Tasks, Idle, Secret
<1>1. ASSUME NEW r \in Requests, NEW e \in Entries, NEW v \in Credentials,
             NEW then \in {"receive", "end"}, then = "receive" => e[2] = Outlook,
             SecretRead(r, e, v, then)
      PROVE  SInv'
  <2> DEFINE t == [at |-> "secret", entry |-> e, value |-> v, copy |-> secrets, then |-> then]
  <2>1. /\ \A q \in Requests : req'[q] = IF q = r THEN t ELSE req[q]
        /\ UNCHANGED <<secrets, received, stored>>
        /\ overlapped \subseteq overlapped'
        /\ \A q \in Requests \ {r} : req[q].at = "secret" /\ req[q].entry # e
             => req[q].entry \in overlapped' /\ e \in overlapped'
    BY <1>t, <1>1 DEF SecretRead, Begin, Become, Others
  <2>2. t.at = "secret" /\ t.entry = e /\ t.then = then /\ t.copy = secrets
    OBVIOUS
  <2>3. then = "receive" => e = <<e[1], Outlook>>
    BY <1>1 DEF Entries
  <2> HIDE DEF t
  <2>4. \A p, q \in Requests :
          req'[p].at = "secret" /\ req'[q].at = "secret" /\ req'[p].entry # req'[q].entry
            => req'[p].entry \in overlapped'
    BY <2>1, <2>2 DEF SInv
  <2>5. \A e0 \in Entries \ overlapped' :
          /\ secrets'[e0] = stored'[e0]
          /\ \A q \in Requests : req'[q].at = "secret" /\ req'[q].entry # e0 => req'[q].copy[e0] = stored'[e0]
    BY <2>1, <2>2 DEF SInv
  <2> QED
    BY <2>1, <2>2, <2>3, <2>4, <2>5 DEF SInv
<1>2. ASSUME NEW r \in Requests, SecretLands(r) PROVE SInv'
  <2> DEFINE e == req[r].entry
             t == IF req[r].then = "receive" THEN [at |-> "receive", tenant |-> e[1]] ELSE Idle
  <2>1. /\ req[r].at = "secret" /\ e \in Entries /\ req[r].value # Null
        /\ \A q \in Requests : req'[q] = IF q = r THEN t ELSE req[q]
        /\ \A x \in Entries : secrets'[x] = IF x = e THEN req[r].value ELSE req[r].copy[x]
        /\ \A x \in Entries : stored'[x] = IF x = e THEN req[r].value ELSE stored[x]
        /\ UNCHANGED <<received, overlapped>>
    BY <1>t, <1>2, SetUpAssumption DEF SecretLands, Become
  <2>2. /\ t.at \in {"idle", "receive"}
        /\ t.at = "receive" => e = <<t.tenant, Outlook>>
    BY <2>1 DEF Idle, SInv
  <2> HIDE DEF t
  <2>3. \A q \in Requests : req'[q].at = "secret" => q # r /\ req'[q] = req[q]
    BY <2>1, <2>2
  <2>4. ASSUME NEW x \in Entries, x \notin overlapped
        PROVE  /\ secrets'[x] = stored'[x]
               /\ \A q \in Requests : req'[q].at = "secret" /\ req'[q].entry # x => req'[q].copy[x] = stored'[x]
    <3>1. CASE x = e
      BY <2>1, <2>3, <2>4, <3>1 DEF SInv
    <3>2. CASE x # e
      BY <2>1, <2>3, <2>4, <3>2 DEF SInv
    <3> QED
      BY <3>1, <3>2
  <2>5. \A d \in Tenants : stored[<<d, Outlook>>] # Null => stored'[<<d, Outlook>>] # Null
    BY <2>1, SetUpAssumption DEF Entries
  <2>6. \A q \in Requests : req'[q].at = "receive" => stored'[<<req'[q].tenant, Outlook>>] # Null
    <3> SUFFICES ASSUME NEW q \in Requests, req'[q].at = "receive"
                 PROVE  stored'[<<req'[q].tenant, Outlook>>] # Null
      OBVIOUS
    <3>1. CASE q = r
      BY <2>1, <2>2, <3>1
    <3>2. CASE q # r
      BY <1>t, <2>1, <2>5, <3>2 DEF SInv
    <3> QED
      BY <3>1, <3>2
  <2>7. \A d \in received' : stored'[<<d, Outlook>>] # Null
    BY <1>t, <2>1, <2>5 DEF SInv
  <2> QED
    BY <2>1, <2>3, <2>4, <2>6, <2>7 DEF SInv
<1>3. ASSUME NEW r \in Requests, TenantReceived(r) PROVE SInv'
  <2>1. /\ req[r].at = "receive" /\ received' = received \cup {req[r].tenant}
        /\ \A q \in Requests : req'[q] = IF q = r THEN Idle ELSE req[q]
        /\ UNCHANGED <<secrets, stored, overlapped>>
    BY <1>t, <1>3 DEF TenantReceived, Become
  <2>2. Idle.at = "idle"
    BY DEF Idle
  <2> QED
    BY <2>1, <2>2 DEF SInv
<1>4. CASE SecretApart
  BY <1>4 DEF SecretApart, Keeps, secretVars, SInv
<1> QED
  BY <1>1, <1>2, <1>3, <1>4, PartsApart DEF SecretMoves

(* SecretsStand: addCredential writes the entries of all tenants from what *)
(* it has read; only entries whose changes overlapped can be lost, and the *)
(* flag of a tenant is never ahead of its tenant id.                       *)
THEOREM SecretsKept == Spec => []SecretsStand
<1>1. TInv => TypeOK
  BY DEF TInv
<1>2. SInv => SecretsStand
  BY DEF SInv, SecretsStand
<1> QED
  BY TInvInit, TInvNext, SInvInit, SInvNext, <1>1, <1>2, PTL DEF Spec
=============================================================================
