---------------------------- MODULE MCOrganization ----------------------------
(* The step, the frame, the expiries, the secret, the suppression list,    *)
(* the lists of threads and the contacts share nothing but requests in     *)
(* service, so a run need not interleave them: a behaviour is about one of *)
(* them, the others stand still.                                           *)
EXTENDS Organization, SuppressionList, ThreadListing, ContactAccess, TLC

CONSTANTS a1, a2, b     \* threads

VARIABLE part

MCUsers == {"ann", "bob", "me"}

MCAdmins == {"bob"}

MCEmails == MCUsers \cup {"client"}

MCLists == {{"ann", "client"}, {"ann", "bob"}}

(* An item of two colleagues, one of the reader's own, one of strangers.   *)
MCItems == {{"ann", "bob", "client"}, {"bob", "me"}, {"client"}}

(* One mail is in two mailboxes. *)
MCCopies == {{a1, a2}, {b}}

MCRanges == {Always, [Always EXCEPT !.upto = LastTime - 1]}

MCWindows == {Always, [from |-> 2, upto |-> 2]}

MCStarts == {0, 2}

(* The reader may be bob's and ann's supervisor, ann's alias and bob's     *)
(* collaborator; acme, where x and y are, may be mapped to him and the     *)
(* private domain of z to bob.  The contact y has ann's id, and bob's mail *)
(* with him has no row of hers; the last thread is in bob's mailbox and    *)
(* has none of his.                                                        *)
MCColleagues == {"ann", "bob"}

MCDomainOf == ("x" :> "acme") @@ ("y" :> "acme") @@ ("z" :> "gmail")

MCSameId == {<<"ann", "y">>}

MCMail == {
  [owner |-> "ann", users |-> {"ann"}, contacts |-> {"x"}],
  [owner |-> "bob", users |-> {"bob"}, contacts |-> {"x", "y"}],
  [owner |-> "bob", users |-> {"ann"}, contacts |-> {"x", "z"}] }

MCGrantable == {
  Subordinate("ann"), Subordinate("bob"), Alias("ann"), InDates("ann"),
  Collaborator("bob"), Mapped("me", "acme"), Mapped("bob", "gmail") }

MCSearches == {
  [mine |-> "own", subordinates |-> {}, collaborators |-> MCColleagues, aliases |-> {"ann"}],
  [mine |-> "team", subordinates |-> MCColleagues, collaborators |-> {}, aliases |-> MCColleagues] }

MCOpenings == {{"y", "z"}}

MCInit ==
  /\ Init /\ SuppressionInit /\ ListingInit /\ AccessInit
  /\ part \in {"onboarding", "expiry", "frame", "secret", "suppression", "listing", "access"}
  /\ part # "listing" => window = Always

MCNext ==
  /\ UNCHANGED part
  /\ \/ /\ \/ part = "onboarding" /\ OnboardingNext
           \/ part = "expiry" /\ ExpiryNext
           \/ part = "frame" /\ FrameNext
           \/ part = "secret" /\ SecretNext
        /\ UNCHANGED <<suppressionVars, listingVars, accessVars>>
     \/ /\ part = "suppression" /\ SuppressionNext
        /\ UNCHANGED <<vars, listingVars, accessVars>>
     \/ /\ part = "listing" /\ ListingNext
        /\ UNCHANGED <<vars, suppressionVars, accessVars>>
     \/ /\ part = "access" /\ AccessNext
        /\ UNCHANGED <<vars, suppressionVars, listingVars>>

MCSpec == MCInit /\ [][MCNext]_<<vars, suppressionVars, listingVars, accessVars, part>>

Symmetry ==
  UNION {Permutations(Requests), Permutations(Tenants), Permutations(Callers), Permutations({a1, a2})}
=============================================================================
