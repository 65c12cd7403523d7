---------------------------- MODULE BusinessAccess ----------------------------
(***************************************************************************)
(* Who asks to administer a club, or to register a new one, and the review *)
(* of what they ask.  BusinessAccessService.  approve and reject read the  *)
(* request and then write it whatever it has become: they stop between.    *)
(*                                                                         *)
(* A definition under "Bug:" is used by no other: it takes the place of    *)
(* the one after it to show that a property notices the bug.               *)
(***************************************************************************)
EXTENDS Integers, FiniteSets

CONSTANTS
    AccessRequests, \* BusinessAccessRequest rows, all of one user
    NoAccessRequest,
    OldClub,        \* a club that exists
    NewClubs,       \* clubs that may be created
    NoClub,
    Reviewers       \* reviews being served

ASSUME AccessAssumption == OldClub \notin NewClubs /\ NoClub \notin NewClubs \cup {OldClub}

VARIABLES
    accessRequest,  \* a request: type, status, requestedClubId
    administers,    \* clubs the user has a ClubAdmin row of
    clubOf,         \* the request a new club was created for
    decision,       \* what a review does, and what it read
    overtaken       \* requests written by a review after another had decided

accessVars == <<accessRequest, administers, clubOf, decision, overtaken>>

AccessTypes    == {"ADMINISTER_EXISTING_BUSINESS", "REGISTER_NEW_BUSINESS"}
AccessStatuses == {"NONE", "PENDING", "UNDER_REVIEW", "APPROVED", "REJECTED", "CANCELLED"}
ActiveStatuses == {"PENDING", "UNDER_REVIEW"}

NoReview  == [pc |-> "idle", of |-> NoAccessRequest, saw |-> "NONE"]
IsNew(q)  == accessRequest[q].type = "REGISTER_NEW_BUSINESS"

AccessInit ==
    /\ accessRequest = [q \in AccessRequests |-> [type |-> "REGISTER_NEW_BUSINESS", status |-> "NONE",
                                            club |-> NoClub]]
    /\ administers = {}
    /\ clubOf = [c \in NewClubs |-> NoAccessRequest]
    /\ decision = [h \in Reviewers |-> NoReview]
    /\ overtaken = {}

\* An index forbids two active requests of a user for the same.
CreateRequest(q, type) ==
    /\ accessRequest[q].status = "NONE"
    /\ \A p \in AccessRequests : accessRequest[p].status \in ActiveStatuses => accessRequest[p].type # type
    /\ type = "ADMINISTER_EXISTING_BUSINESS" => OldClub \notin administers
    /\ accessRequest' = [accessRequest EXCEPT ![q] = [type |-> type, status |-> "PENDING",
                       club |-> IF type = "REGISTER_NEW_BUSINESS" THEN NoClub ELSE OldClub]]
    /\ UNCHANGED <<administers, clubOf, decision, overtaken>>

\* cancel and startReview write only a request that is pending.
CancelRequest(q) ==
    /\ accessRequest[q].status = "PENDING"
    /\ accessRequest' = [accessRequest EXCEPT ![q].status = "CANCELLED"]
    /\ UNCHANGED <<administers, clubOf, decision, overtaken>>

StartReview(q) ==
    /\ accessRequest[q].status = "PENDING"
    /\ accessRequest' = [accessRequest EXCEPT ![q].status = "UNDER_REVIEW"]
    /\ UNCHANGED <<administers, clubOf, decision, overtaken>>

\* Bug: whatever is not decided the same way.
NotDecidedSo(q, verdict) == accessRequest[q].status \notin {"NONE", verdict}

\* What approve and reject read: a request that was decided so is returned as it
\* is, and one that is not active is refused.
Decidable(q, verdict) == accessRequest[q].status \in ActiveStatuses

BeginDecision(h, q, verdict) ==
    /\ decision[h].pc = "idle" /\ Decidable(q, verdict)
    /\ decision' = [decision EXCEPT ![h] = [pc |-> verdict, of |-> q, saw |-> accessRequest[q].status]]
    /\ UNCHANGED <<accessRequest, administers, clubOf, overtaken>>

\* The request was active when it was read, and was decided or cancelled since.
Late(h) ==
    LET q == decision[h].of IN
    IF decision[h].saw \in ActiveStatuses /\ accessRequest[q].status \notin ActiveStatuses
    THEN overtaken \cup {q} ELSE overtaken

GrantAccess(h) ==
    LET q == decision[h].of IN
    /\ decision[h].pc = "APPROVED"
    /\ \E c \in IF IsNew(q) THEN {c \in NewClubs : clubOf[c] = NoAccessRequest} ELSE {accessRequest[q].club} :
           /\ clubOf' = IF IsNew(q) THEN [clubOf EXCEPT ![c] = q] ELSE clubOf
           /\ administers' = administers \cup {c}
           /\ accessRequest' = [accessRequest EXCEPT ![q].status = "APPROVED", ![q].club = c]
    /\ decision' = [decision EXCEPT ![h] = NoReview]
    /\ overtaken' = Late(h)

CommitRejection(h) ==
    LET q == decision[h].of IN
    /\ decision[h].pc = "REJECTED"
    /\ accessRequest' = [accessRequest EXCEPT ![q].status = "REJECTED"]
    /\ decision' = [decision EXCEPT ![h] = NoReview]
    /\ overtaken' = Late(h)
    /\ UNCHANGED <<administers, clubOf>>

AccessNext ==
    \/ \E q \in AccessRequests :
           \/ \E type \in AccessTypes : CreateRequest(q, type)
           \/ CancelRequest(q) \/ StartReview(q)
           \/ \E h \in Reviewers, verdict \in {"APPROVED", "REJECTED"} : BeginDecision(h, q, verdict)
    \/ \E h \in Reviewers : GrantAccess(h) \/ CommitRejection(h)

AccessSpec == AccessInit /\ [][AccessNext]_accessVars

-----------------------------------------------------------------------------
(* Properties.                                                             *)

AccessTypeOK ==
    /\ \A q \in AccessRequests : accessRequest[q].status \in AccessStatuses /\ accessRequest[q].type \in AccessTypes
    /\ administers \subseteq NewClubs \cup {OldClub}

\* A user administers the clubs of the requests that stand approved, and no
\* other, unless two decisions of a request overlapped.
AccessIsApproved == overtaken = {} =>
    administers = {accessRequest[q].club : q \in {p \in AccessRequests : accessRequest[p].status = "APPROVED"}}

\* A request to register a club creates one at most, unless approvals overlapped.
OneClubPerRequest == \A c, e \in NewClubs :
    clubOf[c] = clubOf[e] /\ clubOf[c] # NoAccessRequest /\ clubOf[c] \notin overtaken => c = e

AccessInv == AccessTypeOK /\ AccessIsApproved /\ OneClubPerRequest
=============================================================================
