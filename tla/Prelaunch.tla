------------------------------- MODULE Prelaunch -------------------------------
(***************************************************************************)
(* The waiting list before the launch: a person registers a phone, with    *)
(* the code of whoever invited them, proves it with a code that is texted, *)
(* and takes a place in the list of their department.  PreLaunchService.   *)
(*                                                                         *)
(* Nothing but the last write of a request is a transaction, so a request  *)
(* stops between every read and every write, and may die there.            *)
(*                                                                         *)
(* A definition under "Bug:" is used by no other: it takes the place of    *)
(* the one after it to show that a property notices the bug.               *)
(***************************************************************************)
EXTENDS Integers, FiniteSets, FiniteSetsExt, Sequences

CONSTANTS
    Leads,          \* phones that register, all of one department
    NoLead,
    Visitors,       \* requests being served
    MaxOtps,        \* bound on the codes created
    MaxLinks,       \* bound on the access tokens given
    MaxOtpAttempts, \* PRELAUNCH_OTP_MAX_ATTEMPTS
    OtpRequestLimit \* PRELAUNCH_OTP_REQUEST_LIMIT

ASSUME PrelaunchAssumption ==
    /\ NoLead \notin Leads /\ IsFiniteSet(Leads)
    /\ {MaxOtps, MaxLinks} \subseteq Nat
    /\ {MaxOtpAttempts, OtpRequestLimit} \subseteq Nat \ {0}

VARIABLES
    lead,           \* a PreLaunchLead: status, place (phoneVerifiedAt as a rank,
                    \* 0 when null), accessTokenHash, recoveryTokenHash, referredBy
    otps,           \* the PreLaunchOtp rows of a lead, oldest first
    links,          \* how many access tokens a lead was given
    knownLinks,     \* the tokens that reached the person
    funnel,         \* PreLaunchEvents of a lead, by type
    visitor,        \* what a request does, and what it read
    clockwork,      \* the next rank to give
    staleLeads,     \* leads saved by a registration that read them before they verified
    doubled         \* leads verified by two requests that both read them before

prelaunchVars == <<lead, otps, links, knownLinks, funnel, visitor, clockwork, staleLeads, doubled>>

-----------------------------------------------------------------------------
(* Types and helper state formulae.                                        *)

LeadStatuses == {"NONE", "PENDING_OTP", "VERIFIED", "CONVERTED"}
OtpStates    == {"live", "consumed", "deleted"}
FunnelSteps  == {"REGISTRATION_COMPLETED", "OTP_REQUESTED"}
VisitorPCs   == {"idle", "refer", "save", "record", "check", "create", "deliver", "supersede",
                 "guess", "commit"}

\* What a request keeps of a row it read.
Seen(row) == [new |-> row.status = "NONE", verified |-> row.place # 0,
              recovery |-> row.recovery, referredBy |-> row.referredBy]

Unregistered == [status |-> "NONE", place |-> 0, access |-> 0, recovery |-> 0,
                 referredBy |-> NoLead]

\* saw: the lead as the request read it; link: the token it brings or gives;
\* otp: the code it created or read; by: the referrer it found.
NoVisit == [pc |-> "idle", lead |-> NoLead, saw |-> Seen(Unregistered), link |-> 0, otp |-> 0,
            by |-> NoLead]

Goto(v, pc) == visitor' = [visitor EXCEPT ![v].pc = pc]
Of(v)       == visitor[v].lead
Given       == MapThenSumSet(LAMBDA l : links[l], Leads)
Created     == MapThenSumSet(LAMBDA l : Len(otps[l]), Leads)
Live(l)     == {i \in DOMAIN otps[l] : otps[l][i].state = "live"}
Kept(l)     == {i \in DOMAIN otps[l] : otps[l][i].state # "deleted"}
IsVerified(row) == row.place # 0

\* Bug: the code of anybody who registered.
MayReferEarly(status) == status # "NONE"

\* A referral counts only while its referrer is one of these.
MayRefer(status) == status \in {"VERIFIED", "CONVERTED"}

PrelaunchInit ==
    /\ lead = [l \in Leads |-> Unregistered]
    /\ otps = [l \in Leads |-> <<>>]
    /\ links = [l \in Leads |-> 0] /\ knownLinks = [l \in Leads |-> {}]
    /\ funnel = [l \in Leads |-> [s \in FunnelSteps |-> 0]]
    /\ visitor = [v \in Visitors |-> NoVisit]
    /\ clockwork = 1 /\ staleLeads = {} /\ doubled = {}

-----------------------------------------------------------------------------
(* Registration and recovery.                                              *)

\* startRegistration reads the phone; a verified one is only acknowledged.
StartRegistration(v, l) ==
    /\ visitor[v].pc = "idle" /\ ~IsVerified(lead[l]) /\ Given < MaxLinks
    /\ visitor' = [visitor EXCEPT ![v] = [NoVisit EXCEPT !.pc = "refer", !.lead = l,
                                                         !.saw = Seen(lead[l])]]
    /\ UNCHANGED <<lead, otps, links, knownLinks, funnel, clockwork, staleLeads, doubled>>

ResolveReferrer(v) ==
    /\ visitor[v].pc = "refer"
    /\ \E r \in {visitor[v].saw.referredBy} \cup {r \in Leads : MayRefer(lead[r].status)} :
           visitor' = [visitor EXCEPT ![v].pc = "save", ![v].by = r]
    /\ UNCHANGED <<lead, otps, links, knownLinks, funnel, clockwork, staleLeads, doubled>>

\* The row is written whole; a create that loses to another fails.
SaveRegistration(v) ==
    LET l == Of(v)
        taken == visitor[v].saw.new /\ lead[l].status # "NONE" IN
    /\ visitor[v].pc = "save" /\ Given < MaxLinks
    /\ IF taken
       THEN /\ visitor' = [visitor EXCEPT ![v] = NoVisit]
            /\ UNCHANGED <<lead, links, staleLeads>>
       ELSE /\ links' = [links EXCEPT ![l] = @ + 1]
            /\ lead' = [lead EXCEPT ![l].status = "PENDING_OTP", ![l].access = links[l] + 1,
                                    ![l].referredBy = visitor[v].by]
            /\ visitor' = [visitor EXCEPT ![v].pc = "record", ![v].link = links[l] + 1]
            /\ staleLeads' = IF IsVerified(lead[l]) THEN staleLeads \cup {l} ELSE staleLeads
    /\ UNCHANGED <<otps, knownLinks, funnel, clockwork, doubled>>

Counted(l, step) == [funnel EXCEPT ![l][step] = @ + 1]

RecordRegistration(v) ==
    /\ visitor[v].pc = "record"
    /\ funnel' = Counted(Of(v), "REGISTRATION_COMPLETED")
    /\ Goto(v, "check")
    /\ UNCHANGED <<lead, otps, links, knownLinks, clockwork, staleLeads, doubled>>

\* Bug: the phone counts as unverified until the new token is proved.
Reopened(row, t) == [row EXCEPT !.recovery = t, !.place = 0, !.status = "PENDING_OTP"]

\* The new token waits beside the old one.
Recovering(row, t) == [row EXCEPT !.recovery = t]

\* recoverAccess: a verified phone gets another token, to be proved.
RecoverAccess(v, l) ==
    /\ visitor[v].pc = "idle" /\ IsVerified(lead[l]) /\ Given < MaxLinks
    /\ links' = [links EXCEPT ![l] = @ + 1]
    /\ lead' = [lead EXCEPT ![l] = Recovering(@, links[l] + 1)]
    /\ visitor' = [visitor EXCEPT ![v] = [NoVisit EXCEPT !.pc = "check", !.lead = l,
                                                         !.saw = Seen(lead[l]), !.link = links[l] + 1]]
    /\ UNCHANGED <<otps, knownLinks, funnel, clockwork, staleLeads, doubled>>

\* resendOtp, for a token that still has to be proved.
ResendOtp(v, l) ==
    /\ visitor[v].pc = "idle"
    /\ \E t \in knownLinks[l] \cap {lead[l].access, lead[l].recovery} :
           /\ IsVerified(lead[l]) => t = lead[l].recovery
           /\ visitor' = [visitor EXCEPT ![v] = [NoVisit EXCEPT !.pc = "check", !.lead = l,
                                                                !.saw = Seen(lead[l]), !.link = t]]
    /\ UNCHANGED <<lead, otps, links, knownLinks, funnel, clockwork, staleLeads, doubled>>

-----------------------------------------------------------------------------
(* Sending a code.                                                         *)

MaySend(l) ==
    /\ Kept(l) # {} => ~otps[l][Max(Kept(l))].recent
    /\ funnel[l]["OTP_REQUESTED"] < OtpRequestLimit

\* A refusal is an error to the caller, who is given no token.
CheckSend(v) ==
    /\ visitor[v].pc = "check"
    /\ visitor' = [visitor EXCEPT ![v] = IF MaySend(Of(v)) THEN [@ EXCEPT !.pc = "create"] ELSE NoVisit]
    /\ UNCHANGED <<lead, otps, links, knownLinks, funnel, clockwork, staleLeads, doubled>>

CreateOtp(v) ==
    LET l == Of(v) IN
    /\ visitor[v].pc = "create" /\ Created < MaxOtps
    /\ otps' = [otps EXCEPT ![l] = Append(@, [state |-> "live", sent |-> FALSE, attempts |-> 0,
                                              recent |-> TRUE, done |-> FALSE, proved |-> FALSE])]
    /\ visitor' = [visitor EXCEPT ![v].pc = "deliver", ![v].otp = Len(otps[l]) + 1]
    /\ UNCHANGED <<lead, links, knownLinks, funnel, clockwork, staleLeads, doubled>>

DeliverOtp(v) ==
    LET l == Of(v) IN
    /\ visitor[v].pc = "deliver"
    /\ \/ /\ otps' = [otps EXCEPT ![l][visitor[v].otp].sent = TRUE]
          /\ Goto(v, "supersede")
       \/ /\ otps' = [otps EXCEPT ![l][visitor[v].otp].state = "deleted"]
          /\ visitor' = [visitor EXCEPT ![v] = NoVisit]
    /\ UNCHANGED <<lead, links, knownLinks, funnel, clockwork, staleLeads, doubled>>

\* Bug: the codes sent before stay good.
OthersStay(l, i) == otps[l]

\* The codes sent before stop being good.
OthersConsumed(l, i) ==
    [k \in DOMAIN otps[l] |-> IF k # i /\ otps[l][k].state = "live"
                              THEN [otps[l][k] EXCEPT !.state = "consumed"] ELSE otps[l][k]]

\* The last transaction of sendOtp, and the answer, with the token.
Supersede(v) ==
    LET l == Of(v) IN
    /\ visitor[v].pc = "supersede"
    /\ otps' = [otps EXCEPT ![l] = [OthersConsumed(l, visitor[v].otp) EXCEPT
                                        ![visitor[v].otp].done = TRUE]]
    /\ funnel' = Counted(l, "OTP_REQUESTED")
    /\ knownLinks' = [knownLinks EXCEPT ![l] = @ \cup {visitor[v].link}]
    /\ visitor' = [visitor EXCEPT ![v] = NoVisit]
    /\ UNCHANGED <<lead, links, clockwork, staleLeads, doubled>>

-----------------------------------------------------------------------------
(* Verification and what follows.                                          *)

\* Bug: a lead that is verified already is verified again.
HasToProve(row, t) == TRUE

\* A code is asked of who recovers the access, and of a phone not verified yet.
MustProve(row, t) == t = row.recovery \/ ~IsVerified(row)

\* verifyOtp reads the lead by the token and its latest live code, and compares.
ReadOtp(v, l) ==
    /\ visitor[v].pc = "idle" /\ Live(l) # {}
    /\ LET i == Max(Live(l)) IN
       /\ otps[l][i].attempts < MaxOtpAttempts
       /\ \E t \in knownLinks[l] \cap {lead[l].access, lead[l].recovery},
             pc \in {"guess"} \cup {p \in {"commit"} : otps[l][i].sent} :
              /\ MustProve(lead[l], t)
              /\ visitor' = [visitor EXCEPT ![v] = [NoVisit EXCEPT
                                !.pc = pc, !.lead = l, !.saw = Seen(lead[l]), !.link = t, !.otp = i]]
    /\ UNCHANGED <<lead, otps, links, knownLinks, funnel, clockwork, staleLeads, doubled>>

WrongOtp(v) ==
    /\ visitor[v].pc = "guess"
    /\ otps' = [otps EXCEPT ![Of(v)][visitor[v].otp].attempts = @ + 1]
    /\ visitor' = [visitor EXCEPT ![v] = NoVisit]
    /\ UNCHANGED <<lead, links, knownLinks, funnel, clockwork, staleLeads, doubled>>

\* Bug: a recovered access verifies the phone again.
ProvedAlways(v, row) == [row EXCEPT !.access = visitor[v].link, !.recovery = 0,
                                    !.place = clockwork, !.status = "VERIFIED"]

\* The row the transaction writes; the rank of a verification is the present.
Proved(v, row) ==
    IF visitor[v].link = visitor[v].saw.recovery
    THEN [row EXCEPT !.access = visitor[v].link, !.recovery = 0]
    ELSE [row EXCEPT !.place = clockwork, !.status = "VERIFIED"]

\* The events that follow, PHONE_VERIFIED and REFERRAL_VERIFIED, are read by nobody.
CommitVerification(v) ==
    LET l == Of(v)
        first == visitor[v].link # visitor[v].saw.recovery IN
    /\ visitor[v].pc = "commit"
    /\ otps' = [otps EXCEPT ![l][visitor[v].otp] = [@ EXCEPT !.state = "consumed", !.proved = TRUE]]
    /\ lead' = [lead EXCEPT ![l] = Proved(v, @)]
    /\ clockwork' = clockwork + (IF first THEN 1 ELSE 0)
    /\ doubled' = IF first /\ IsVerified(lead[l]) /\ ~visitor[v].saw.verified
                  THEN doubled \cup {l} ELSE doubled
    /\ visitor' = [visitor EXCEPT ![v] = NoVisit]
    /\ UNCHANGED <<links, knownLinks, funnel, staleLeads>>

\* convertLead, for an account with the same phone.
ConvertLead(l) ==
    /\ IsVerified(lead[l])
    /\ lead' = [lead EXCEPT ![l].status = "CONVERTED"]
    /\ UNCHANGED <<otps, links, knownLinks, funnel, visitor, clockwork, staleLeads, doubled>>

\* The minute between two codes passes.
MinutePasses(l) ==
    /\ otps' = [otps EXCEPT ![l] = [i \in DOMAIN @ |-> [@[i] EXCEPT !.recent = FALSE]]]
    /\ otps' # otps
    /\ UNCHANGED <<lead, links, knownLinks, funnel, visitor, clockwork, staleLeads, doubled>>

\* The server stops: its request is never answered.
VisitDies(v) ==
    /\ visitor[v].pc # "idle"
    /\ visitor' = [visitor EXCEPT ![v] = NoVisit]
    /\ UNCHANGED <<lead, otps, links, knownLinks, funnel, clockwork, staleLeads, doubled>>

PrelaunchNext ==
    \/ \E v \in Visitors, l \in Leads :
           StartRegistration(v, l) \/ RecoverAccess(v, l) \/ ResendOtp(v, l) \/ ReadOtp(v, l)
    \/ \E v \in Visitors :
           \/ ResolveReferrer(v) \/ SaveRegistration(v) \/ RecordRegistration(v)
           \/ CheckSend(v) \/ CreateOtp(v) \/ DeliverOtp(v) \/ Supersede(v)
           \/ WrongOtp(v) \/ CommitVerification(v) \/ VisitDies(v)
    \/ \E l \in Leads : ConvertLead(l) \/ MinutePasses(l)

PrelaunchSpec == PrelaunchInit /\ [][PrelaunchNext]_prelaunchVars

-----------------------------------------------------------------------------
(* What the list shows.                                                    *)

\* accessStatus: how many of the department verified no later.
Position(l) == Cardinality({m \in Leads : IsVerified(lead[m]) /\ lead[m].place <= lead[l].place})

Invited(l) == {m \in Leads : lead[m].referredBy = l /\ MayRefer(lead[m].status)}

\* adminDashboard: the share of the registrations that were verified.
SubmittedTotal == MapThenSumSet(LAMBDA l : funnel[l]["REGISTRATION_COMPLETED"], Leads)
VerifiedTotal  == Cardinality({l \in Leads : MayRefer(lead[l].status)})

-----------------------------------------------------------------------------
(* Properties.                                                             *)

PrelaunchTypeOK ==
    /\ \A l \in Leads : /\ lead[l].status \in LeadStatuses
                        /\ lead[l].referredBy \in Leads \cup {NoLead}
                        /\ \A i \in DOMAIN otps[l] : otps[l][i].state \in OtpStates
    /\ \A v \in Visitors : visitor[v].pc \in VisitorPCs

\* A phone is verified only by a code that was texted to it and that a request
\* consumed with it, and its status says so, unless a registration that read it
\* before wrote its own over it.
VerifiedByItsCode == \A l \in Leads :
    /\ IsVerified(lead[l]) => \E i \in DOMAIN otps[l] : otps[l][i].sent /\ otps[l][i].proved
    /\ l \notin staleLeads => (IsVerified(lead[l]) <=> MayRefer(lead[l].status))

\* Invitations form a forest: nobody is, through others, invited by who they
\* invited; unless a registration read a phone before it verified.
ReferralsAreAForest ==
    staleLeads = {} => \A l \in Leads :
        /\ lead[l].referredBy # l
        /\ \A m \in Invited(l) : lead[l].referredBy # m

\* Of the codes whose sending was completed, one at most is good: an older text
\* cannot be used after a newer one.
OneGoodCode == \A l \in Leads : Cardinality({i \in Live(l) : otps[l][i].done}) <= 1

\* The share of the registrations that are verified is never above one, since a
\* registration is counted before its token can be used.
FunnelNarrows == VerifiedTotal <= SubmittedTotal

\* Who verified keeps the place in the list, unless two requests verified the
\* same phone at once.
PlaceIsKept == [][\A l \in Leads :
    IsVerified(lead[l]) /\ doubled' = {} => lead'[l].place = lead[l].place]_prelaunchVars

PrelaunchInv ==
    /\ PrelaunchTypeOK
    /\ VerifiedByItsCode
    /\ ReferralsAreAForest
    /\ OneGoodCode
    /\ FunnelNarrows
=============================================================================
