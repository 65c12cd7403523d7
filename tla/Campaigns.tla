------------------------------- MODULE Campaigns ------------------------------
(***************************************************************************)
(* Featured campaigns: a club pays for days on the home page, for itself   *)
(* or for an event.  FeaturedCampaignsService, and                         *)
(* processFeaturedCampaignEvent of CommerceService.                        *)
(*                                                                         *)
(* A request is a checkout, a callback or a query of the payment that is   *)
(* being served.  What it read may have changed when it writes: neither    *)
(* the check for a campaign of the same target nor the read of the attempt *)
(* holds a lock.                                                           *)
(*                                                                         *)
(* A payment that was approved may be returned later, by a refund or by a  *)
(* chargeback.  The news of it reach a campaign that is still waiting, and *)
(* refuse it; they are dropped once the approval was applied.              *)
(*                                                                         *)
(* A definition under "Bug:" is used by no other: it takes the place of    *)
(* the one after it to show that a property notices the bug.               *)
(***************************************************************************)
EXTENDS Integers, FiniteSets

CONSTANTS
    Campaigns,      \* idempotency keys of checkouts
    TargetOf,       \* the club or the event a campaign is for
    Servers,        \* requests that are being served
    NoCampaign

ASSUME CampaignAssumption == NoCampaign \notin Campaigns /\ DOMAIN TargetOf = Campaigns

VARIABLES
    campaign,       \* FeaturedCampaign.status, NONE before it exists
    attempt,        \* PaymentAttempt.status of its payment
    charge,         \* status of the payment at the provider, NONE before it is asked
    told,           \* outcomes whose PaymentProviderEvent is processed
    timedOut,       \* attempts whose 30 minutes are over
    over,           \* campaigns whose endsAt has passed
    serving         \* what a request does, for which campaign, with what outcome

campaignVars == <<campaign, attempt, charge, told, timedOut, over, serving>>

-----------------------------------------------------------------------------
(* Types.                                                                  *)

CampaignStatuses == {"NONE", "PENDING_PAYMENT", "ACTIVE", "REJECTED", "EXPIRED"}
AttemptStatuses  == {"NONE", "PENDING", "APPROVED", "REJECTED", "EXPIRED"}

\* RETURNED stands for REFUND_PENDING, PARTIALLY_REFUNDED, REFUNDED and
\* CHARGEBACK, REJECTED also for CANCELLED.
ChargeStatuses == AttemptStatuses \cup {"RETURNED"}
Decided     == {"APPROVED", "REJECTED", "EXPIRED"}
WasApproved == {"APPROVED", "RETURNED"}
Reported    == Decided \cup {"RETURNED"}

Unused == [pc |-> "idle", of |-> NoCampaign, outcome |-> "NONE"]
TargetOfCampaign(c) == TargetOf[c]

-----------------------------------------------------------------------------
CampaignInit ==
    /\ campaign = [c \in Campaigns |-> "NONE"]
    /\ attempt = [c \in Campaigns |-> "NONE"]
    /\ charge = [c \in Campaigns |-> "NONE"]
    /\ told = [c \in Campaigns |-> {}]
    /\ timedOut = {}
    /\ over = {}
    /\ serving = [s \in Servers |-> Unused]

\* Bug: a campaign waits for its payment until its own end has passed.
FinishedLater(c) == campaign[c] \in {"ACTIVE", "PENDING_PAYMENT"} /\ c \in over

\* expireFinishedCampaigns, one transaction of two conditional updates: of the
\* attempts that wait too long, then of the campaigns that are over or whose
\* attempt has expired.
Expiring(c) == attempt[c] = "PENDING" /\ c \in timedOut
Finished(c) == \/ campaign[c] = "ACTIVE" /\ c \in over
               \/ campaign[c] = "PENDING_PAYMENT" /\ (Expiring(c) \/ attempt[c] = "EXPIRED")

ExpireFinished ==
    /\ \E c \in Campaigns : Expiring(c) \/ Finished(c)
    /\ attempt' = [c \in Campaigns |-> IF Expiring(c) THEN "EXPIRED" ELSE attempt[c]]
    /\ campaign' = [c \in Campaigns |-> IF Finished(c) THEN "EXPIRED" ELSE campaign[c]]
    /\ UNCHANGED <<charge, told, timedOut, over, serving>>

\* createCheckout: no campaign of the target is active or waits for payment.
FindOverlap(s, c) ==
    /\ serving[s] = Unused
    /\ campaign[c] = "NONE"
    /\ \A d \in Campaigns : TargetOfCampaign(d) = TargetOfCampaign(c) => campaign[d] \notin {"PENDING_PAYMENT", "ACTIVE"}
    /\ serving' = [serving EXCEPT ![s] = [Unused EXCEPT !.pc = "create", !.of = c]]
    /\ UNCHANGED <<campaign, attempt, charge, told, timedOut, over>>

\* The campaign and its attempt are created, once for a key.
CreateCampaign(s) ==
    LET c == serving[s].of IN
    /\ serving[s].pc = "create"
    /\ IF campaign[c] = "NONE"
       THEN /\ campaign' = [campaign EXCEPT ![c] = "PENDING_PAYMENT"]
            /\ attempt' = [attempt EXCEPT ![c] = "PENDING"]
            /\ serving' = [serving EXCEPT ![s].pc = "charge"]
       ELSE serving' = [serving EXCEPT ![s] = Unused] /\ UNCHANGED <<campaign, attempt>>
    /\ UNCHANGED <<charge, told, timedOut, over>>

\* The provider is asked for the payment; an answer may be lost on its way.
AskProvider(s) ==
    LET c == serving[s].of IN
    /\ serving[s].pc = "charge"
    /\ \/ /\ charge' = [charge EXCEPT ![c] = "PENDING"]
          /\ serving' = [serving EXCEPT ![s] = Unused]
       \/ /\ charge' \in {charge, [charge EXCEPT ![c] = "PENDING"]}
          /\ serving' = [serving EXCEPT ![s].pc = "undo"]
    /\ UNCHANGED <<campaign, attempt, told, timedOut, over>>

\* It failed: both rows are rejected, whatever their status is by now.
UndoCheckout(s) ==
    LET c == serving[s].of IN
    /\ serving[s].pc = "undo"
    /\ attempt' = [attempt EXCEPT ![c] = "REJECTED"]
    /\ campaign' = [campaign EXCEPT ![c] = "REJECTED"]
    /\ serving' = [serving EXCEPT ![s] = Unused]
    /\ UNCHANGED <<charge, told, timedOut, over>>

ChargeDecided(c) ==
    /\ charge[c] \in {"PENDING", "REJECTED"}
    /\ \E o \in Decided \ {charge[c]} : charge' = [charge EXCEPT ![c] = o]
    /\ UNCHANGED <<campaign, attempt, told, timedOut, over, serving>>

ChargeReturned(c) ==
    /\ charge[c] = "APPROVED"
    /\ charge' = [charge EXCEPT ![c] = "RETURNED"]
    /\ UNCHANGED <<campaign, attempt, told, timedOut, over, serving>>

TimesOut(c) ==
    /\ attempt[c] # "NONE" /\ c \notin timedOut
    /\ timedOut' = timedOut \cup {c}
    /\ UNCHANGED <<campaign, attempt, charge, told, over, serving>>

Ends(c) ==
    /\ campaign[c] = "ACTIVE" /\ c \notin over
    /\ over' = over \cup {c}
    /\ UNCHANGED <<campaign, attempt, charge, told, timedOut, serving>>

\* A callback, or getPayment, asks the provider and records the event, unless
\* it was processed already; then the attempt is read.
HearOfCharge(s, c) ==
    /\ serving[s] = Unused
    /\ charge[c] \in Reported \ told[c]
    /\ serving' = [serving EXCEPT ![s] =
                    [pc |-> IF attempt[c] = "PENDING" THEN "apply" ELSE "finish",
                     of |-> c, outcome |-> charge[c]]]
    /\ UNCHANGED <<campaign, attempt, charge, told, timedOut, over>>

\* An attempt that was pending takes the outcome, and its campaign with it: it
\* runs from now, to the end of its event at most.  What is neither an approval
\* nor an expiry refuses both.
ApplyCharge(s) ==
    LET c == serving[s].of
        o == IF serving[s].outcome = "RETURNED" THEN "REJECTED" ELSE serving[s].outcome
    IN
    /\ serving[s].pc = "apply"
    /\ attempt' = [attempt EXCEPT ![c] = o]
    /\ campaign' = [campaign EXCEPT ![c] = IF o = "APPROVED" THEN "ACTIVE" ELSE o]
    /\ serving' = [serving EXCEPT ![s].pc = "finish"]
    /\ UNCHANGED <<charge, told, timedOut, over>>

FinishCharge(s) ==
    /\ serving[s].pc = "finish"
    /\ told' = [told EXCEPT ![serving[s].of] = @ \cup {serving[s].outcome}]
    /\ serving' = [serving EXCEPT ![s] = Unused]
    /\ UNCHANGED <<campaign, attempt, charge, timedOut, over>>

\* The instance dies, or the transaction fails.
StopServing(s) ==
    /\ serving[s] # Unused
    /\ serving' = [serving EXCEPT ![s] = Unused]
    /\ UNCHANGED <<campaign, attempt, charge, told, timedOut, over>>

CampaignNext ==
    \/ ExpireFinished
    \/ \E c \in Campaigns : ChargeDecided(c) \/ ChargeReturned(c) \/ TimesOut(c) \/ Ends(c)
    \/ \E s \in Servers : \/ \E c \in Campaigns : FindOverlap(s, c) \/ HearOfCharge(s, c)
                          \/ CreateCampaign(s) \/ AskProvider(s) \/ UndoCheckout(s)
                          \/ ApplyCharge(s) \/ FinishCharge(s) \/ StopServing(s)

CampaignSpec == CampaignInit /\ [][CampaignNext]_campaignVars

-----------------------------------------------------------------------------
(* Properties.                                                             *)

CampaignTypeOK ==
    /\ campaign \in [Campaigns -> CampaignStatuses]
    /\ attempt \in [Campaigns -> AttemptStatuses] /\ charge \in [Campaigns -> ChargeStatuses]
    /\ told \in [Campaigns -> SUBSET Reported]
    /\ timedOut \subseteq Campaigns /\ over \subseteq Campaigns
    /\ serving \in [Servers -> [pc : {"idle", "create", "charge", "undo", "apply", "finish"},
                                of : Campaigns \cup {NoCampaign}, outcome : {"NONE"} \cup Reported]]

\* What selectForHome can show.
OnHome == {c \in Campaigns : campaign[c] = "ACTIVE" /\ c \notin over}

\* A campaign and its payment agree though checkouts, callbacks and expiries
\* overlap: none waits for a closed payment, and none is shown whose payment the
\* provider never approved.  One whose payment was returned after that may stay
\* on the home: processFeaturedCampaignEvent drops what an attempt that is no
\* longer pending is told.
CampaignIsItsPayment ==
    \A c \in Campaigns :
        /\ <<attempt[c], campaign[c]>> \in
                {<<"NONE", "NONE">>, <<"PENDING", "PENDING_PAYMENT">>, <<"APPROVED", "ACTIVE">>,
                 <<"APPROVED", "EXPIRED">>, <<"REJECTED", "REJECTED">>, <<"EXPIRED", "EXPIRED">>}
        /\ attempt[c] = "APPROVED" \/ c \in OnHome => charge[c] \in WasApproved

CampaignInv == CampaignTypeOK /\ CampaignIsItsPayment
=============================================================================
