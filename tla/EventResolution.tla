--------------------------- MODULE EventResolution ----------------------------
(***************************************************************************)
(* What becomes of the purchases of a cancelled event: the decision of the *)
(* club, its review by the platform, the replacement by another event with *)
(* stock set aside, and the purchases that accept or refuse it.            *)
(* EventsService (status, cancellation, buyers' requests),                 *)
(* EventReplacementService, and what EventRefundWorker does for them.      *)
(*                                                                         *)
(* configure and accept are SERIALIZABLE and wait for their locks with the *)
(* snapshot already taken: they are two steps.  A row they lock or update  *)
(* that changed since makes them fail (the snapshot is "stale"); a row     *)
(* that was inserted since is not seen.                                    *)
(*                                                                         *)
(* reactivateEvent is missing: it takes an event with no cancellation, and *)
(* every cancelled event has one.  Nothing sets SOLD_OUT or IN_PROGRESS.   *)
(*                                                                         *)
(* A definition under "Bug:" is used by no other: it takes the place of    *)
(* the one after it to show that a property notices the bug.               *)
(***************************************************************************)
EXTENDS Integers, FiniteSets, FiniteSetsExt

CONSTANTS
    Purchases,      \* order items of the event, each of an order of its own
    Quantity,       \* quantity of each
    Buyers,         \* who may buy one ticket of the replacement
    Total           \* quantityTotal of the ticket of the replacement

ASSUME ResolutionAssumption ==
    /\ IsFiniteSet(Purchases) /\ IsFiniteSet(Buyers)
    /\ Quantity \in [Purchases -> Nat \ {0}] /\ Total \in Nat

VARIABLES
    event,          \* Event.status of the event and of its replacement
    clock,          \* whether an event is to come, is going on, or is over
    cancellation,   \* EventCancellation.status, NONE before it exists
    bought,         \* Order.status of the purchases
    at,             \* OrderItem.eventId
    right,          \* the rights of a purchase for each event
    issued,         \* how many times a purchase was given rights for the replacement
    accepted,       \* EventReplacementAcceptance rows
    request,        \* EventBuyerRefundRequest.status, NONE before it exists
    staff,          \* purchases with a refund request of the club's staff
    refundJob,      \* EventRefundJob.status of a purchase for an event
    mapped, left,   \* the EventReplacementMapping exists; its reservedQuantity
    setAside, sold, \* replacementReserved and quantitySold of the ticket
    reservation,    \* InventoryReservation of a buyer of the replacement
    accepting,      \* the snapshot of an accept being served
    refusing,       \* purchases whose requestReplacementRefund read the item
    configuring     \* the snapshot of a configure being served and what it read

eventVars    == <<event, clock, cancellation>>
purchaseVars == <<bought, at, right, issued, accepted, request, staff, refundJob>>
stockVars    == <<mapped, left, setAside, sold, reservation>>
servingVars  == <<accepting, refusing, configuring>>
resolutionVars == <<eventVars, purchaseVars, stockVars, servingVars>>

-----------------------------------------------------------------------------
(* Types and helper state formulae.                                        *)

Events == {"old", "new"}
EventStatuses == {"DRAFT", "PUBLISHED", "SALE_ACTIVE", "POSTPONED", "FINISHED", "CANCELLED"}
CancellationStatuses == {"NONE", "PENDING_BEERRY", "CONTACT_REQUIRED", "REPLACEMENT_PROPOSED",
                         "AUTHORIZED", "REJECTED"}
BuyerRefundStatuses == {"NONE", "PENDING_BUSINESS", "BUSINESS_DECLINED", "PENDING_BEERRY",
                        "AUTHORIZED", "REJECTED"}
Snapshots == {"none", "fresh", "stale"}

ModeStatus == [REFUND_REQUESTED |-> "PENDING_BEERRY", REFUND_DECLINED |-> "CONTACT_REQUIRED",
               REPLACEMENT |-> "REPLACEMENT_PROPOSED"]

QuantityOf(S) == MapThenSumSet(LAMBDA p : Quantity[p], S)
Held == Cardinality({b \in Buyers : reservation[b] = "ACTIVE"})

\* Bug: only the cancellation is looked at.
ClosedByClub == cancellation["old"] # "REPLACEMENT_PROPOSED"

\* The proposal no longer keeps stock (releaseClosedReplacementCapacity).
Closed == \/ cancellation["old"] # "REPLACEMENT_PROPOSED"
          \/ event["new"] \in {"CANCELLED", "FINISHED"}
          \/ clock["new"] # "future"

Outdated(snapshot) == IF snapshot = "fresh" THEN "stale" ELSE snapshot

\* The row of the target event or ticket, of the mapping or of the cancellation
\* changes: the snapshots that are open are outdated.
Outdate ==
    /\ accepting' = [p \in Purchases |-> Outdated(accepting[p])]
    /\ configuring' = [configuring EXCEPT !.snapshot = Outdated(@)]
    /\ UNCHANGED refusing

\* The row of one order changes.
OutdateOrder(p) ==
    /\ accepting' = [accepting EXCEPT ![p] = Outdated(@)]
    /\ UNCHANGED <<refusing, configuring>>

NotConfiguring == [snapshot |-> "none", quantity |-> 0, held |-> 0]

ResolutionInit ==
    /\ event = [old |-> "SALE_ACTIVE", new |-> "DRAFT"]
    /\ clock = [e \in Events |-> "future"]
    /\ cancellation = [e \in Events |-> "NONE"]
    /\ bought = [p \in Purchases |-> "PENDING"]
    /\ at = [p \in Purchases |-> "old"]
    /\ right = [p \in Purchases |-> [e \in Events |-> "NONE"]]
    /\ issued = [p \in Purchases |-> 0]
    /\ accepted = {} /\ staff = {} /\ refusing = {}
    /\ request = [p \in Purchases |-> "NONE"]
    /\ refundJob = [p \in Purchases |-> [e \in Events |-> "NONE"]]
    /\ mapped = FALSE /\ left = 0 /\ setAside = 0 /\ sold = 0
    /\ reservation = [b \in Buyers |-> "NONE"]
    /\ accepting = [p \in Purchases |-> "none"]
    /\ configuring = NotConfiguring

-----------------------------------------------------------------------------
(* The status of an event (updateEventStatus under the lock of the event). *)

\* publishEvent, startSale, finishEvent.
ChangeStatus(e) ==
    /\ \/ event[e] = "DRAFT" /\ clock[e] # "over" /\ event' = [event EXCEPT ![e] = "PUBLISHED"]
       \/ event[e] = "PUBLISHED" /\ clock[e] # "over" /\ event' = [event EXCEPT ![e] = "SALE_ACTIVE"]
       \/ event[e] = "SALE_ACTIVE" /\ event' = [event EXCEPT ![e] = "FINISHED"]
    /\ Outdate
    /\ UNCHANGED <<clock, cancellation, purchaseVars, stockVars>>

\* cancelEvent: the decision of the club, and no right of the event is left.
CancelWith(e, mode) ==
    /\ event[e] \in {"DRAFT", "PUBLISHED", "SALE_ACTIVE", "POSTPONED"}
    /\ mode = "REPLACEMENT" =>
           /\ e = "old"
           /\ event["new"] \in {"DRAFT", "PUBLISHED", "SALE_ACTIVE"} /\ clock["new"] = "future"
    /\ event' = [event EXCEPT ![e] = "CANCELLED"]
    /\ cancellation' = [cancellation EXCEPT ![e] = ModeStatus[mode]]
    /\ right' = [p \in Purchases |->
                    [right[p] EXCEPT ![e] = IF @ = "AVAILABLE" THEN "CANCELLED" ELSE @]]
    /\ Outdate
    /\ UNCHANGED <<clock, bought, at, issued, accepted, request, staff, refundJob, stockVars>>

PostponeEvent(e) ==
    /\ event[e] \in {"PUBLISHED", "SALE_ACTIVE"} /\ clock[e] # "over"
    /\ event' = [event EXCEPT ![e] = "POSTPONED"]
    /\ Outdate
    /\ UNCHANGED <<clock, cancellation, purchaseVars, stockVars>>

\* rescheduleEvent; the windows of the rights move with the event.
RescheduleEvent(e) ==
    /\ event[e] = "POSTPONED"
    /\ event' = [event EXCEPT ![e] = "PUBLISHED"]
    /\ clock' = [clock EXCEPT ![e] = "future"]
    /\ Outdate
    /\ UNCHANGED <<cancellation, purchaseVars, stockVars>>

TimePasses(e) ==
    /\ clock[e] # "over"
    /\ clock' = [clock EXCEPT ![e] = IF @ = "future" THEN "running" ELSE "over"]
    /\ UNCHANGED <<event, cancellation, purchaseVars, stockVars, servingVars>>

-----------------------------------------------------------------------------
(* The cancellation: a new decision of the club, and the review.           *)

\* requestCancellationRefund.
RequestCancellationRefund(e) ==
    /\ cancellation[e] \in {"CONTACT_REQUIRED", "REJECTED", "REPLACEMENT_PROPOSED"}
    /\ cancellation' = [cancellation EXCEPT ![e] = "PENDING_BEERRY"]
    /\ Outdate
    /\ UNCHANGED <<event, clock, purchaseVars, stockVars>>

ReviewCancellation(e) ==
    /\ cancellation[e] = "PENDING_BEERRY"
    /\ \E decision \in {"AUTHORIZED", "REJECTED"} :
           cancellation' = [cancellation EXCEPT ![e] = decision]
    /\ Outdate
    /\ UNCHANGED <<event, clock, purchaseVars, stockVars>>

-----------------------------------------------------------------------------
(* The purchases: payment, use, the orders' refunds.                       *)

\* Bug: the event is not looked at.
RightsOfPayment(e) == "AVAILABLE"

\* issueOrderResources: the rights of a cancelled event are issued cancelled.
RightsOf(e) == IF event[e] = "CANCELLED" THEN "CANCELLED" ELSE "AVAILABLE"

PayPurchase(p) ==
    /\ bought[p] = "PENDING"
    /\ bought' = [bought EXCEPT ![p] = "PAID"]
    /\ right' = [right EXCEPT ![p]["old"] = RightsOf("old")]
    /\ OutdateOrder(p)
    /\ UNCHANGED <<eventVars, at, issued, accepted, request, staff, refundJob, stockVars>>

ExpirePurchase(p) ==
    /\ bought[p] = "PENDING"
    /\ bought' = [bought EXCEPT ![p] = "EXPIRED"]
    /\ OutdateOrder(p)
    /\ UNCHANGED <<eventVars, at, right, issued, accepted, request, staff, refundJob, stockVars>>

UseRight(p, e) ==
    /\ right[p][e] = "AVAILABLE" /\ clock[e] # "over" /\ bought[p] = "PAID"
    /\ event[e] \notin {"POSTPONED", "CANCELLED", "FINISHED"}
    /\ right' = [right EXCEPT ![p][e] = "USED"]
    /\ UNCHANGED <<eventVars, bought, at, issued, accepted, request, staff, refundJob,
                   stockVars, servingVars>>

\* requestOrderRefund, by the staff of the club.
StaffAsks(p) ==
    /\ bought[p] = "PAID" /\ p \notin staff
    /\ \A e \in Events : refundJob[p][e] = "NONE" /\ right[p][e] # "USED"
    /\ staff' = staff \cup {p}
    /\ UNCHANGED <<eventVars, bought, at, right, issued, accepted, request, refundJob,
                   stockVars, servingVars>>

\* The refund that the staff or a job asked for is done (module RefundRequests).
RefundPurchase(p) ==
    /\ bought[p] = "PAID"
    /\ p \in staff \/ \E e \in Events : refundJob[p][e] = "QUEUED"
    /\ bought' = [bought EXCEPT ![p] = "REFUNDED"]
    /\ right' = [right EXCEPT ![p] = [e \in Events |-> IF @[e] = "AVAILABLE" THEN "CANCELLED"
                                                       ELSE @[e]]]
    /\ OutdateOrder(p)
    /\ UNCHANGED <<eventVars, at, issued, accepted, request, staff, refundJob, stockVars>>

-----------------------------------------------------------------------------
(* The stock of the replacement.                                           *)

\* checkout of the replacement, under the lock of its ticket; payment, expiry.
ReserveNew(b) ==
    /\ reservation[b] = "NONE"
    /\ event["new"] = "SALE_ACTIVE" /\ clock["new"] # "over"
    /\ Total - sold - setAside - Held >= 1
    /\ reservation' = [reservation EXCEPT ![b] = "ACTIVE"]
    /\ UNCHANGED <<eventVars, purchaseVars, mapped, left, setAside, sold, servingVars>>

\* confirmOrderReservations.
ConfirmNew(b) ==
    /\ reservation[b] = "ACTIVE"
    /\ Total - sold - setAside >= 1
    /\ reservation' = [reservation EXCEPT ![b] = "CONFIRMED"]
    /\ sold' = sold + 1
    /\ Outdate
    /\ UNCHANGED <<eventVars, purchaseVars, mapped, left, setAside>>

ReleaseNew(b) ==
    /\ reservation[b] = "ACTIVE"
    /\ reservation' = [reservation EXCEPT ![b] = "RELEASED"]
    /\ UNCHANGED <<eventVars, purchaseVars, mapped, left, setAside, sold, servingVars>>

\* configure takes its snapshot before it waits for the lock of the ticket...
BeginConfigure ==
    /\ configuring = NotConfiguring /\ ~mapped
    /\ cancellation["old"] = "REPLACEMENT_PROPOSED"
    /\ event["new"] \in {"DRAFT", "PUBLISHED", "SALE_ACTIVE"} /\ clock["new"] = "future"
    /\ LET eligible == {p \in Purchases : at[p] = "old" /\ bought[p] \in {"PENDING", "PAID"}} IN
       /\ eligible # {}
       /\ configuring' = [snapshot |-> "fresh", quantity |-> QuantityOf(eligible), held |-> Held]
    /\ UNCHANGED <<eventVars, purchaseVars, stockVars, accepting, refusing>>

\* ... and sets the stock aside for all the purchases, at once.
CommitConfigure ==
    /\ configuring.snapshot = "fresh"
    /\ Total - sold - setAside - configuring.held >= configuring.quantity
    /\ mapped' = TRUE /\ left' = configuring.quantity
    /\ setAside' = setAside + configuring.quantity
    /\ accepting' = [p \in Purchases |-> Outdated(accepting[p])]
    /\ configuring' = NotConfiguring
    /\ UNCHANGED <<eventVars, purchaseVars, sold, reservation, refusing>>

ConfigureFails ==
    /\ configuring # NotConfiguring
    /\ configuring' = NotConfiguring
    /\ UNCHANGED <<eventVars, purchaseVars, stockVars, accepting, refusing>>

\* releaseClosedReplacementCapacity of the worker.
ReleaseClosed ==
    /\ Closed /\ left > 0
    /\ left' = 0 /\ setAside' = setAside - left
    /\ Outdate
    /\ UNCHANGED <<eventVars, purchaseVars, mapped, sold, reservation>>

-----------------------------------------------------------------------------
(* A purchase accepts the replacement, or refuses it.                      *)

BeginAccept(p) ==
    /\ accepting[p] = "none"
    /\ bought[p] = "PAID" /\ at[p] = "old" /\ p \notin accepted \cup staff
    /\ request[p] = "NONE" /\ cancellation["old"] = "REPLACEMENT_PROPOSED" /\ mapped
    /\ event["new"] \in {"PUBLISHED", "SALE_ACTIVE"} /\ clock["new"] = "future"
    /\ right[p]["old"] # "USED"
    /\ accepting' = [accepting EXCEPT ![p] = "fresh"]
    /\ UNCHANGED <<eventVars, purchaseVars, stockVars, refusing, configuring>>

\* Bug: accept is not SERIALIZABLE.
ReadCommitted(snapshot) == snapshot # "none"

\* A snapshot that may still commit.
Serializable(snapshot) == snapshot = "fresh"

CommitAccept(p) ==
    /\ Serializable(accepting[p])
    /\ left >= Quantity[p] /\ clock["new"] = "future"
    /\ left' = left - Quantity[p]
    /\ setAside' = setAside - Quantity[p] /\ sold' = sold + Quantity[p]
    /\ right' = [right EXCEPT ![p]["new"] = RightsOf("new")]
    /\ issued' = [issued EXCEPT ![p] = @ + 1]
    /\ at' = [at EXCEPT ![p] = "new"]
    /\ accepted' = accepted \cup {p}
    /\ accepting' = [q \in Purchases |-> IF q = p THEN "none" ELSE Outdated(accepting[q])]
    /\ configuring' = [configuring EXCEPT !.snapshot = Outdated(@)]
    /\ UNCHANGED <<eventVars, bought, request, staff, refundJob, mapped, reservation, refusing>>

AcceptFails(p) ==
    /\ accepting[p] # "none"
    /\ accepting' = [accepting EXCEPT ![p] = "none"]
    /\ UNCHANGED <<eventVars, purchaseVars, stockVars, refusing, configuring>>

\* requestReplacementRefund reads the item, then waits for its order.
BeginRefuse(p) ==
    /\ p \notin refusing /\ at[p] = "old" /\ request[p] = "NONE"
    /\ cancellation["old"] = "REPLACEMENT_PROPOSED"
    /\ refusing' = refusing \cup {p}
    /\ UNCHANGED <<eventVars, purchaseVars, stockVars, accepting, configuring>>

CommitRefuse(p) ==
    /\ p \in refusing
    /\ refusing' = refusing \ {p}
    /\ request' = IF /\ cancellation["old"] = "REPLACEMENT_PROPOSED" /\ request[p] = "NONE"
                     /\ bought[p] = "PAID" /\ p \notin staff
                  THEN [request EXCEPT ![p] = "PENDING_BUSINESS"] ELSE request
    /\ UNCHANGED <<eventVars, bought, at, right, issued, accepted, staff, refundJob, stockVars,
                   accepting, configuring>>

\* Bug: what Beerry decided, the club may decide again.
ReviewsAgain(status) ==
    CASE status \in {"PENDING_BUSINESS", "BUSINESS_DECLINED", "AUTHORIZED"} -> {"PENDING_BEERRY", "BUSINESS_DECLINED"}
      [] status = "PENDING_BEERRY" -> {"AUTHORIZED", "REJECTED"}
      [] OTHER -> {}

\* reviewBuyerRefund: the club first, which may change its mind, then Beerry.
Reviews(status) ==
    CASE status \in {"PENDING_BUSINESS", "BUSINESS_DECLINED"} -> {"PENDING_BEERRY", "BUSINESS_DECLINED"}
      [] status = "PENDING_BEERRY" -> {"AUTHORIZED", "REJECTED"}
      [] OTHER -> {}

ReviewBuyerRefund(p) ==
    /\ \E status \in Reviews(request[p]) : request' = [request EXCEPT ![p] = status]
    /\ UNCHANGED <<eventVars, bought, at, right, issued, accepted, staff, refundJob, stockVars,
                   servingVars>>

-----------------------------------------------------------------------------
(* The worker: discover, and complete.                                     *)

Authorized(p, e) == cancellation[e] = "AUTHORIZED" \/ (e = "old" /\ request[p] = "AUTHORIZED")

DiscoverRefund(p) ==
    /\ bought[p] = "PAID" /\ refundJob[p][at[p]] = "NONE"
    /\ Authorized(p, at[p])
    /\ refundJob' = [refundJob EXCEPT ![p][at[p]] = "QUEUED"]
    /\ UNCHANGED <<eventVars, bought, at, right, issued, accepted, request, staff, stockVars,
                   servingVars>>

\* The stock set aside for a purchase that was refunded is free again.
CompleteRefund(p, e) ==
    /\ refundJob[p][e] = "QUEUED" /\ bought[p] = "REFUNDED"
    /\ refundJob' = [refundJob EXCEPT ![p][e] = "COMPLETED"]
    /\ IF mapped /\ e = "old" /\ at[p] = "old" /\ left >= Quantity[p]
       THEN /\ left' = left - Quantity[p] /\ setAside' = setAside - Quantity[p]
            /\ Outdate
       ELSE UNCHANGED <<left, setAside, servingVars>>
    /\ UNCHANGED <<eventVars, bought, at, right, issued, accepted, request, staff, mapped, sold,
                   reservation>>

ResolutionNext ==
    \/ \E e \in Events : \/ ChangeStatus(e)
                         \/ \E mode \in DOMAIN ModeStatus : CancelWith(e, mode)
                         \/ PostponeEvent(e)
                         \/ RescheduleEvent(e)
                         \/ TimePasses(e)
                         \/ RequestCancellationRefund(e)
                         \/ ReviewCancellation(e)
    \/ \E p \in Purchases : \/ PayPurchase(p)
                            \/ ExpirePurchase(p)
                            \/ StaffAsks(p)
                            \/ RefundPurchase(p)
                            \/ BeginAccept(p)
                            \/ CommitAccept(p)
                            \/ AcceptFails(p)
                            \/ BeginRefuse(p)
                            \/ CommitRefuse(p)
                            \/ ReviewBuyerRefund(p)
                            \/ DiscoverRefund(p)
                            \/ \E e \in Events : UseRight(p, e) \/ CompleteRefund(p, e)
    \/ \E b \in Buyers : ReserveNew(b) \/ ConfirmNew(b) \/ ReleaseNew(b)
    \/ BeginConfigure
    \/ CommitConfigure
    \/ ConfigureFails
    \/ ReleaseClosed

\* The worker runs every ten seconds while EVENT_REFUNDS_ENABLED is set.
ResolutionFairness == WF_resolutionVars(ReleaseClosed)

ResolutionSpec == ResolutionInit /\ [][ResolutionNext]_resolutionVars /\ ResolutionFairness

-----------------------------------------------------------------------------
(* Properties.                                                             *)

ResolutionTypeOK ==
    /\ event \in [Events -> EventStatuses] /\ clock \in [Events -> {"future", "running", "over"}]
    /\ cancellation \in [Events -> CancellationStatuses]
    /\ bought \in [Purchases -> {"PENDING", "PAID", "EXPIRED", "REFUNDED"}]
    /\ at \in [Purchases -> Events]
    /\ right \in [Purchases -> [Events -> {"NONE", "AVAILABLE", "USED", "CANCELLED"}]]
    /\ issued \in [Purchases -> Nat]
    /\ request \in [Purchases -> BuyerRefundStatuses]
    /\ refundJob \in [Purchases -> [Events -> {"NONE", "QUEUED", "COMPLETED"}]]
    /\ mapped \in BOOLEAN /\ left \in Nat /\ setAside \in Nat /\ sold \in Nat
    /\ reservation \in [Buyers -> {"NONE", "ACTIVE", "CONFIRMED", "RELEASED"}]
    /\ accepting \in [Purchases -> Snapshots] /\ configuring.snapshot \in Snapshots
    /\ accepted \cup staff \cup refusing \subseteq Purchases

\* "Se reservan cupos": whoever buys, accepts, is refunded or lets the proposal
\* close meanwhile, what is set aside is what the mapping still promises, what
\* was sold went to a buyer or to a purchase that accepted, and both fit.
ReplacementStock ==
    /\ setAside = left
    /\ sold = Cardinality({b \in Buyers : reservation[b] = "CONFIRMED"}) + QuantityOf(accepted)
    /\ sold + setAside <= Total

\* "Se emiten QR nuevos; los anteriores siguen cancelados [...] ni duplicacion
\* al reintentar": a purchase is given new rights when it moves, once, and no
\* right of a cancelled event, or of a purchase that was refunded while it was
\* accepting, can be used.
NewRightsOnce ==
    \A p \in Purchases :
        /\ issued[p] = (IF at[p] = "new" THEN 1 ELSE 0)
        /\ at[p] = "new" <=> p \in accepted
        /\ \A e \in Events : event[e] = "CANCELLED" \/ bought[p] = "REFUNDED"
                            => right[p][e] # "AVAILABLE"

\* "Solo AUTHORIZED habilita ejecucion": a refund that was ordered stays
\* authorized, by the review of the event or of the purchase.
OrderedIsAuthorized ==
    \A p \in Purchases, e \in Events : refundJob[p][e] # "NONE" => Authorized(p, e)

\* The purchases of a cancelled event, their new rights, their refunds and the
\* stock that is held for them agree, whatever overlaps.
ResolutionInv == ResolutionTypeOK /\ ReplacementStock /\ NewRightsOnce /\ OrderedIsAuthorized

\* "Liberacion periodica de cupos de propuestas cerradas": stock is not kept
\* for a proposal that nobody can accept any more, unless it opens again.
ClosedStockIsFreed ==
    []<>(left = 0 \/ /\ cancellation["old"] = "REPLACEMENT_PROPOSED" /\ clock["new"] = "future"
                     /\ event["new"] \notin {"CANCELLED", "FINISHED"})
=============================================================================
