----------------------------- MODULE OrderPayment -----------------------------
(***************************************************************************)
(* One purchase, from the cart to the money returned: checkout and the     *)
(* reservation of inventory, the payment at the external provider, the     *)
(* webhook (or polling) handlers that apply the provider's events, the     *)
(* timer that lapses unpaid orders, and the cancellation of the event the  *)
(* rights belong to.  CommerceService.checkout, processPaymentEvent,       *)
(* issueOrderResources and expirePendingOrders, with the calls they make   *)
(* into LedgerService and ReferralsService.                                *)
(*                                                                         *)
(* A PostgreSQL transaction is one step, unless it can wait for a lock     *)
(* after it has read something it uses later; statements outside a         *)
(* transaction are steps of their own, so that handlers interleave.        *)
(*                                                                         *)
(* A definition under "Bug:" is used by no other: it takes the place of    *)
(* the one after it to show that a property notices the bug.               *)
(***************************************************************************)
EXTENDS Integers, FiniteSets, FiniteSetsExt

CONSTANTS
    Users,          \* customers
    Orders,         \* identities of the orders that checkouts may create
    Buyer,          \* Buyer[o]: the customer whose cart becomes order o
    Method,         \* Method[o]: "WALLET" (Beerry wallet) or "GATEWAY"
    Referred,       \* customers associated with a referrer
    Tickets,        \* ticket types, all of one event
    Products,       \* products of the club
    Promotions,     \* promotions of the same event; they reserve nothing
    Stock,          \* Stock[r]: quantityTotal / initial stockQuantity
    Limit,          \* Limit[r]: perUserLimit of a ticket type, 0 for none
    MaxQty,         \* bound on the quantity of a cart line
    Amount,         \* amountCents of every payment attempt
    Fee,            \* marketplaceFeeCents of every payment attempt
    Window,         \* the 15 minutes a reservation and its attempt last
    Handlers,       \* concurrent requests (checkouts, webhooks) of all instances
    ProviderMoves,  \* <<from, to>>: what the provider may do to a payment
    MaxRevision,    \* bound on date_last_updated changes that change no status
    MaxTime,        \* bound on the clock
    MaxCrashes      \* bound on the requests that die half way

Inventory  == Tickets \cup Products
Resources  == Inventory \cup Promotions
EventBound == Tickets \cup Promotions

Outcomes == {"PENDING", "APPROVED", "REJECTED", "CANCELLED", "EXPIRED",
             "REFUND_PENDING", "PARTIALLY_REFUNDED", "REFUNDED", "CHARGEBACK"}

ASSUME ConstantsAssumption ==
    /\ Orders # {} /\ Buyer \in [Orders -> Users]
    /\ Method \in [Orders -> {"WALLET", "GATEWAY"}]
    /\ Referred \subseteq Users
    /\ Tickets \cap Products = {} /\ Inventory \cap Promotions = {}
    /\ Stock \in [Inventory -> Nat]
    /\ Limit \in [Tickets -> Nat]
    /\ MaxQty \in Nat
    /\ Amount \in Nat \ {0} /\ Fee \in 0..Amount
    /\ Window \in Nat \ {0}
    /\ ProviderMoves \subseteq Outcomes \X Outcomes
    /\ MaxRevision \in Nat /\ MaxTime \in Nat /\ MaxCrashes \in Nat

VARIABLES
    now,            \* the clock of the database and of every instance
    cart,           \* cart[u][r]: quantity of r in the cart of u
    items,          \* items[o][r]: quantity of r that order o bought
    orderStatus,    \* Order.status
    attempt,        \* PaymentAttempt.status
    expiresAt,      \* expiresAt of the attempt and of the order's reservations
    reservation,    \* InventoryReservation.status, shared by the order's lines
    refunded,       \* PaymentAttempt.refundedAmountCents
    sold,           \* sold[r]: units of r that confirmed reservations consumed
    ledger,         \* the order's postings: the sale and what was reversed of it
    rights,         \* rights[o][r]: the tickets, deliveries, rights issued for r
    issued,         \* how many times issueOrderResources ran for the order
    review,         \* a refund request UNDER_REVIEW was opened for the order
    reward,         \* ReferralReward of the order
    event,          \* Event.status
    payment,        \* the payment as the external provider knows it
    finished,       \* events whose PaymentProviderEvent row is PROCESSED or IGNORED
    pc,             \* pc[h]: what request h will do next
    order,          \* order[h]: the order it is about
    news,           \* news[h]: the provider's event it carries
    snap,           \* snap[h]: refundedAmountCents when it read the attempt
    paidAt,         \* paidAt[h]: the time of payment its settlement decided
    crashes         \* requests that died half way

clubVars     == <<cart, items, sold, rights, issued, review, reward, event>>
moneyVars    == <<orderStatus, attempt, refunded, ledger>>
windowVars   == <<expiresAt, reservation>>
requestVars  == <<order, news, snap, paidAt>>
handlers     == <<pc, requestVars>>
vars == <<now, clubVars, moneyVars, windowVars, payment, finished, handlers, crashes>>

-----------------------------------------------------------------------------
(* Types.                                                                  *)

Quantities == [Resources -> 0..MaxQty]

\* The provider's event, identified by its contents (providerEventId is
\* payment:<id>:<status>:<date_last_updated>).
Events == [outcome : Outcomes, refunded : 0..Amount, rev : 0..MaxRevision]

NoPayment  == [outcome |-> "NONE", refunded |-> 0, rev |-> 0]
NewPayment == [outcome |-> "PENDING", refunded |-> 0, rev |-> 0]

OrderStatuses   == {"NONE", "PENDING", "PAID", "FAILED", "EXPIRED", "CANCELLED",
                    "REFUND_PENDING", "PARTIALLY_REFUNDED", "REFUNDED", "CHARGEBACK"}
AttemptStatuses == {"NONE", "PENDING", "APPROVED", "REJECTED", "EXPIRED", "CANCELLED",
                    "REFUND_PENDING", "PARTIALLY_REFUNDED", "REFUNDED", "CHARGEBACK"}
ReservationStatuses == {"NONE", "ACTIVE", "CONFIRMED", "RELEASED", "EXPIRED"}

\* keys are the references REFUND:<attempt>:<event> of the partial reversals.
Postings == [sale : BOOLEAN, returned : Int, fee : Int, keys : SUBSET Events]

PCs == {"idle", "pay", "query", "record", "apply", "order", "settling", "finish"}

ApprovedEvent == [outcome |-> "APPROVED", refunded |-> 0, rev |-> 0]

-----------------------------------------------------------------------------
(* Helper state formulae.                                                  *)

HasInventory(q) == \E r \in Inventory : q[r] > 0

Holding(o) == reservation[o] = "ACTIVE" /\ expiresAt[o] > now

Reserved(r) == MapThenSumSet(LAMBDA o : items[o][r], {o \in Orders : Holding(o)})

Owned(u, r) == MapThenSumSet(LAMBDA o : items[o][r],
                   {o \in Orders : Buyer[o] = u /\ rights[o][r] # "NONE"})

Available(r) == Stock[r] - sold[r] - Reserved(r)

WithinLimit(u, r, q) ==
    r \in Tickets /\ Limit[r] > 0 => Owned(u, r) + q <= Limit[r]

\* What checkout accepts of a line, and a cart update of a quantity.
Sellable(u, r, q) ==
    /\ r \in EventBound => event = "SALE_ACTIVE"
    /\ r \in Inventory => q <= Available(r)
    /\ WithinLimit(u, r, q)

\* Round(cents * Fee / Amount): the fee that belongs to a refunded amount.
FeeShare(cents) == (2 * cents * Fee + Amount) \div (2 * Amount)

\* Bug: the share of the difference is rounded, not the difference of the shares.
FeeOfDifference(before, after) == FeeShare(after - before)

\* The fee to give back when the amount refunded grows.
FeeBetween(before, after) == FeeShare(after) - FeeShare(before)

\* Bug: the transactions forget SELECT ... FOR UPDATE.
NoLock(o) == TRUE

\* SELECT ... FROM "Order" ... FOR UPDATE is granted: nobody is inside the
\* settlement transaction of o.
LockFree(o) == \A h \in Handlers :
                  ~ (pc[h] = "settling" /\ order[h] = o)

NoOrder == CHOOSE o \in Orders : TRUE

\* The request goes on; it answers, or fails, and is gone.
GoTo(h, next) == pc' = [pc EXCEPT ![h] = next] /\ UNCHANGED requestVars

Done(h) ==
    /\ pc' = [pc EXCEPT ![h] = "idle"]
    /\ order' = [order EXCEPT ![h] = NoOrder]
    /\ news' = [news EXCEPT ![h] = ApprovedEvent]
    /\ snap' = [snap EXCEPT ![h] = 0]
    /\ paidAt' = [paidAt EXCEPT ![h] = 0]

-----------------------------------------------------------------------------
Init ==
    /\ now = 0
    /\ cart = [u \in Users |-> [r \in Resources |-> 0]]
    /\ items = [o \in Orders |-> [r \in Resources |-> 0]]
    /\ orderStatus = [o \in Orders |-> "NONE"]
    /\ attempt = [o \in Orders |-> "NONE"]
    /\ expiresAt = [o \in Orders |-> 0]
    /\ reservation = [o \in Orders |-> "NONE"]
    /\ refunded = [o \in Orders |-> 0]
    /\ sold = [r \in Inventory |-> 0]
    /\ ledger = [o \in Orders |-> [sale |-> FALSE, returned |-> 0, fee |-> 0, keys |-> {}]]
    /\ rights = [o \in Orders |-> [r \in Resources |-> "NONE"]]
    /\ issued = [o \in Orders |-> 0]
    /\ review = [o \in Orders |-> FALSE]
    /\ reward = [o \in Orders |-> "NONE"]
    /\ event = "SALE_ACTIVE"
    /\ payment = [o \in Orders |-> NoPayment]
    /\ finished = [o \in Orders |-> {}]
    /\ pc = [h \in Handlers |-> "idle"]
    /\ order = [h \in Handlers |-> NoOrder]
    /\ news = [h \in Handlers |-> ApprovedEvent]
    /\ snap = [h \in Handlers |-> 0]
    /\ paidAt = [h \in Handlers |-> 0]
    /\ crashes = 0

-----------------------------------------------------------------------------
(* The customer.                                                           *)

\* addCartItem, updateCartItem (a quantity the shop can still sell to the
\* customer) and deleteCartItem.
SetCartItem(u, r, q) ==
    /\ q # cart[u][r]
    /\ q = 0 \/ Sellable(u, r, q)
    /\ cart' = [cart EXCEPT ![u][r] = q]
    /\ UNCHANGED <<now, items, sold, rights, issued, review, reward, event, moneyVars,
                   windowVars, payment, finished, handlers, crashes>>

\* The transaction of checkout.  Its reads of stock and of the limit are made
\* under the advisory lock of each resource, which confirmOrderReservations
\* also takes.  Orders whose window ends after MaxTime are not explored.
Checkout(h, o) ==
    LET q == cart[Buyer[o]] IN
    /\ pc[h] = "idle"
    /\ orderStatus[o] = "NONE"
    /\ now + Window <= MaxTime
    /\ \E r \in Resources : q[r] > 0
    /\ \A r \in Resources : q[r] > 0 => Sellable(Buyer[o], r, q[r])
    /\ items' = [items EXCEPT ![o] = q]
    /\ orderStatus' = [orderStatus EXCEPT ![o] = "PENDING"]
    /\ attempt' = [attempt EXCEPT ![o] = "PENDING"]
    /\ expiresAt' = [expiresAt EXCEPT ![o] = now + Window]
    /\ reservation' = [reservation EXCEPT ![o] = IF HasInventory(q) THEN "ACTIVE" ELSE @]
    /\ pc' = [pc EXCEPT ![h] = IF Method[o] = "WALLET" THEN "query" ELSE "pay"]
    /\ order' = [order EXCEPT ![h] = o]
    /\ news' = [news EXCEPT ![h] = ApprovedEvent]
    /\ UNCHANGED <<now, cart, sold, rights, issued, review, reward, event, refunded,
                   ledger, payment, finished, snap, paidAt, crashes>>

\* After the transaction: the gateway creates the payment and checkout stores
\* its identifier and answers.
CreatePayment(h) ==
    /\ pc[h] = "pay"
    /\ payment' = [payment EXCEPT ![order[h]] = NewPayment]
    /\ Done(h)
    /\ UNCHANGED <<now, clubVars, moneyVars, windowVars, finished, crashes>>

\* The gateway or the fee lookup throws: the order stays PENDING.
PaymentCreationFails(h) ==
    /\ pc[h] = "pay"
    /\ Done(h)
    /\ UNCHANGED <<now, clubVars, moneyVars, windowVars, payment, finished, crashes>>

-----------------------------------------------------------------------------
(* The payment provider, an environment the service only observes.         *)

\* The payment changes state; a partial refund returns a part of what is left.
ProviderUpdate(o, to, cents) ==
    /\ <<payment[o].outcome, to>> \in ProviderMoves
    /\ to = "PARTIALLY_REFUNDED" => payment[o].refunded < cents /\ cents < Amount
    /\ to = "REFUNDED" => cents = Amount
    /\ to \notin {"PARTIALLY_REFUNDED", "REFUNDED"} => cents = payment[o].refunded
    /\ payment' = [payment EXCEPT ![o] =
                     [outcome |-> to, refunded |-> cents, rev |-> payment[o].rev]]
    /\ UNCHANGED <<now, clubVars, moneyVars, windowVars, finished, handlers, crashes>>

\* date_last_updated changes and nothing else: the same news, another event.
ProviderTouch(o) ==
    /\ payment[o].outcome # "NONE"
    /\ payment[o].rev < MaxRevision
    /\ payment' = [payment EXCEPT ![o] =
                     [outcome |-> @.outcome, refunded |-> @.refunded, rev |-> @.rev + 1]]
    /\ UNCHANGED <<now, clubVars, moneyVars, windowVars, finished, handlers, crashes>>

-----------------------------------------------------------------------------
(* A provider event, from its reception to the end of processPaymentEvent. *)

\* A webhook or a poll: the handler asks the provider for the payment.  The
\* provider repeats its notifications, so this may happen at any time.
ReceiveEvent(h, o) ==
    /\ pc[h] = "idle"
    /\ payment[o].outcome # "NONE"
    /\ pc' = [pc EXCEPT ![h] = "query"]
    /\ order' = [order EXCEPT ![h] = o]
    /\ news' = [news EXCEPT ![h] = payment[o]]
    /\ UNCHANGED <<snap, paidAt>>
    /\ UNCHANGED <<now, clubVars, moneyVars, windowVars, payment, finished, crashes>>

\* bindAuthoritativeExternalPayment (for a wallet order, the update that gives
\* the attempt its wallet:<id>), then the first read of processPaymentEvent.
ReadAttempt(h) ==
    /\ pc[h] = "query"
    /\ pc' = [pc EXCEPT ![h] = "record"]
    /\ snap' = [snap EXCEPT ![h] = refunded[order[h]]]
    /\ UNCHANGED <<order, news, paidAt>>
    /\ UNCHANGED <<now, clubVars, moneyVars, windowVars, payment, finished, crashes>>

\* The row of the event is inserted.  One that was finished ends the request;
\* one that was left RECEIVED by a crash or an error lets it go on, as no row does.
RecordEvent(h) ==
    /\ pc[h] = "record"
    /\ \/ news[h] \in finished[order[h]] /\ Done(h)
       \/ news[h] \notin finished[order[h]] /\ GoTo(h, "apply")
    /\ UNCHANGED <<now, clubVars, moneyVars, windowVars, payment, finished, crashes>>

\* finishProviderEvent.
FinishEvent(h) ==
    /\ pc[h] = "finish"
    /\ finished' = [finished EXCEPT ![order[h]] = @ \cup {news[h]}]
    /\ Done(h)
    /\ UNCHANGED <<now, clubVars, moneyVars, windowVars, payment, crashes>>

\* The outcome the handler is about to apply.
Applying(h, outcomes) == pc[h] = "apply" /\ news[h].outcome \in outcomes

IgnorePending(h) ==
    /\ Applying(h, {"PENDING"})
    /\ GoTo(h, "finish")
    /\ UNCHANGED <<now, clubVars, moneyVars, windowVars, payment, finished, crashes>>

\* REFUND_PENDING: two conditional updates, in no transaction.
MarkAttemptRefundPending(h) ==
    LET o == order[h] IN
    /\ Applying(h, {"REFUND_PENDING"})
    /\ attempt' = [attempt EXCEPT ![o] = IF @ = "APPROVED" THEN "REFUND_PENDING" ELSE @]
    /\ GoTo(h, "order")
    /\ UNCHANGED <<now, clubVars, orderStatus, refunded, ledger, windowVars, payment,
                   finished, crashes>>

MarkOrderRefundPending(h) ==
    LET o == order[h] IN
    /\ pc[h] = "order"
    /\ LockFree(o)
    /\ orderStatus' = [orderStatus EXCEPT ![o] =
                          IF @ \in {"PAID", "PARTIALLY_REFUNDED"} THEN "REFUND_PENDING" ELSE @]
    /\ GoTo(h, "finish")
    /\ UNCHANGED <<now, clubVars, attempt, refunded, ledger, windowVars, payment,
                   finished, crashes>>

-----------------------------------------------------------------------------
(* Refunds and chargebacks: each a transaction that locks the order first. *)

Refundable == {"APPROVED", "REFUND_PENDING", "PARTIALLY_REFUNDED"}

\* reverseSalePartial: idempotent by its reference.
ReversePartial(l, key, cents, fee) ==
    IF key \in l.keys THEN l
    ELSE [sale |-> l.sale, returned |-> l.returned + cents, fee |-> l.fee + fee,
          keys |-> l.keys \cup {key}]

\* Bug: the club's fee is not given back.
ReverseAllButFee(l) == [l EXCEPT !.returned = @ + Amount]

\* reverseSale: all of it.
ReverseAll(l) == [sale |-> l.sale, returned |-> l.returned + Amount,
                  fee |-> l.fee + Fee, keys |-> l.keys]

\* The first look at a partial refund, with the amount read before any lock.
IgnorePartialRefund(h) ==
    LET e == news[h] IN
    /\ Applying(h, {"PARTIALLY_REFUNDED"})
    /\ e.refunded <= snap[h] \/ e.refunded >= Amount
    /\ GoTo(h, "finish")
    /\ UNCHANGED <<now, clubVars, moneyVars, windowVars, payment, finished, crashes>>

\* Bug: the amount read before the lock is used.
ReadBeforeLock(h) == snap[h]

\* The amount refunded so far, read again under the lock of the order.
RefundedSoFar(h) == refunded[order[h]]

PartialRefund(h) ==
    LET o     == order[h]
        e     == news[h]
        cents == e.refunded - RefundedSoFar(h)
        fee   == FeeBetween(RefundedSoFar(h), e.refunded)
    IN
    /\ Applying(h, {"PARTIALLY_REFUNDED"})
    /\ e.refunded > snap[h] /\ e.refunded < Amount
    /\ LockFree(o)
    /\ \/ /\ cents <= 0
          /\ UNCHANGED moneyVars
       \/ /\ cents > 0
          /\ ledger[o].sale
          /\ ledger' = [ledger EXCEPT ![o] = ReversePartial(@, e, cents, fee)]
          /\ attempt' = [attempt EXCEPT ![o] = "PARTIALLY_REFUNDED"]
          /\ refunded' = [refunded EXCEPT ![o] = e.refunded]
          /\ orderStatus' = [orderStatus EXCEPT ![o] = "PARTIALLY_REFUNDED"]
    /\ GoTo(h, "finish")
    /\ UNCHANGED <<now, clubVars, windowVars, payment, finished, crashes>>

\* The rights of r that were still AVAILABLE are taken back.
Revoked(status) == IF status = "AVAILABLE" THEN "CANCELLED" ELSE status

\* Bug: the reward survives the refund.
KeepReward(status) == status

\* reverseOrderEffects: the reward that was granted is taken back.
ReverseReward(status) == IF status = "GRANTED" THEN "REVERSED" ELSE status

\* REFUNDED or CHARGEBACK: what is left of the sale is reversed, the reward of
\* the referrer too, and the rights that were not used are revoked.
FullRefund(h) ==
    LET o         == order[h]
        e         == news[h]
        remaining == Amount - refunded[o]
        fee       == Fee - FeeShare(refunded[o])
    IN
    /\ Applying(h, {"REFUNDED", "CHARGEBACK"})
    /\ LockFree(o)
    /\ \/ /\ attempt[o] = "REFUNDED"
          /\ UNCHANGED <<moneyVars, rights, reward>>
       \/ /\ attempt[o] \in Refundable
          /\ ledger[o].sale
          /\ ledger' = [ledger EXCEPT ![o] =
                          IF refunded[o] > 0
                          THEN ReversePartial(@, e, remaining, fee)
                          ELSE ReverseAll(@)]
          /\ attempt' = [attempt EXCEPT ![o] = e.outcome]
          /\ refunded' = [refunded EXCEPT ![o] = Amount]
          /\ orderStatus' = [orderStatus EXCEPT ![o] = e.outcome]
          /\ reward' = [reward EXCEPT ![o] = ReverseReward(@)]
          /\ rights' = [rights EXCEPT ![o] = [r \in Resources |-> Revoked(@[r])]]
    /\ GoTo(h, "finish")
    /\ UNCHANGED <<now, cart, items, sold, issued, review, event, windowVars, payment,
                   finished, crashes>>

\* PAYMENT_NOT_REFUNDABLE or LEDGER_SALE_NOT_FOUND: the transaction rolls back,
\* the request fails and the event's row stays RECEIVED.
RefundThrows(h) ==
    LET o == order[h]
        e == news[h]
    IN
    /\ LockFree(o)
    /\ \/ /\ Applying(h, {"REFUNDED", "CHARGEBACK"})
          /\ attempt[o] \notin Refundable \cup {"REFUNDED"}
       \/ /\ Applying(h, {"PARTIALLY_REFUNDED"})
          /\ e.refunded > snap[h] /\ e.refunded < Amount
          /\ e.refunded > refunded[o]
          /\ ~ ledger[o].sale
    /\ Done(h)
    /\ UNCHANGED <<now, clubVars, moneyVars, windowVars, payment, finished, crashes>>

-----------------------------------------------------------------------------
(* Settlement: the transaction that decides a pending order.               *)

Rejections == {"REJECTED", "CANCELLED", "EXPIRED"}

\* Bugs: a late approval is ignored; an event is applied again after a refund.
SettlesPendingOnly(o, outcome) == attempt[o] = "PENDING"
SettlesUnlessApproved(o, outcome) == attempt[o] # "APPROVED"

\* What the settlement still accepts, once it holds the order's lock.
Settles(o, outcome) ==
    \/ attempt[o] = "PENDING"
    \/ attempt[o] = "EXPIRED" /\ outcome = "APPROVED"

\* The outcome came too late: nothing happens and the event is PROCESSED.
SettleNothing(h) ==
    /\ Applying(h, Rejections \cup {"APPROVED"})
    /\ LockFree(order[h])
    /\ ~ Settles(order[h], news[h].outcome)
    /\ GoTo(h, "finish")
    /\ UNCHANGED <<now, clubVars, moneyVars, windowVars, payment, finished, crashes>>

\* Bug: a refused order is called cancelled.
CancelledUnlessExpired(outcome) == IF outcome = "EXPIRED" THEN "EXPIRED" ELSE "CANCELLED"

\* The status of an order whose payment was refused.
StatusAfter(outcome) == IF outcome = "REJECTED" THEN "FAILED" ELSE outcome

\* The payment was refused or lapsed at the provider.
RejectOrder(h) ==
    LET o       == order[h]
        outcome == news[h].outcome
    IN
    /\ Applying(h, Rejections)
    /\ LockFree(o)
    /\ Settles(o, outcome)
    /\ attempt' = [attempt EXCEPT ![o] = outcome]
    /\ orderStatus' = [orderStatus EXCEPT ![o] = StatusAfter(outcome)]
    /\ reservation' = [reservation EXCEPT ![o] =
                          IF @ # "ACTIVE" THEN @
                          ELSE IF outcome = "EXPIRED" THEN "EXPIRED" ELSE "RELEASED"]
    /\ GoTo(h, "finish")
    /\ UNCHANGED <<now, clubVars, refunded, ledger, expiresAt, payment, finished, crashes>>

\* An approved payment: the order is locked and the time of payment is read;
\* the locks of the resources are still to be waited for.
BeginApproval(h) ==
    LET o == order[h] IN
    /\ Applying(h, {"APPROVED"})
    /\ LockFree(o)
    /\ Settles(o, "APPROVED")
    /\ pc' = [pc EXCEPT ![h] = "settling"]
    /\ paidAt' = [paidAt EXCEPT ![h] = now]
    /\ UNCHANGED <<order, news, snap>>
    /\ UNCHANGED <<now, clubVars, moneyVars, windowVars, payment, finished, crashes>>

\* Bugs: a reservation that is over is confirmed; so is one that was released.
ConfirmsLapsed(o, at) == HasInventory(items[o]) => reservation[o] = "ACTIVE"
ConfirmsByStock(o, at) ==
    \A r \in Inventory : items[o][r] <= Stock[r] - sold[r]

\* confirmOrderReservations: every reservation in force at paidAt and every
\* resource with the units; an order of promotions reserved nothing.
Confirms(o, at) ==
    HasInventory(items[o]) =>
        /\ reservation[o] = "ACTIVE" /\ expiresAt[o] > at
        /\ \A r \in Inventory : items[o][r] > 0 => items[o][r] <= Stock[r] - sold[r]

\* Bug: the rights of an event that was cancelled meanwhile work.
AlwaysAvailable(o, r) == IF items[o][r] = 0 THEN rights[o][r] ELSE "AVAILABLE"

\* issueOrderResources: rights of a cancelled event are born CANCELLED.
RightOf(o, r) ==
    IF items[o][r] = 0 THEN rights[o][r]
    ELSE IF r \in EventBound /\ event = "CANCELLED" THEN "CANCELLED" ELSE "AVAILABLE"

\* Bug: a line that was made smaller since goes below zero.
LessLines(c, q) == [r \in Resources |-> c[r] - q[r]]

\* The lines that were bought leave the cart, or as many units of them.
WithoutLines(c, q) == [r \in Resources |-> IF c[r] <= q[r] THEN 0 ELSE c[r] - q[r]]

\* postSale, idempotent by its reference.
PostSale(l) == [sale |-> TRUE, returned |-> l.returned, fee |-> l.fee, keys |-> l.keys]

\* The sale is posted in any case; the resources are issued only if the
\* reservations could be confirmed, and a refund request is opened if not.
CommitApproval(h) ==
    LET o == order[h]
        u == Buyer[o]
    IN
    /\ pc[h] = "settling"
    /\ attempt' = [attempt EXCEPT ![o] = "APPROVED"]
    /\ ledger' = [ledger EXCEPT ![o] = PostSale(@)]
    /\ cart' = [cart EXCEPT ![u] = WithoutLines(@, items[o])]
    /\ \/ /\ Confirms(o, paidAt[h])
          /\ orderStatus' = [orderStatus EXCEPT ![o] = "PAID"]
          /\ reservation' = [reservation EXCEPT ![o] =
                                IF HasInventory(items[o]) THEN "CONFIRMED" ELSE @]
          /\ sold' = [r \in Inventory |-> sold[r] + items[o][r]]
          /\ reward' = [reward EXCEPT ![o] =
                           IF u \in Referred /\ @ = "NONE" THEN "GRANTED" ELSE @]
          /\ rights' = [rights EXCEPT ![o] = [r \in Resources |-> RightOf(o, r)]]
          /\ issued' = [issued EXCEPT ![o] = @ + 1]
          /\ UNCHANGED review
       \/ /\ ~ Confirms(o, paidAt[h])
          /\ orderStatus' = [orderStatus EXCEPT ![o] = "REFUND_PENDING"]
          /\ review' = [review EXCEPT ![o] = TRUE]
          /\ UNCHANGED <<reservation, sold, reward, rights, issued>>
    /\ GoTo(h, "finish")
    /\ UNCHANGED <<now, items, event, refunded, expiresAt, payment, finished, crashes>>

-----------------------------------------------------------------------------
(* The timer of the service, the club, the clock and the crashes.          *)

\* Bug: an order whose payment could not be created is never selected.
DueIfPaymentExists(o) ==
    attempt[o] = "PENDING" /\ expiresAt[o] <= now /\ payment[o].outcome # "NONE"

\* What the query of expirePendingOrders selects.
Due(o) == attempt[o] = "PENDING" /\ expiresAt[o] <= now

\* expirePendingOrders for one attempt of its batch.
ExpireOrder(o) ==
    /\ Due(o)
    /\ LockFree(o)
    /\ attempt' = [attempt EXCEPT ![o] = "EXPIRED"]
    /\ orderStatus' = [orderStatus EXCEPT ![o] = IF @ = "PENDING" THEN "EXPIRED" ELSE @]
    /\ reservation' = [reservation EXCEPT ![o] = IF @ = "ACTIVE" THEN "EXPIRED" ELSE @]
    /\ UNCHANGED <<now, clubVars, refunded, ledger, expiresAt, payment, finished,
                   handlers, crashes>>

\* EventsService.cancelEvent: sales stop and the rights nobody used are revoked.
\* The event's row lock makes it one step with respect to issueOrderResources.
CancelEvent ==
    /\ EventBound # {}
    /\ event = "SALE_ACTIVE"
    /\ event' = "CANCELLED"
    /\ rights' = [o \in Orders |-> [r \in Resources |->
                     IF r \in EventBound THEN Revoked(rights[o][r]) ELSE rights[o][r]]]
    /\ UNCHANGED <<now, cart, items, sold, issued, review, reward, moneyVars, windowVars,
                   payment, finished, handlers, crashes>>

Tick ==
    /\ now < MaxTime
    /\ now' = now + 1
    /\ UNCHANGED <<clubVars, moneyVars, windowVars, payment, finished, handlers, crashes>>

\* An instance dies: the open transaction of its request is rolled back.
Crash(h) ==
    /\ pc[h] # "idle"
    /\ crashes < MaxCrashes
    /\ crashes' = crashes + 1
    /\ Done(h)
    /\ UNCHANGED <<now, clubVars, moneyVars, windowVars, payment, finished>>

-----------------------------------------------------------------------------
(* The next step of a request that is being served.                        *)
HandlerStep(h) ==
    \/ CreatePayment(h)
    \/ PaymentCreationFails(h)
    \/ ReadAttempt(h)
    \/ RecordEvent(h)
    \/ IgnorePending(h)
    \/ MarkAttemptRefundPending(h)
    \/ MarkOrderRefundPending(h)
    \/ IgnorePartialRefund(h)
    \/ PartialRefund(h)
    \/ FullRefund(h)
    \/ RefundThrows(h)
    \/ SettleNothing(h)
    \/ RejectOrder(h)
    \/ BeginApproval(h)
    \/ CommitApproval(h)
    \/ FinishEvent(h)

Next ==
    \/ \E u \in Users, r \in Resources, q \in 0..MaxQty : SetCartItem(u, r, q)
    \/ \E h \in Handlers, o \in Orders : Checkout(h, o)
    \/ \E h \in Handlers, o \in Orders : ReceiveEvent(h, o)
    \/ \E h \in Handlers : HandlerStep(h)
    \/ \E o \in Orders, to \in Outcomes, cents \in 0..Amount : ProviderUpdate(o, to, cents)
    \/ \E o \in Orders : ProviderTouch(o)
    \/ \E o \in Orders : ExpireOrder(o)
    \/ CancelEvent
    \/ Tick
    \/ \E h \in Handlers : Crash(h)

Spec == Init /\ [][Next]_vars

\* The clock and the timer job run for ever; a request that holds no lock it
\* waits for goes on (PostgreSQL queues lock requests); the provider repeats
\* its notifications.  Nothing forces a customer, the club or the provider to act.
Fairness ==
    /\ WF_vars(Tick)
    /\ \A o \in Orders : WF_vars(ExpireOrder(o))
    /\ \A h \in Handlers : WF_vars(HandlerStep(h))
    /\ \A o \in Orders : WF_vars(\E h \in Handlers : ReceiveEvent(h, o))

FairSpec == Spec /\ Fairness

-----------------------------------------------------------------------------
(* Properties.                                                             *)

RequestTypeOK ==
    /\ pc \in [Handlers -> PCs]
    /\ order \in [Handlers -> Orders]
    /\ news \in [Handlers -> Events]
    /\ snap \in [Handlers -> 0..Amount]
    /\ paidAt \in [Handlers -> Nat]

\* Every variable has its type (the columns and enums of the schema).
TypeOK ==
    /\ now \in Nat
    /\ cart \in [Users -> Quantities]
    /\ items \in [Orders -> Quantities]
    /\ orderStatus \in [Orders -> OrderStatuses]
    /\ attempt \in [Orders -> AttemptStatuses]
    /\ expiresAt \in [Orders -> Nat]
    /\ reservation \in [Orders -> ReservationStatuses]
    /\ refunded \in [Orders -> 0..Amount]
    /\ sold \in [Inventory -> Nat]
    /\ ledger \in [Orders -> Postings]
    /\ rights \in [Orders -> [Resources -> {"NONE", "AVAILABLE", "CANCELLED"}]]
    /\ issued \in [Orders -> Nat]
    /\ review \in [Orders -> BOOLEAN]
    /\ reward \in [Orders -> {"NONE", "GRANTED", "REVERSED"}]
    /\ event \in {"SALE_ACTIVE", "CANCELLED"}
    /\ payment \in [Orders -> Events \cup {NoPayment}]
    /\ finished \in [Orders -> SUBSET Events]
    /\ RequestTypeOK
    /\ crashes \in 0..MaxCrashes

\* An attempt whose money the club has, in whole or in part.
Paid(o)     == attempt[o] \in Refundable
Returned(o) == attempt[o] \in {"REFUNDED", "CHARGEBACK"}

\* No unit is sold twice.
NeverOversold == \A r \in Inventory : sold[r] <= Stock[r]

\* Stock is what the confirmed reservations took, each once, and is never
\* oversold, whatever was reserved, lapsed or approved late meanwhile
\* (confirmOrderReservations against checkout and expirePendingOrders).
StockIsBacked ==
    /\ NeverOversold
    /\ \A r \in Inventory :
          sold[r] = MapThenSumSet(LAMBDA o : items[o][r],
                                  {o \in Orders : reservation[o] = "CONFIRMED"})

\* A QR that works belongs to an order that is paid and not given back, whose
\* units were confirmed, and whose event was not cancelled.
RightsAreBacked ==
    \A o \in Orders, r \in Resources :
        rights[o][r] = "AVAILABLE" =>
            /\ Paid(o) /\ ledger[o].sale
            /\ HasInventory(items[o]) => reservation[o] = "CONFIRMED"
            /\ r \in EventBound => event # "CANCELLED"

\* A payment the ledger knows was answered in exactly one of two ways, once:
\* the resources were issued, or a refund request was opened for it.
ServedOrReviewed ==
    \A o \in Orders :
        /\ issued[o] <= 1
        /\ ledger[o].sale <=> issued[o] = 1 \/ review[o]
        /\ ~ (issued[o] = 1 /\ review[o])

\* The ledger reversed exactly what the attempt says was refunded, and of the
\* fee exactly its share: the rounded shares of successive refunds add up.
LedgerAgrees ==
    \A o \in Orders :
        /\ ledger[o].sale <=> Paid(o) \/ Returned(o)
        /\ ledger[o].returned = refunded[o]
        /\ ledger[o].fee = IF Returned(o) THEN Fee ELSE FeeShare(refunded[o])
        /\ refunded[o] = Amount <=> Returned(o)

\* The order and its attempt never tell different stories of the payment, also
\* between the two updates of a pending refund.
StatusesAgree ==
    \A o \in Orders :
        /\ attempt[o] \in {"NONE", "PENDING", "EXPIRED", "CANCELLED", "REFUNDED", "CHARGEBACK"} =>
               orderStatus[o] = attempt[o]
        /\ attempt[o] = "REJECTED" => orderStatus[o] = "FAILED"
        /\ Paid(o) => orderStatus[o] \in {"PAID", "REFUND_PENDING", "PARTIALLY_REFUNDED"}
        /\ review[o] => orderStatus[o] # "PAID"

\* The effect an event must have had on order o: an approval is in the ledger,
\* unless the attempt was refused before; a refusal left nothing pending; the
\* cents of a refund were returned.
Applied(o, e) ==
    /\ e.outcome = "APPROVED" => ledger[o].sale \/ attempt[o] \in {"REJECTED", "CANCELLED"}
    /\ e.outcome \in Rejections => attempt[o] # "PENDING"
    /\ e.outcome = "PARTIALLY_REFUNDED" => e.refunded <= refunded[o]
    /\ e.outcome \in {"REFUNDED", "CHARGEBACK"} => Returned(o)

\* An event is only acknowledged once its effect is there: after a crash, a
\* failure or a duplicate in between, no news is lost.
NoNewsLost == \A o \in Orders : \A e \in finished[o] : Applied(o, e)

\* The referrer keeps a reward exactly as long as the customer's purchase stands
\* (createRewardForPaidOrder, reverseOrderEffects).
RewardFollowsOrder ==
    \A o \in Orders :
        /\ reward[o] = "GRANTED" <=> issued[o] > 0 /\ Paid(o) /\ Buyer[o] \in Referred
        /\ reward[o] = "REVERSED" => Returned(o)

\* A right that was revoked stays revoked, and none is issued anew: "a QR from
\* the cancelled event remains cancelled forever" (issueReplacementResources).
RightsStayRevoked ==
    [][\A o \in Orders, r \in Resources :
           rights[o][r] # "NONE" =>
               \/ rights'[o][r] = rights[o][r]
               \/ rights'[o][r] = "CANCELLED"]_vars

\* The order's life, as its customer and its club see it.
Phase(status, served) ==
    CASE status = "NONE"                      -> "NONE"
      [] status = "PENDING"                   -> "OPEN"
      [] status \in {"REJECTED", "CANCELLED"} -> "CLOSED"
      [] status = "EXPIRED"                   -> "LAPSED"
      [] status \in Refundable                -> IF served > 0 THEN "SERVED" ELSE "OWED"
      [] status \in {"REFUNDED", "CHARGEBACK"} -> "RETURNED"

Lifecycle == INSTANCE OrderLifecycle WITH
    phase    <- [o \in Orders |-> Phase(attempt[o], issued[o])],
    need     <- items,
    left     <- [r \in Inventory |-> Stock[r] - sold[r]],
    returned <- refunded

\* Checkout, settlement, expiration and refunds implement that life.
ImplementsLifecycle == Lifecycle!Spec

\* No order waits for ever: it is paid, refused or expired.
PendingOrderCloses ==
    \A o \in Orders : orderStatus[o] = "PENDING" ~> orderStatus[o] # "PENDING"

\* A payment the provider approved and did not undo is booked, also after a
\* crash in the middle of its webhook and after the order lapsed.
ApprovedPaymentIsBooked ==
    \A o \in Orders :
        payment[o].outcome = "APPROVED" /\ attempt[o] \in {"PENDING", "EXPIRED"}
            ~> ledger[o].sale \/ attempt[o] \in {"REJECTED", "CANCELLED"}
                   \/ payment[o].outcome # "APPROVED"

-----------------------------------------------------------------------------
(* Why it is so: the strengthening that makes the invariants inductive.     *)

\* Of an order nobody's money was booked for, nothing was posted, issued,
\* opened for review, rewarded or confirmed.
UnpaidIsUntouched ==
    \A o \in Orders : ~ Paid(o) /\ ~ Returned(o) =>
        /\ refunded[o] = 0 /\ ledger[o].keys = {}
        /\ issued[o] = 0 /\ ~ review[o] /\ reward[o] = "NONE"
        /\ reservation[o] # "CONFIRMED"
        /\ \A r \in Resources : rights[o][r] = "NONE"

\* The references of partial reversals name less than was refunded, so the next
\* refund has a reference of its own.
KeysArePast ==
    \A o \in Orders : ~ Returned(o) =>
        \A k \in ledger[o].keys :
            k.outcome = "PARTIALLY_REFUNDED" /\ k.refunded <= refunded[o]

\* An order that was refused or lapsed holds no units.
LapsedHoldsNothing ==
    \A o \in Orders : attempt[o] \in Rejections \cup {"NONE"} => reservation[o] # "ACTIVE"

OrderInv ==
    /\ NeverOversold
    /\ RightsAreBacked /\ ServedOrReviewed /\ LedgerAgrees
    /\ StatusesAgree /\ RewardFollowsOrder
    /\ UnpaidIsUntouched /\ KeysArePast /\ LapsedHoldsNothing

\* The provider knows payments of orders that exist, and has returned all of
\* the money only of those it calls refunded.
PaymentsAreKnown ==
    \A o \in Orders :
        /\ payment[o].outcome # "NONE" \/ finished[o] # {} => attempt[o] # "NONE"
        /\ payment[o].outcome = "PARTIALLY_REFUNDED" => payment[o].refunded < Amount

\* What a request knows of its order, however long it was interrupted.
RequestOK(h) ==
    /\ pc[h] = "idle" => snap[h] = 0
    /\ pc[h] # "idle" => attempt[order[h]] # "NONE"
    /\ snap[h] <= refunded[order[h]]
    /\ news[h].outcome = "PARTIALLY_REFUNDED" => news[h].refunded < Amount
    /\ pc[h] = "order" => news[h].outcome = "REFUND_PENDING"
    /\ pc[h] = "settling" => news[h].outcome = "APPROVED" /\ Settles(order[h], "APPROVED")
    /\ pc[h] = "finish" => Applied(order[h], news[h])

\* The row lock of an order lets one settlement in.
OneSettlement ==
    \A g, h \in Handlers :
        pc[g] = "settling" /\ pc[h] = "settling" /\ order[g] = order[h] => g = h

RequestInv == PaymentsAreKnown /\ OneSettlement /\ \A h \in Handlers : RequestOK(h)

\* All of it together: the invariant that every step preserves.
IndInv == TypeOK /\ OrderInv /\ RequestInv /\ NoNewsLost

-----------------------------------------------------------------------------
(* What the repository says and this code does not do.                     *)

\* "Pagos aprobados tarde se registran" (docs/event-cancellation-flow.md:21): an
\* approval that was acknowledged is in the ledger.
LateApprovalIsBooked ==
    \A o \in Orders : \A e \in finished[o] : e.outcome = "APPROVED" => ledger[o].sale
=============================================================================
