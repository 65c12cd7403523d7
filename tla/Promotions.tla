------------------------------ MODULE Promotions ------------------------------
(***************************************************************************)
(* A promotion of a club: what it includes and what it costs, edited while *)
(* the prices of its goods move, its event closes and customers buy it.    *)
(* PromotionsService reads the promotion and the goods, computes, and      *)
(* writes in a transaction that checks nothing again: an edit stops        *)
(* between.  A purchase remembers the promotion only by its name           *)
(* (OrderItem.itemId): the rights are created when the payment is          *)
(* approved, and point at the row (CommerceService.issueOrderResources).   *)
(* The promotion is not the replacement of a cancelled event, whose rows   *)
(* the database keeps as they are (see Stock).                             *)
(*                                                                         *)
(* A definition under "Bug:" is used by no other: it takes the place of    *)
(* the one after it to show that a property notices the bug.               *)
(***************************************************************************)
EXTENDS Integers, FiniteSets, FiniteSetsExt

CONSTANTS
    PromoGoods,     \* the ticket types and the products of the club
    PromoEvents,
    NoPromoEvent,
    EventOfGood,    \* the event of a ticket type, NoPromoEvent for its other goods
    PromoTickets,   \* which goods are ticket types
    PromoLists,     \* the lists of lines an administrator may send
    PromoEditors,   \* edits, each made once
    PromoOrders,
    PriceSteps,     \* the prices that each good may have, in cents
    ManualPrices,   \* the final prices an administrator may give
    MaxReprices     \* bound on the changes of price

ASSUME PromotionAssumption ==
    /\ NoPromoEvent \notin PromoEvents
    /\ PromoTickets \subseteq PromoGoods
    /\ EventOfGood \in [PromoGoods -> PromoEvents \cup {NoPromoEvent}]
    /\ PriceSteps \in [PromoGoods -> (SUBSET Nat) \ {{}}] /\ ManualPrices \subseteq Nat /\ MaxReprices \in Nat
    /\ \A g \in PromoGoods : IsFiniteSet(PriceSteps[g])
    /\ \A items \in PromoLists : IsFiniteSet(items)
    /\ \A line \in UNION PromoLists :
           /\ line.of \in PromoGoods /\ line.quantity \in Nat \ {0}
           /\ line.discount \in {"NONE", "PERCENTAGE", "FIXED_AMOUNT"} /\ line.value \in Nat

VARIABLES
    promotion,      \* the row, with its items
    unitPrice,      \* priceCents of the goods
    reprices,
    openEvents,     \* the events that admit offers: neither over, cancelled nor postponed
    promoEdit,      \* what an edit is about to write, and the row it read
    crossed,        \* the promotion changed between the reading and the writing of an edit
    itemsLeft,      \* the event was changed by an edit that left the items
    promoOrder      \* a purchase of the promotion

promoVars == <<promotion, unitPrice, reprices, openEvents, promoEdit, crossed, itemsLeft, promoOrder>>

PromotionStatuses  == {"NONE", "ACTIVE", "INACTIVE", "DELETED"}
PromoOrderStatuses == {"none", "pending", "approved", "served"}

NoPromotion == [status |-> "NONE", event |-> NoPromoEvent, manual |-> FALSE,
                base |-> 0, final |-> 0, over |-> FALSE, items |-> {}]
NoPromoEdit == [op |-> "idle", saw |-> NoPromotion, new |-> NoPromotion]

OnFile == promotion.status \in {"ACTIVE", "INACTIVE"}

PromoInit ==
    /\ promotion = NoPromotion
    /\ unitPrice = [g \in PromoGoods |-> Max(PriceSteps[g])] /\ reprices = 0
    /\ openEvents = PromoEvents
    /\ promoEdit = [e \in PromoEditors |-> NoPromoEdit]
    /\ crossed = FALSE /\ itemsLeft = FALSE
    /\ promoOrder = [o \in PromoOrders |-> "none"]

-----------------------------------------------------------------------------
(* Prices.                                                                 *)

\* Math.round(cents * percent / 100): halves go up.
PercentOf(cents, percent) == (2 * cents * percent + 100) \div 200

\* Bug: a discount larger than the price is not stopped at zero.
DiscountedBelow(line, cents) ==
    CASE line.discount = "PERCENTAGE" -> cents - PercentOf(cents, line.value)
      [] line.discount = "FIXED_AMOUNT" -> cents - line.value
      [] OTHER -> cents

\* resolveLineItem: the price of one unit after its discount.
Discounted(line, cents) ==
    CASE line.discount = "PERCENTAGE" -> Max({cents - PercentOf(cents, line.value), 0})
      [] line.discount = "FIXED_AMOUNT" -> Max({cents - line.value, 0})
      [] OTHER -> cents

\* resolveItems keeps the price that the good has now.
ItemOf(line) ==
    [of |-> line.of, base |-> unitPrice[line.of] * line.quantity,
     final |-> Discounted(line, unitPrice[line.of]) * line.quantity]

\* resolveItems: a ticket type must be of the event of the promotion, or of none.
Resolvable(lines, event) ==
    \A line \in lines : line.of \in PromoTickets => EventOfGood[line.of] = event

SumOf(items, Part(_)) == MapThenSumSet(Part, items)
BaseOf(items)  == SumOf(items, LAMBDA item : item.base)
FinalOf(items) == SumOf(items, LAMBDA item : item.final)

\* resolvePromotionTotals: the totals of a row, with the manual price it is given.
Totalled(row, price) ==
    [row EXCEPT !.base = BaseOf(row.items),
                !.final = IF row.manual THEN price ELSE FinalOf(row.items)]

-----------------------------------------------------------------------------
(* The service.                                                            *)

CreatePromotion(event, lines, manual, price) ==
    /\ promotion.status = "NONE" /\ lines # {}
    /\ event \in openEvents \cup {NoPromoEvent} /\ Resolvable(lines, event)
    /\ promotion' = Totalled([NoPromotion EXCEPT !.status = "ACTIVE", !.event = event,
                                  !.manual = manual, !.items = {ItemOf(l) : l \in lines}], price)
    /\ UNCHANGED <<unitPrice, reprices, openEvents, promoEdit, crossed, itemsLeft, promoOrder>>

\* updatePromotion up to its transaction.  No lines mean that the items are left
\* alone; a manual price that is not given is the price the row has.  A changed
\* event or end must leave the end in the future.
BeginUpdate(e, event, lines, manual, price, renew) ==
    LET saw == promotion
        items == IF lines = {} THEN saw.items ELSE {ItemOf(l) : l \in lines} IN
    /\ promoEdit[e].op = "idle" /\ OnFile
    /\ renew => saw.over
    /\ event # saw.event => event \in openEvents \cup {NoPromoEvent} /\ (saw.over => renew)
    /\ Resolvable(lines, event)
    /\ promoEdit' = [promoEdit EXCEPT ![e] =
           [op |-> IF lines = {} THEN "edit" ELSE "replace", saw |-> saw,
            new |-> Totalled([saw EXCEPT !.event = event, !.manual = manual, !.items = items,
                                         !.over = IF renew THEN FALSE ELSE @],
                             IF price \in ManualPrices THEN price ELSE saw.final)]]
    /\ UNCHANGED <<promotion, unitPrice, reprices, openEvents, crossed, itemsLeft, promoOrder>>

\* promotionCanChangeStatus.
MayChangeStatus(row) == ~row.over /\ (row.event # NoPromoEvent => row.event \in openEvents)

BeginStatus(e, status) ==
    /\ promoEdit[e].op = "idle" /\ OnFile /\ MayChangeStatus(promotion)
    /\ promoEdit' = [promoEdit EXCEPT ![e] =
           [op |-> "status", saw |-> promotion,
            new |-> [promotion EXCEPT !.status = status]]]
    /\ UNCHANGED <<promotion, unitPrice, reprices, openEvents, crossed, itemsLeft, promoOrder>>

\* Bug: an edit that leaves the items writes no totals.
ColumnsWritten(row, edit) ==
    IF edit.op = "status" THEN [row EXCEPT !.status = edit.new.status]
    ELSE IF edit.op = "replace" THEN [edit.new EXCEPT !.status = row.status]
    ELSE [row EXCEPT !.event = edit.new.event, !.manual = edit.new.manual]

\* What an edit writes over the row: the totals it computed and the columns it
\* names; the items are replaced or left as they are by then.
Written(row, edit) ==
    IF edit.op = "status" THEN [row EXCEPT !.status = edit.new.status]
    ELSE [row EXCEPT !.event  = IF edit.new.event # edit.saw.event THEN edit.new.event ELSE @,
                     !.manual = edit.new.manual, !.base = edit.new.base, !.final = edit.new.final,
                     !.over   = IF edit.saw.over /\ ~edit.new.over THEN FALSE ELSE @,
                     !.items  = IF edit.op = "replace" THEN edit.new.items ELSE @]

CommitPromoEdit(e) ==
    LET edit == promoEdit[e] IN
    /\ edit.op \notin {"idle", "made"}
    /\ promotion' = IF OnFile THEN Written(promotion, edit) ELSE promotion
    /\ crossed' = (crossed \/ edit.saw # promotion)
    /\ itemsLeft' = CASE edit.op = "replace" -> FALSE
                  [] edit.op = "edit" /\ edit.new.event # edit.saw.event -> TRUE
                  [] OTHER -> itemsLeft
    /\ promoEdit' = [promoEdit EXCEPT ![e] = [NoPromoEdit EXCEPT !.op = "made"]]
    /\ UNCHANGED <<unitPrice, reprices, openEvents, promoOrder>>

DeletePromotion ==
    /\ OnFile
    /\ promotion' = [promotion EXCEPT !.status = "DELETED", !.items = {}, !.base = 0, !.final = 0]
    /\ UNCHANGED <<unitPrice, reprices, openEvents, promoEdit, crossed, itemsLeft, promoOrder>>

-----------------------------------------------------------------------------
(* What goes on around it.                                                 *)

Reprice(g, cents) ==
    /\ reprices < MaxReprices /\ unitPrice[g] # cents
    /\ unitPrice' = [unitPrice EXCEPT ![g] = cents] /\ reprices' = reprices + 1
    /\ UNCHANGED <<promotion, openEvents, promoEdit, crossed, itemsLeft, promoOrder>>

\* The event ends, is cancelled or postponed.
CloseEvent(ev) ==
    /\ ev \in openEvents /\ openEvents' = openEvents \ {ev}
    /\ UNCHANGED <<promotion, unitPrice, reprices, promoEdit, crossed, itemsLeft, promoOrder>>

\* The promotion reaches its own end.
EndPromotion ==
    /\ OnFile /\ ~promotion.over /\ promotion' = [promotion EXCEPT !.over = TRUE]
    /\ UNCHANGED <<unitPrice, reprices, openEvents, promoEdit, crossed, itemsLeft, promoOrder>>

\* checkout of a promotion, in a transaction.
OrderPromotion(o) ==
    /\ promoOrder[o] = "none"
    /\ promotion.status = "ACTIVE" /\ ~promotion.over
    /\ promotion.event # NoPromoEvent => promotion.event \in openEvents
    /\ promoOrder' = [promoOrder EXCEPT ![o] = "pending"]
    /\ UNCHANGED <<promotion, unitPrice, reprices, openEvents, promoEdit, crossed, itemsLeft>>

\* The provider approves the payment: from now on it says so to whoever asks.
ApprovePayment(o) ==
    /\ promoOrder[o] = "pending" /\ promoOrder' = [promoOrder EXCEPT ![o] = "approved"]
    /\ UNCHANGED <<promotion, unitPrice, reprices, openEvents, promoEdit, crossed, itemsLeft>>

\* The transaction that books the payment and creates the rights.  Each right
\* references the promotion: without the row the transaction fails, is rolled
\* back, and is tried again when the payment is next read.
ServePromotion(o) ==
    /\ promoOrder[o] = "approved" /\ promotion.status # "DELETED"
    /\ promoOrder' = [promoOrder EXCEPT ![o] = "served"]
    /\ UNCHANGED <<promotion, unitPrice, reprices, openEvents, promoEdit, crossed, itemsLeft>>

PromoNext ==
    \/ \E event \in PromoEvents \cup {NoPromoEvent}, lines \in PromoLists \cup {{}}, manual \in BOOLEAN :
           \/ \E price \in ManualPrices : CreatePromotion(event, lines, manual, price)
           \/ \E e \in PromoEditors, price \in ManualPrices \cup {-1}, renew \in BOOLEAN :
                  BeginUpdate(e, event, lines, manual, price, renew)
    \/ \E e \in PromoEditors :
           \/ \E status \in {"ACTIVE", "INACTIVE"} : BeginStatus(e, status)
           \/ CommitPromoEdit(e)
    \/ DeletePromotion \/ EndPromotion
    \/ \E g \in PromoGoods : \E cents \in PriceSteps[g] : Reprice(g, cents)
    \/ \E ev \in PromoEvents : CloseEvent(ev)
    \/ \E o \in PromoOrders : OrderPromotion(o) \/ ApprovePayment(o) \/ ServePromotion(o)

PromoSpec == PromoInit /\ [][PromoNext]_promoVars

-----------------------------------------------------------------------------
(* Properties.                                                             *)

PromoTypeOK ==
    /\ promotion.status \in PromotionStatuses
    /\ promotion.event \in PromoEvents \cup {NoPromoEvent}
    /\ promoOrder \in [PromoOrders -> PromoOrderStatuses]
    /\ \A e \in PromoEditors : promoEdit[e].op \in {"idle", "edit", "replace", "status", "made"}

\* What is charged is what the lines say, unless two edits overlapped: an edit
\* without items writes totals computed from the items that it read.
TotalsAreTheLines == OnFile /\ ~crossed =>
    /\ promotion.base = BaseOf(promotion.items)
    /\ ~promotion.manual => promotion.final = FinalOf(promotion.items)

\* A calculated price is neither negative nor above the price without discounts,
\* however the edits overlapped.
CalculatedIsADiscount ==
    OnFile /\ ~promotion.manual => promotion.final \in 0..promotion.base

\* The entries of a promotion are for its event, unless an edit itemsLeft it to
\* another one and left its items, or edits overlapped.
EntriesAreOfTheEvent == OnFile /\ ~crossed /\ ~itemsLeft =>
    \A item \in promotion.items :
        item.of \in PromoTickets => EventOfGood[item.of] = promotion.event

PromoInv ==
    PromoTypeOK /\ TotalsAreTheLines /\ CalculatedIsADiscount /\ EntriesAreOfTheEvent
=============================================================================
