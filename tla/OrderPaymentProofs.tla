------------------------- MODULE OrderPaymentProofs -------------------------
(***************************************************************************)
(* What OrderPayment guarantees for every number of orders, customers and  *)
(* requests, every amount, fee, stock and behaviour of the provider, and   *)
(* that it implements the life of an order.                                *)
(***************************************************************************)
EXTENDS OrderPayment, SumTheorems

-----------------------------------------------------------------------------
(***************************************************************************)
(* OrderPayment                                                            *)
(***************************************************************************)
-----------------------------------------------------------------------------
(* The fee.                                                                *)

\* The share of a refunded amount is a number: it adds up in the ledger.
LEMMA FeeShareType == ASSUME NEW cents \in Int PROVE FeeShare(cents) \in Int
  BY ConstantsAssumption DEF FeeShare

\* Nothing refunded, no fee given back.
LEMMA FeeShareOfNothing == FeeShare(0) = 0
  <1>1. FeeShare(0) = Amount \div (2 * Amount)
    BY ConstantsAssumption DEF FeeShare
  <1>. QED BY <1>1, ConstantsAssumption

-----------------------------------------------------------------------------
(* Types.                                                                  *)

\* The events of the code, and the fields of those of the provider.
LEMMA EventTypes ==
  /\ ApprovedEvent \in Events
  /\ NewPayment \in Events
   /\ \A e \in Events : /\ e.outcome \in Outcomes /\ e.outcome # "NONE"
                        /\ e.refunded \in 0..Amount /\ e.rev \in 0..MaxRevision
  /\ \A p \in Events \cup {NoPayment} : p.outcome # "NONE" => p \in Events
  /\ \A to \in Outcomes, cents \in 0..Amount, rev \in 0..MaxRevision :
        [outcome |-> to, refunded |-> cents, rev |-> rev] \in Events
  BY ConstantsAssumption DEF Events, ApprovedEvent, NewPayment, NoPayment, Outcomes

\* The posting of a sale, and what is reversed of it, are postings.
LEMMA PostingsType ==
  ASSUME NEW l \in Postings, NEW key \in Events, NEW cents \in Int, NEW fee \in Int
  PROVE  /\ PostSale(l) \in Postings
         /\ ReverseAll(l) \in Postings
         /\ ReversePartial(l, key, cents, fee) \in Postings
  BY ConstantsAssumption DEF Postings, PostSale, ReverseAll, ReversePartial

\* Going on and being done leave the requests in their types.
LEMMA RequestType ==
  ASSUME RequestTypeOK, NEW h \in Handlers,
         Done(h) \/ \E next \in PCs : GoTo(h, next)
  PROVE  RequestTypeOK'
  <1>1. "idle" \in PCs /\ NoOrder \in Orders
    BY ConstantsAssumption DEF PCs, NoOrder
  <1>. QED BY <1>1, EventTypes, ConstantsAssumption DEF RequestTypeOK, GoTo, Done, requestVars

\* Every step keeps every variable in its type.
LEMMA NextType == TypeOK /\ [Next]_vars => TypeOK'
  <1>. SUFFICES ASSUME TypeOK, [Next]_vars PROVE TypeOK'
    OBVIOUS
  <1>. USE ConstantsAssumption, EventTypes
       DEF TypeOK, RequestTypeOK, clubVars, moneyVars, windowVars, handlers, requestVars, GoTo, Done,
           NoOrder, PCs
  <1>1. ASSUME NEW u \in Users, NEW r \in Resources, NEW q \in 0..MaxQty,
               SetCartItem(u, r, q) PROVE TypeOK'
    BY <1>1 DEF SetCartItem, Quantities
  <1>2. ASSUME NEW h \in Handlers, NEW o \in Orders, Checkout(h, o) PROVE TypeOK'
    BY <1>2 DEF Checkout, Quantities, OrderStatuses, AttemptStatuses,
                         ReservationStatuses
  <1>3. ASSUME NEW h \in Handlers, NEW o \in Orders, ReceiveEvent(h, o) PROVE TypeOK'
    BY <1>3 DEF ReceiveEvent
  <1>4. ASSUME NEW h \in Handlers, CreatePayment(h) PROVE TypeOK'
    BY <1>4 DEF CreatePayment
  <1>5. ASSUME NEW h \in Handlers, PaymentCreationFails(h) PROVE TypeOK'
    BY <1>5 DEF PaymentCreationFails
  <1>6. ASSUME NEW h \in Handlers, ReadAttempt(h) PROVE TypeOK'
    BY <1>6 DEF ReadAttempt
  <1>7. ASSUME NEW h \in Handlers, RecordEvent(h) PROVE TypeOK'
    <2>1. CASE Done(h)
      BY <1>7, <2>1 DEF RecordEvent
    <2>2. CASE GoTo(h, "apply")
      BY <1>7, <2>2 DEF RecordEvent
    <2>. QED BY <1>7, <2>1, <2>2 DEF RecordEvent
  <1>8. ASSUME NEW h \in Handlers, IgnorePending(h) PROVE TypeOK'
    BY <1>8 DEF IgnorePending
  <1>9. ASSUME NEW h \in Handlers, MarkAttemptRefundPending(h) PROVE TypeOK'
    BY <1>9 DEF MarkAttemptRefundPending, AttemptStatuses
  <1>10. ASSUME NEW h \in Handlers, MarkOrderRefundPending(h) PROVE TypeOK'
    BY <1>10 DEF MarkOrderRefundPending, OrderStatuses
  <1>11. ASSUME NEW h \in Handlers, IgnorePartialRefund(h) PROVE TypeOK'
    BY <1>11 DEF IgnorePartialRefund
  <1>12. ASSUME NEW h \in Handlers, PartialRefund(h) PROVE TypeOK'
    <2>. DEFINE o == order[h]
                e == news[h]
                cents == e.refunded - refunded[o]
                fee == FeeShare(e.refunded) - FeeShare(refunded[o])
                after == ReversePartial(ledger[o], e, cents, fee)
    <2>1. o \in Orders /\ e \in Events /\ ledger[o] \in Postings /\ e.refunded \in 0..Amount
      OBVIOUS
    <2>2. cents \in Int /\ fee \in Int
      <3>1. e.refunded \in Int /\ refunded[o] \in Int
        BY <2>1
      <3>. QED BY <3>1, FeeShareType
    <2>. HIDE DEF cents, fee
    <2>3. after \in Postings
      BY <2>1, <2>2, PostingsType
    <2>4. CASE UNCHANGED moneyVars
      BY <1>12, <2>4 DEF PartialRefund
    <2>5. CASE /\ ledger' = [ledger EXCEPT ![o] = after]
               /\ attempt' = [attempt EXCEPT ![o] = "PARTIALLY_REFUNDED"]
               /\ refunded' = [refunded EXCEPT ![o] = e.refunded]
               /\ orderStatus' = [orderStatus EXCEPT ![o] = "PARTIALLY_REFUNDED"]
      <3>. HIDE DEF after
      <3>1. ledger' \in [Orders -> Postings]
        BY <2>1, <2>3, <2>5
      <3>. QED BY <1>12, <2>1, <2>5, <3>1 DEF PartialRefund, AttemptStatuses, OrderStatuses
    <2>. QED BY <1>12, <2>4, <2>5 DEF PartialRefund, RefundedSoFar, FeeBetween, cents, fee
  <1>13. ASSUME NEW h \in Handlers, FullRefund(h) PROVE TypeOK'
    <2>. DEFINE o == order[h]
                e == news[h]
                remaining == Amount - refunded[o]
                fee == Fee - FeeShare(refunded[o])
                after == IF refunded[o] > 0 THEN ReversePartial(ledger[o], e, remaining, fee)
                         ELSE ReverseAll(ledger[o])
                left == [r \in Resources |-> Revoked(rights[o][r])]
    <2>1. o \in Orders /\ e \in Events /\ ledger[o] \in Postings
      OBVIOUS
    <2>2. remaining \in Int /\ fee \in Int
      <3>1. refunded[o] \in Int /\ Fee \in Int /\ Amount \in Int
        BY <2>1
      <3>. QED BY <3>1, FeeShareType
    <2>. HIDE DEF remaining, fee
    <2>3. after \in Postings
      BY <2>1, <2>2, PostingsType
    <2>4. left \in [Resources -> {"NONE", "AVAILABLE", "CANCELLED"}]
      BY <2>1 DEF Revoked
    <2>5. CASE UNCHANGED <<moneyVars, rights, reward>>
      BY <1>13, <2>5 DEF FullRefund
    <2>6. CASE /\ ledger' = [ledger EXCEPT ![o] = after]
               /\ attempt' = [attempt EXCEPT ![o] = e.outcome]
               /\ refunded' = [refunded EXCEPT ![o] = Amount]
               /\ orderStatus' = [orderStatus EXCEPT ![o] = e.outcome]
               /\ reward' = [reward EXCEPT ![o] = ReverseReward(@)]
               /\ rights' = [rights EXCEPT ![o] = left]
      <3>. HIDE DEF after, left
      <3>1. ledger' \in [Orders -> Postings]
        BY <2>1, <2>3, <2>6
      <3>2. rights' \in [Orders -> [Resources -> {"NONE", "AVAILABLE", "CANCELLED"}]]
        BY <2>1, <2>4, <2>6
      <3>3. e.outcome \in {"REFUNDED", "CHARGEBACK"}
        BY <1>13 DEF FullRefund, Applying
      <3>. QED BY <1>13, <2>1, <2>6, <3>1, <3>2, <3>3
               DEF FullRefund, ReverseReward, AttemptStatuses, OrderStatuses
    <2>. QED BY <1>13, <2>5, <2>6 DEF FullRefund, remaining, fee
  <1>14. ASSUME NEW h \in Handlers, RefundThrows(h) PROVE TypeOK'
    BY <1>14 DEF RefundThrows
  <1>15. ASSUME NEW h \in Handlers, SettleNothing(h) PROVE TypeOK'
    BY <1>15 DEF SettleNothing
  <1>16. ASSUME NEW h \in Handlers, RejectOrder(h) PROVE TypeOK'
    BY <1>16 DEF RejectOrder, StatusAfter, Applying, Rejections, AttemptStatuses,
                         OrderStatuses, ReservationStatuses
  <1>17. ASSUME NEW h \in Handlers, BeginApproval(h) PROVE TypeOK'
    BY <1>17 DEF BeginApproval
  <1>18. ASSUME NEW h \in Handlers, CommitApproval(h) PROVE TypeOK'
    <2>1. order[h] \in Orders /\ Buyer[order[h]] \in Users
      OBVIOUS
    <2>2. ledger' \in [Orders -> Postings]
      BY <1>18, <2>1, PostingsType DEF CommitApproval
    <2>3. cart' \in [Users -> Quantities]
      BY <1>18, <2>1 DEF CommitApproval, WithoutLines, Quantities
    <2>4. sold' \in [Inventory -> Nat]
      BY <1>18, <2>1 DEF CommitApproval, Quantities, Resources
    <2>. DEFINE made == [r \in Resources |-> RightOf(order[h], r)]
    <2>5. made \in [Resources -> {"NONE", "AVAILABLE", "CANCELLED"}]
      BY <2>1 DEF RightOf
    <2>6. rights' = rights \/ rights' = [rights EXCEPT ![order[h]] = made]
      BY <1>18 DEF CommitApproval
    <2>. HIDE DEF made
    <2>7. rights' \in [Orders -> [Resources -> {"NONE", "AVAILABLE", "CANCELLED"}]]
      BY <2>1, <2>5, <2>6
    <2>8. /\ orderStatus' \in [Orders -> OrderStatuses]
          /\ reservation' \in [Orders -> ReservationStatuses]
          /\ issued' \in [Orders -> Nat]
          /\ review' \in [Orders -> BOOLEAN]
          /\ reward' \in [Orders -> {"NONE", "GRANTED", "REVERSED"}]
      <3>1. CASE Confirms(order[h], paidAt[h])
        <4>1. /\ orderStatus' = [orderStatus EXCEPT ![order[h]] = "PAID"]
              /\ reservation' = [reservation EXCEPT ![order[h]] =
                                    IF HasInventory(items[order[h]]) THEN "CONFIRMED" ELSE @]
              /\ reward' = [reward EXCEPT ![order[h]] =
                               IF Buyer[order[h]] \in Referred /\ @ = "NONE"
                               THEN "GRANTED" ELSE @]
              /\ issued' = [issued EXCEPT ![order[h]] = @ + 1]
              /\ UNCHANGED review
          BY <1>18, <3>1 DEF CommitApproval
        <4>. QED BY <2>1, <4>1 DEF OrderStatuses, ReservationStatuses
      <3>2. CASE ~ Confirms(order[h], paidAt[h])
        BY <1>18, <2>1, <3>2 DEF CommitApproval, OrderStatuses, ReservationStatuses
      <3>. QED BY <3>1, <3>2
    <2>9. RequestTypeOK'
      BY <1>18 DEF CommitApproval
    <2>10. attempt' \in [Orders -> AttemptStatuses]
      BY <1>18 DEF CommitApproval, AttemptStatuses
    <2>11. UNCHANGED <<now, items, event, refunded, expiresAt, payment, finished, crashes>>
      BY <1>18 DEF CommitApproval
    <2>. QED BY <2>2, <2>3, <2>4, <2>7, <2>8, <2>9, <2>10, <2>11
  <1>19. ASSUME NEW h \in Handlers, FinishEvent(h) PROVE TypeOK'
    BY <1>19 DEF FinishEvent
  <1>20. ASSUME NEW o \in Orders, NEW to \in Outcomes, NEW cents \in 0..Amount,
               ProviderUpdate(o, to, cents) PROVE TypeOK'
    <2>. DEFINE update == [outcome |-> to, refunded |-> cents, rev |-> payment[o].rev]
    <2>1. update \in Events
      <3>1. payment[o].rev \in 0..MaxRevision
        BY DEF NoPayment
      <3>. QED BY <3>1
    <2>2. payment' = [payment EXCEPT ![o] = update]
      BY <1>20 DEF ProviderUpdate
    <2>. HIDE DEF update
    <2>. QED BY <1>20, <2>1, <2>2 DEF ProviderUpdate
  <1>21. ASSUME NEW o \in Orders, ProviderTouch(o) PROVE TypeOK'
    <2>. DEFINE touched == [outcome |-> payment[o].outcome, refunded |-> payment[o].refunded,
                            rev |-> payment[o].rev + 1]
    <2>1. touched \in Events
      <3>1. payment[o] \in Events /\ payment[o].rev < MaxRevision
        BY <1>21 DEF ProviderTouch
      <3>2. payment[o].rev + 1 \in 0..MaxRevision
        BY <3>1
      <3>. QED BY <3>1, <3>2
    <2>2. payment' = [payment EXCEPT ![o] = touched]
      BY <1>21 DEF ProviderTouch
    <2>. HIDE DEF touched
    <2>. QED BY <1>21, <2>1, <2>2 DEF ProviderTouch
  <1>22. ASSUME NEW o \in Orders, ExpireOrder(o) PROVE TypeOK'
    BY <1>22 DEF ExpireOrder, Due, AttemptStatuses, OrderStatuses, ReservationStatuses
  <1>23. ASSUME CancelEvent PROVE TypeOK'
    BY <1>23 DEF CancelEvent, Revoked
  <1>24. ASSUME Tick PROVE TypeOK'
    BY <1>24 DEF Tick
  <1>25. ASSUME NEW h \in Handlers, Crash(h) PROVE TypeOK'
    BY <1>25 DEF Crash
  <1>26. CASE UNCHANGED vars
    BY <1>26 DEF vars
  <1>. QED BY <1>1, <1>2, <1>3, <1>4, <1>5, <1>6, <1>7, <1>8, <1>9, <1>10, <1>11, <1>12, <1>13,
              <1>14, <1>15, <1>16, <1>17, <1>18, <1>19, <1>20, <1>21, <1>22, <1>23, <1>24, <1>25, <1>26 DEF Next, HandlerStep

\* The initial state has its type.
LEMMA InitTypeOK == Init => TypeOK
  <1>. SUFFICES ASSUME Init PROVE TypeOK
    OBVIOUS
  <1>1. NoOrder \in Orders
    BY ConstantsAssumption DEF NoOrder
  <1>2. [sale |-> FALSE, returned |-> 0, fee |-> 0, keys |-> {}] \in Postings
    BY DEF Postings
  <1>3. ledger \in [Orders -> Postings]
    BY <1>2 DEF Init
  <1>4. RequestTypeOK
    BY <1>1, EventTypes, ConstantsAssumption DEF Init, RequestTypeOK, PCs
  <1>5. rights \in [Orders -> [Resources -> {"NONE", "AVAILABLE", "CANCELLED"}]]
    BY DEF Init
  <1>6. cart \in [Users -> Quantities] /\ items \in [Orders -> Quantities]
    BY ConstantsAssumption DEF Init, Quantities
  <1>7. payment \in [Orders -> Events \cup {NoPayment}]
    BY DEF Init
  <1>8. /\ orderStatus \in [Orders -> OrderStatuses]
        /\ attempt \in [Orders -> AttemptStatuses]
        /\ reservation \in [Orders -> ReservationStatuses]
    BY DEF Init, OrderStatuses, AttemptStatuses, ReservationStatuses
  <1>9. refunded \in [Orders -> 0..Amount] /\ crashes \in 0..MaxCrashes /\ now \in Nat
    BY ConstantsAssumption DEF Init
  <1>. QED BY <1>3, <1>4, <1>5, <1>6, <1>7, <1>8, <1>9 DEF Init, TypeOK

\* Every variable keeps its type.
THEOREM TypeCorrect == Spec => []TypeOK
  BY InitTypeOK, NextType, PTL DEF Spec

-----------------------------------------------------------------------------
(* Safety: OrderInv is kept by every step.                                 *)

orderVars == <<items, orderStatus, attempt, reservation, refunded, ledger, rights, issued,
               review, reward, event, sold>>

\* A step that leaves the orders alone leaves what is known of them alone.
LEMMA OrderFrame == ASSUME OrderInv, UNCHANGED orderVars PROVE OrderInv'
  <1>. USE DEF orderVars
  <1>1. NeverOversold' /\ RightsAreBacked' /\ ServedOrReviewed' /\ RewardFollowsOrder'
    BY DEF OrderInv, NeverOversold, RightsAreBacked, ServedOrReviewed, RewardFollowsOrder, Paid,
           Returned, HasInventory
  <1>2. LedgerAgrees' /\ StatusesAgree' /\ UnpaidIsUntouched'
    BY DEF OrderInv, LedgerAgrees, StatusesAgree, UnpaidIsUntouched, Paid, Returned
  <1>3. KeysArePast' /\ LapsedHoldsNothing'
    BY DEF OrderInv, KeysArePast, LapsedHoldsNothing, Returned
  <1>. QED BY <1>1, <1>2, <1>3 DEF OrderInv

\* A checkout opens an order that did not exist.
LEMMA OrderCheckout ==
  ASSUME TypeOK, OrderInv, NEW h \in Handlers, NEW o \in Orders, Checkout(h, o)
  PROVE  OrderInv'
  <1>. USE DEF TypeOK, OrderInv
  <1>1. /\ attempt[o] = "NONE" /\ ~ Paid(o) /\ ~ Returned(o)
        /\ attempt' = [attempt EXCEPT ![o] = "PENDING"]
        /\ orderStatus' = [orderStatus EXCEPT ![o] = "PENDING"]
        /\ \A p \in Orders : p # o => items'[p] = items[p] /\ reservation'[p] = reservation[p]
        /\ reservation'[o] # "CONFIRMED"
        /\ UNCHANGED <<refunded, ledger, rights, issued, review, reward, event, sold>>
    <2>1. attempt[o] = "NONE"
      BY DEF Checkout, StatusesAgree, AttemptStatuses, Paid, Refundable
    <2>. QED BY <2>1 DEF Checkout, UnpaidIsUntouched, Paid, Returned, Refundable
  <1>2. \A r \in Resources : rights[o][r] = "NONE"
    BY <1>1 DEF UnpaidIsUntouched
  <1>3. NeverOversold'
    BY <1>1 DEF NeverOversold
  <1>4. RightsAreBacked'
    BY <1>1, <1>2 DEF RightsAreBacked, Paid, HasInventory, Refundable
  <1>5. ServedOrReviewed' /\ LedgerAgrees' /\ RewardFollowsOrder'
    BY <1>1 DEF ServedOrReviewed, LedgerAgrees, RewardFollowsOrder, Paid, Returned, Refundable
  <1>6. StatusesAgree' /\ UnpaidIsUntouched'
    BY <1>1 DEF StatusesAgree, UnpaidIsUntouched, Paid, Returned, Refundable
  <1>7. KeysArePast' /\ LapsedHoldsNothing'
    BY <1>1 DEF KeysArePast, LapsedHoldsNothing, Paid, Returned, Refundable, Rejections
  <1>. QED BY <1>3, <1>4, <1>5, <1>6, <1>7

\* A refund under way changes two statuses, one after the other.
LEMMA OrderRefundPending ==
  ASSUME TypeOK, OrderInv, NEW h \in Handlers,
         MarkAttemptRefundPending(h) \/ MarkOrderRefundPending(h)
  PROVE  OrderInv'
  <1>. USE DEF TypeOK, OrderInv, RequestTypeOK
  <1>1. /\ \A p \in Orders :
              \/ attempt'[p] = attempt[p]
              \/ attempt[p] = "APPROVED" /\ attempt'[p] = "REFUND_PENDING"
        /\ \A p \in Orders :
              \/ orderStatus'[p] = orderStatus[p]
              \/ /\ orderStatus[p] \in {"PAID", "PARTIALLY_REFUNDED"}
                 /\ orderStatus'[p] = "REFUND_PENDING"
        /\ UNCHANGED <<items, reservation, refunded, ledger, rights, issued, review, reward,
                       event, sold>>
    <2>1. order[h] \in Orders /\ attempt \in [Orders -> AttemptStatuses]
          /\ orderStatus \in [Orders -> OrderStatuses]
      OBVIOUS
    <2>. HIDE DEF TypeOK, RequestTypeOK, OrderInv
    <2>2. CASE MarkAttemptRefundPending(h)
      BY <2>1, <2>2 DEF MarkAttemptRefundPending, clubVars, windowVars
    <2>3. CASE MarkOrderRefundPending(h)
      BY <2>1, <2>3 DEF MarkOrderRefundPending, clubVars, windowVars
    <2>. QED BY <2>2, <2>3
  <1>2. \A p \in Orders : (Paid(p)' <=> Paid(p)) /\ (Returned(p)' <=> Returned(p))
    BY <1>1 DEF Paid, Returned, Refundable
  <1>. HIDE DEF TypeOK, RequestTypeOK
  <1>3. NeverOversold' /\ RightsAreBacked' /\ ServedOrReviewed' /\ LedgerAgrees'
    BY <1>1, <1>2 DEF NeverOversold, RightsAreBacked, ServedOrReviewed, LedgerAgrees, HasInventory
  <1>4. RewardFollowsOrder' /\ UnpaidIsUntouched' /\ KeysArePast'
    BY <1>1, <1>2 DEF RewardFollowsOrder, UnpaidIsUntouched, KeysArePast
  <1>5. StatusesAgree'
    BY <1>1 DEF StatusesAgree, Paid, Refundable
  <1>6. LapsedHoldsNothing'
    BY <1>1 DEF LapsedHoldsNothing, Rejections
  <1>. QED BY <1>3, <1>4, <1>5, <1>6

\* An order that is refused, or whose time is over, was never paid.
LEMMA OrderCloses ==
  ASSUME TypeOK, OrderInv, NEW o \in Orders, NEW end \in Rejections,
         attempt[o] = "PENDING",
         attempt' = [attempt EXCEPT ![o] = end],
         orderStatus' = [orderStatus EXCEPT ![o] = IF end = "REJECTED" THEN "FAILED" ELSE end],
         reservation' \in [Orders -> ReservationStatuses],
         \A p \in Orders : p # o => reservation'[p] = reservation[p],
         reservation'[o] # "ACTIVE", reservation'[o] = "CONFIRMED" => reservation[o] = "CONFIRMED",
         UNCHANGED <<items, refunded, ledger, rights, issued, review, reward, event, sold>>
  PROVE  OrderInv'
  <1>. USE DEF TypeOK, OrderInv
  <1>1. /\ \A p \in Orders : (Paid(p)' <=> Paid(p)) /\ (Returned(p)' <=> Returned(p))
        /\ ~ Paid(o) /\ ~ Returned(o)
    BY DEF Paid, Returned, Refundable, Rejections
  <1>2. NeverOversold' /\ ServedOrReviewed' /\ LedgerAgrees'
    BY <1>1 DEF NeverOversold, ServedOrReviewed, LedgerAgrees
  <1>3. RightsAreBacked'
    BY <1>1 DEF RightsAreBacked, HasInventory
  <1>4. RewardFollowsOrder' /\ UnpaidIsUntouched' /\ KeysArePast'
    BY <1>1 DEF RewardFollowsOrder, UnpaidIsUntouched, KeysArePast
  <1>5. StatusesAgree'
    BY <1>1 DEF StatusesAgree, Rejections, UnpaidIsUntouched
  <1>6. LapsedHoldsNothing'
    BY DEF LapsedHoldsNothing
  <1>. QED BY <1>2, <1>3, <1>4, <1>5, <1>6

\* A refusal by the provider (RejectOrder) closes the order as it was: unpaid.
LEMMA OrderReject ==
  ASSUME TypeOK, OrderInv, NEW h \in Handlers, RejectOrder(h) PROVE OrderInv'
  <1>. DEFINE o == order[h]
              outcome == news[h].outcome
  <1>1. o \in Orders
    BY DEF TypeOK, RequestTypeOK
  <1>2. outcome \in Rejections /\ attempt[o] = "PENDING"
    BY DEF RejectOrder, StatusAfter, Applying, Settles, Rejections
  <1>3. /\ reservation' \in [Orders -> ReservationStatuses]
        /\ \A p \in Orders : p # o => reservation'[p] = reservation[p]
        /\ reservation'[o] # "ACTIVE"
        /\ reservation'[o] = "CONFIRMED" => reservation[o] = "CONFIRMED"
    BY <1>1 DEF RejectOrder, StatusAfter, TypeOK, ReservationStatuses
  <1>4. /\ attempt' = [attempt EXCEPT ![o] = outcome]
        /\ orderStatus' = [orderStatus EXCEPT ![o] =
                              IF outcome = "REJECTED" THEN "FAILED" ELSE outcome]
        /\ UNCHANGED <<items, refunded, ledger, rights, issued, review, reward, event, sold>>
    BY DEF RejectOrder, StatusAfter, clubVars
  <1>. HIDE DEF o, outcome
  <1>. QED BY <1>1, <1>2, <1>3, <1>4, OrderCloses

\* So does the timer that lapses it (expirePendingOrders).
LEMMA OrderExpires ==
  ASSUME TypeOK, OrderInv, NEW o \in Orders, ExpireOrder(o) PROVE OrderInv'
  <1>1. "EXPIRED" \in Rejections /\ attempt[o] = "PENDING" /\ orderStatus[o] = "PENDING"
    BY DEF ExpireOrder, Due, Rejections, OrderInv, StatusesAgree
  <1>2. /\ reservation' \in [Orders -> ReservationStatuses]
        /\ \A p \in Orders : p # o => reservation'[p] = reservation[p]
        /\ reservation'[o] # "ACTIVE"
        /\ reservation'[o] = "CONFIRMED" => reservation[o] = "CONFIRMED"
    BY DEF ExpireOrder, Due, TypeOK, ReservationStatuses
  <1>3. /\ attempt' = [attempt EXCEPT ![o] = "EXPIRED"]
        /\ orderStatus' = [orderStatus EXCEPT ![o] =
                              IF "EXPIRED" = "REJECTED" THEN "FAILED" ELSE "EXPIRED"]
        /\ UNCHANGED <<items, refunded, ledger, rights, issued, review, reward, event, sold>>
    BY <1>1 DEF ExpireOrder, Due, clubVars, TypeOK
  <1>. QED BY <1>1, <1>2, <1>3, OrderCloses

\* A refund of a part: the ledger and the attempt move by the same cents.
LEMMA OrderPartialRefund ==
  ASSUME TypeOK, OrderInv, NEW h \in Handlers, PartialRefund(h) PROVE OrderInv'
  <1>0. PICK o \in Orders : o = order[h]
    BY DEF TypeOK, RequestTypeOK
  <1>. DEFINE e == news[h]
              cents == e.refunded - refunded[o]
              fee == FeeShare(e.refunded) - FeeShare(refunded[o])
  <1>1. e \in Events /\ e.outcome = "PARTIALLY_REFUNDED"
    BY DEF TypeOK, RequestTypeOK, PartialRefund, Applying
  <1>2. /\ refunded[o] \in Int /\ ledger[o] \in Postings
        /\ e.refunded \in 0..Amount /\ Amount \in Nat /\ e.refunded < Amount
    BY <1>1, EventTypes, ConstantsAssumption DEF TypeOK, PartialRefund
  <1>3. FeeShare(e.refunded) \in Int /\ FeeShare(refunded[o]) \in Int
    BY <1>2, FeeShareType
  <1>4. UNCHANGED <<items, reservation, rights, issued, review, reward, event, sold>>
    BY DEF PartialRefund, clubVars, windowVars
  <1>5. CASE cents <= 0
    BY <1>0, <1>2, <1>4, <1>5, OrderFrame DEF PartialRefund, RefundedSoFar, moneyVars, orderVars
  <1>6. CASE cents > 0
    <2>1. /\ ledger[o].sale
          /\ ledger' = [ledger EXCEPT ![o] = ReversePartial(ledger[o], e, cents, fee)]
          /\ attempt' = [attempt EXCEPT ![o] = "PARTIALLY_REFUNDED"]
          /\ refunded' = [refunded EXCEPT ![o] = e.refunded]
          /\ orderStatus' = [orderStatus EXCEPT ![o] = "PARTIALLY_REFUNDED"]
      BY <1>0, <1>2, <1>6 DEF PartialRefund, RefundedSoFar, FeeBetween
    <2>2. refunded[o] # Amount /\ ~ Returned(o) /\ Paid(o) /\ e.refunded > refunded[o]
      BY <1>1, <1>2, <1>6, <2>1 DEF OrderInv, LedgerAgrees
    <2>3. e \notin ledger[o].keys
      BY <1>1, <1>2, <2>2 DEF OrderInv, KeysArePast
    <2>4. /\ ledger'[o].sale = ledger[o].sale
          /\ ledger'[o].returned = ledger[o].returned + cents
          /\ ledger'[o].fee = ledger[o].fee + fee
          /\ ledger'[o].keys = ledger[o].keys \cup {e}
      BY <1>1, <2>1, <2>3 DEF ReversePartial, TypeOK
    <2>5. \A p \in Orders : p # o => ledger'[p] = ledger[p] /\ refunded'[p] = refunded[p]
                                      /\ attempt'[p] = attempt[p]
      BY <2>1 DEF TypeOK
    <2>6. refunded'[o] = e.refunded /\ attempt'[o] = "PARTIALLY_REFUNDED"
      BY <1>1, <2>1 DEF TypeOK
    <2>7. \A p \in Orders : (Paid(p)' <=> Paid(p)) /\ (Returned(p)' <=> Returned(p))
      BY <1>1, <2>2, <2>5, <2>6 DEF Paid, Returned, Refundable
    <2>8. NeverOversold' /\ RightsAreBacked' /\ ServedOrReviewed' /\ RewardFollowsOrder'
      BY <1>1, <1>4, <2>2, <2>4, <2>5, <2>7
         DEF OrderInv, NeverOversold, RightsAreBacked, ServedOrReviewed, RewardFollowsOrder,
             HasInventory
    <2>9. LedgerAgrees'
      <3>1. ledger[o].returned = refunded[o] /\ ledger[o].fee = FeeShare(refunded[o])
        BY <1>1, <2>2 DEF OrderInv, LedgerAgrees
      <3>2. ledger'[o].returned = e.refunded /\ ledger'[o].fee = FeeShare(e.refunded)
        BY <1>2, <1>3, <2>4, <3>1
      <3>. SUFFICES ASSUME NEW p \in Orders
                    PROVE  /\ ledger'[p].sale <=> Paid(p)' \/ Returned(p)'
                           /\ ledger'[p].returned = refunded'[p]
                           /\ ledger'[p].fee = IF Returned(p)' THEN Fee
                                               ELSE FeeShare(refunded'[p])
                           /\ refunded'[p] = Amount <=> Returned(p)'
        BY DEF LedgerAgrees, FeeShare
      <3>3. CASE p = o
        <4>1. Paid(o)' /\ ~ Returned(o)' /\ ledger'[o].sale
          BY <2>1, <2>2, <2>4, <2>7
        <4>2. ledger'[o].returned = refunded'[o] /\ ledger'[o].fee = FeeShare(refunded'[o])
          BY <2>6, <3>2
        <4>3. refunded'[o] # Amount
          BY <1>2, <2>6
        <4>. QED BY <3>3, <4>1, <4>2, <4>3
      <3>4. CASE p # o
        BY <2>5, <2>7, <3>4 DEF OrderInv, LedgerAgrees
      <3>. QED BY <3>3, <3>4
    <2>10. UnpaidIsUntouched'
      BY <1>4, <2>2, <2>5, <2>7 DEF OrderInv, UnpaidIsUntouched
    <2>11. KeysArePast'
      <3>. SUFFICES ASSUME NEW p \in Orders, ~ Returned(p)', NEW k \in ledger'[p].keys
                    PROVE  k.outcome = "PARTIALLY_REFUNDED" /\ k.refunded <= refunded'[p]
        BY DEF KeysArePast
      <3>1. CASE p = o /\ k # e
        <4>1. k \in ledger[o].keys
          BY <2>4, <3>1
        <4>2. k.outcome = "PARTIALLY_REFUNDED" /\ k.refunded <= refunded[o] /\ k.refunded \in Int
          BY <1>2, <2>2, <4>1, EventTypes DEF OrderInv, KeysArePast, Postings
        <4>. QED BY <1>2, <2>2, <2>6, <3>1, <4>2
      <3>2. CASE p = o /\ k = e
        BY <1>1, <1>2, <2>6, <3>2
      <3>3. CASE p # o
        BY <2>5, <2>7, <3>3 DEF OrderInv, KeysArePast
      <3>. QED BY <3>1, <3>2, <3>3
    <2>12. StatusesAgree'
      <3>1. orderStatus'[o] = "PARTIALLY_REFUNDED"
            /\ \A p \in Orders : p # o => orderStatus'[p] = orderStatus[p]
        BY <1>1, <2>1 DEF TypeOK
      <3>. QED BY <1>1, <1>4, <2>5, <2>6, <2>7, <3>1 DEF OrderInv, StatusesAgree
    <2>13. LapsedHoldsNothing'
      BY <1>1, <1>4, <2>5, <2>6 DEF OrderInv, LapsedHoldsNothing, Rejections
    <2>. QED BY <2>8, <2>9, <2>10, <2>11, <2>12, <2>13 DEF OrderInv
  <1>. QED BY <1>2, <1>5, <1>6

\* A whole refund: what was left of the sale and of the fee is reversed, and
\* nothing that was issued is left.
LEMMA OrderFullRefund ==
  ASSUME TypeOK, OrderInv, NEW h \in Handlers, FullRefund(h) PROVE OrderInv'
  <1>0. PICK o \in Orders : o = order[h]
    BY DEF TypeOK, RequestTypeOK
  <1>. DEFINE e == news[h]
              remaining == Amount - refunded[o]
              fee == Fee - FeeShare(refunded[o])
  <1>1. e \in Events /\ e.outcome \in {"REFUNDED", "CHARGEBACK"}
    BY DEF TypeOK, RequestTypeOK, FullRefund, Applying
  <1>2. /\ refunded[o] \in 0..Amount /\ ledger[o] \in Postings
        /\ Amount \in Nat /\ Amount # 0 /\ Fee \in Int
    BY <1>1, ConstantsAssumption DEF TypeOK
  <1>3. FeeShare(refunded[o]) \in Int
    BY <1>2, FeeShareType
  <1>4. UNCHANGED <<items, reservation, issued, review, event, sold>>
    BY DEF FullRefund, windowVars
  <1>5. CASE attempt[o] = "REFUNDED"
    BY <1>0, <1>4, <1>5, OrderFrame DEF FullRefund, moneyVars, orderVars, Refundable
  <1>6. CASE attempt[o] \in Refundable
    <2>1. /\ ledger[o].sale
          /\ ledger' = [ledger EXCEPT ![o] =
                          IF refunded[o] > 0 THEN ReversePartial(ledger[o], e, remaining, fee)
                          ELSE ReverseAll(ledger[o])]
          /\ attempt' = [attempt EXCEPT ![o] = e.outcome]
          /\ refunded' = [refunded EXCEPT ![o] = Amount]
          /\ orderStatus' = [orderStatus EXCEPT ![o] = e.outcome]
          /\ reward' = [reward EXCEPT ![o] = ReverseReward(@)]
          /\ rights' = [rights EXCEPT ![o] = [r \in Resources |-> Revoked(rights[o][r])]]
      BY <1>0, <1>6 DEF FullRefund, Refundable
    <2>2. Paid(o) /\ ~ Returned(o)
      BY <1>6 DEF Paid, Returned, Refundable
    <2>3. e \notin ledger[o].keys
      BY <1>1, <2>2 DEF OrderInv, KeysArePast
    <2>4. /\ ledger'[o].sale
          /\ ledger'[o].returned = ledger[o].returned + remaining
          /\ ledger'[o].fee = ledger[o].fee + fee
      <3>1. CASE refunded[o] > 0
        BY <1>1, <2>1, <2>3, <3>1 DEF ReversePartial, TypeOK
      <3>2. CASE ~ (refunded[o] > 0)
        <4>1. refunded[o] = 0 /\ fee = Fee /\ remaining = Amount
          BY <1>2, <3>2, FeeShareOfNothing
        <4>. QED BY <1>1, <2>1, <3>2, <4>1 DEF ReverseAll, TypeOK
      <3>. QED BY <3>1, <3>2
     <2>5. /\ \A p \in Orders : p # o => /\ ledger'[p] = ledger[p] /\ refunded'[p] = refunded[p]
                                         /\ attempt'[p] = attempt[p] /\ rights'[p] = rights[p]
                                         /\ reward'[p] = reward[p]
                                         /\ orderStatus'[p] = orderStatus[p]
          /\ refunded'[o] = Amount /\ attempt'[o] = e.outcome /\ orderStatus'[o] = e.outcome
          /\ reward'[o] # "GRANTED"
      BY <1>1, <2>1 DEF TypeOK, ReverseReward
    <2>6. \A r \in Resources : rights'[o][r] # "AVAILABLE"
      BY <1>1, <2>1 DEF TypeOK, Revoked
    <2>7. /\ \A p \in Orders : p # o => (Paid(p)' <=> Paid(p)) /\ (Returned(p)' <=> Returned(p))
          /\ ~ Paid(o)' /\ Returned(o)'
      BY <1>1, <2>5 DEF Paid, Returned, Refundable
    <2>8. NeverOversold' /\ RightsAreBacked' /\ ServedOrReviewed'
      BY <1>1, <1>4, <2>1, <2>4, <2>5, <2>6, <2>7
         DEF OrderInv, NeverOversold, RightsAreBacked, ServedOrReviewed, HasInventory
    <2>9. LedgerAgrees'
      <3>1. ledger[o].returned = refunded[o] /\ ledger[o].fee = FeeShare(refunded[o])
        BY <1>1, <2>2 DEF OrderInv, LedgerAgrees
      <3>2. ledger'[o].returned = Amount /\ ledger'[o].fee = Fee
        BY <1>2, <1>3, <2>4, <3>1
      <3>. QED BY <1>1, <2>4, <2>5, <2>7, <3>2 DEF OrderInv, LedgerAgrees
    <2>10. RewardFollowsOrder'
      BY <1>1, <1>4, <2>5, <2>7 DEF OrderInv, RewardFollowsOrder
    <2>11. UnpaidIsUntouched' /\ KeysArePast'
      BY <1>4, <2>5, <2>7 DEF OrderInv, UnpaidIsUntouched, KeysArePast
    <2>12. StatusesAgree'
      BY <1>1, <1>4, <2>5, <2>7 DEF OrderInv, StatusesAgree
    <2>13. LapsedHoldsNothing'
      BY <1>1, <1>4, <2>5 DEF OrderInv, LapsedHoldsNothing, Rejections
    <2>. QED BY <2>8, <2>9, <2>10, <2>11, <2>12, <2>13 DEF OrderInv
  <1>. QED BY <1>0, <1>5, <1>6 DEF FullRefund

\* An approval: the sale, and either the resources or the review.
LEMMA OrderApproval ==
  ASSUME TypeOK, OrderInv, NEW h \in Handlers, CommitApproval(h), Settles(order[h], "APPROVED")
  PROVE  OrderInv'
  <1>0. PICK o \in Orders : o = order[h]
    BY DEF TypeOK, RequestTypeOK
  <1>1. /\ attempt[o] \in {"PENDING", "EXPIRED"} /\ ~ Paid(o) /\ ~ Returned(o)
        /\ items[o] \in Quantities /\ sold \in [Inventory -> Nat]
    BY <1>0 DEF TypeOK, RequestTypeOK, Settles, Paid, Returned, Refundable
  <1>2. /\ refunded[o] = 0 /\ ledger[o].keys = {} /\ issued[o] = 0 /\ ~ review[o]
        /\ reward[o] = "NONE" /\ reservation[o] # "CONFIRMED"
        /\ \A r \in Resources : rights[o][r] = "NONE"
        /\ ~ ledger[o].sale /\ ledger[o].returned = 0 /\ ledger[o].fee = FeeShare(0)
    BY <1>1 DEF OrderInv, UnpaidIsUntouched, LedgerAgrees
  <1>3. /\ attempt' = [attempt EXCEPT ![o] = "APPROVED"]
        /\ ledger' = [ledger EXCEPT ![o] = PostSale(ledger[o])]
        /\ UNCHANGED <<items, event, refunded>>
    BY <1>0 DEF CommitApproval
  <1>4. /\ \A p \in Orders : p # o => ledger'[p] = ledger[p] /\ attempt'[p] = attempt[p]
        /\ attempt'[o] = "APPROVED"
        /\ ledger'[o].sale /\ ledger'[o].returned = 0 /\ ledger'[o].fee = FeeShare(0)
        /\ ledger'[o].keys = {}
    BY <1>1, <1>2, <1>3 DEF TypeOK, PostSale
  <1>5. /\ \A p \in Orders : p # o => (Paid(p)' <=> Paid(p)) /\ (Returned(p)' <=> Returned(p))
        /\ Paid(o)' /\ ~ Returned(o)'
    BY <1>1, <1>4 DEF Paid, Returned, Refundable
  <1>6. LedgerAgrees' /\ KeysArePast'
    BY <1>1, <1>2, <1>3, <1>4, <1>5, ConstantsAssumption DEF OrderInv, LedgerAgrees, KeysArePast
  <1>7. CASE Confirms(o, paidAt[h])
    <2>1. /\ orderStatus' = [orderStatus EXCEPT ![o] = "PAID"]
          /\ reservation' = [reservation EXCEPT ![o] =
                                IF HasInventory(items[o]) THEN "CONFIRMED" ELSE @]
          /\ sold' = [r \in Inventory |-> sold[r] + items[o][r]]
          /\ reward' = [reward EXCEPT ![o] =
                           IF Buyer[o] \in Referred /\ @ = "NONE" THEN "GRANTED" ELSE @]
          /\ rights' = [rights EXCEPT ![o] = [r \in Resources |-> RightOf(o, r)]]
          /\ issued' = [issued EXCEPT ![o] = @ + 1]
          /\ UNCHANGED review
      BY <1>0, <1>7 DEF CommitApproval
    <2>2. /\ \A p \in Orders : p # o =>
                /\ orderStatus'[p] = orderStatus[p] /\ reservation'[p] = reservation[p]
                /\ reward'[p] = reward[p] /\ rights'[p] = rights[p] /\ issued'[p] = issued[p]
          /\ orderStatus'[o] = "PAID" /\ issued'[o] = 1
          /\ HasInventory(items[o]) => reservation'[o] = "CONFIRMED"
          /\ ~ HasInventory(items[o]) => reservation'[o] = reservation[o]
          /\ reward'[o] = IF Buyer[o] \in Referred THEN "GRANTED" ELSE "NONE"
      BY <1>1, <1>2, <2>1 DEF TypeOK
    <2>3. \A r \in Resources : rights'[o][r] = "AVAILABLE" /\ r \in EventBound => event # "CANCELLED"
      BY <1>1, <1>2, <2>1 DEF TypeOK, RightOf
    <2>4. NeverOversold'
      <3>1. ASSUME NEW r \in Inventory PROVE sold[r] + items[o][r] <= Stock[r]
        <4>1. items[o][r] \in Nat /\ sold[r] \in Nat /\ Stock[r] \in Nat /\ sold[r] <= Stock[r]
          BY <1>1, ConstantsAssumption DEF Quantities, Resources, OrderInv, NeverOversold
        <4>2. CASE items[o][r] > 0
          BY <1>7, <4>1, <4>2 DEF Confirms, HasInventory
        <4>3. CASE ~ (items[o][r] > 0)
          BY <4>1, <4>3
        <4>. QED BY <4>2, <4>3
      <3>. QED BY <2>1, <3>1 DEF NeverOversold
    <2>5. RightsAreBacked'
      BY <1>1, <1>3, <1>4, <1>5, <2>2, <2>3 DEF OrderInv, RightsAreBacked, HasInventory
    <2>6. ServedOrReviewed' /\ RewardFollowsOrder'
      BY <1>1, <1>2, <1>4, <1>5, <2>1, <2>2 DEF OrderInv, ServedOrReviewed, RewardFollowsOrder
    <2>7. StatusesAgree'
      BY <1>1, <1>2, <1>4, <1>5, <2>1, <2>2 DEF OrderInv, StatusesAgree
    <2>8. UnpaidIsUntouched' /\ LapsedHoldsNothing'
      BY <1>1, <1>3, <1>4, <1>5, <2>1, <2>2
         DEF OrderInv, UnpaidIsUntouched, LapsedHoldsNothing, Rejections
    <2>. QED BY <1>6, <2>4, <2>5, <2>6, <2>7, <2>8 DEF OrderInv
  <1>8. CASE ~ Confirms(o, paidAt[h])
    <2>1. /\ orderStatus' = [orderStatus EXCEPT ![o] = "REFUND_PENDING"]
          /\ review' = [review EXCEPT ![o] = TRUE]
          /\ UNCHANGED <<reservation, sold, reward, rights, issued>>
      BY <1>0, <1>8 DEF CommitApproval
    <2>2. /\ \A p \in Orders : p # o => orderStatus'[p] = orderStatus[p] /\ review'[p] = review[p]
          /\ orderStatus'[o] = "REFUND_PENDING" /\ review'[o]
      BY <1>1, <2>1 DEF TypeOK
    <2>3. NeverOversold' /\ RightsAreBacked'
      BY <1>1, <1>2, <1>3, <1>4, <1>5, <2>1
         DEF OrderInv, NeverOversold, RightsAreBacked, HasInventory
    <2>4. ServedOrReviewed' /\ RewardFollowsOrder'
      BY <1>1, <1>2, <1>4, <1>5, <2>1, <2>2 DEF OrderInv, ServedOrReviewed, RewardFollowsOrder
    <2>5. StatusesAgree'
      BY <1>1, <1>2, <1>4, <1>5, <2>1, <2>2 DEF OrderInv, StatusesAgree
    <2>6. UnpaidIsUntouched' /\ LapsedHoldsNothing'
      BY <1>1, <1>3, <1>4, <1>5, <2>1, <2>2
         DEF OrderInv, UnpaidIsUntouched, LapsedHoldsNothing, Rejections
    <2>. QED BY <1>6, <2>3, <2>4, <2>5, <2>6 DEF OrderInv
  <1>. QED BY <1>7, <1>8

\* The cancellation of the event only takes rights away.
LEMMA OrderCancelEvent ==
  ASSUME TypeOK, OrderInv, CancelEvent PROVE OrderInv'
  <1>1. /\ event' = "CANCELLED"
        /\ rights' = [o \in Orders |-> [r \in Resources |->
                         IF r \in EventBound THEN Revoked(rights[o][r]) ELSE rights[o][r]]]
        /\ UNCHANGED <<items, orderStatus, attempt, reservation, refunded, ledger, issued,
                       review, reward, sold>>
    BY DEF CancelEvent, moneyVars, windowVars
  <1>2. \A o \in Orders, r \in Resources :
           /\ rights'[o][r] = "AVAILABLE" => rights[o][r] = "AVAILABLE" /\ r \notin EventBound
           /\ rights[o][r] = "NONE" => rights'[o][r] = "NONE"
    BY <1>1 DEF Revoked
  <1>3. NeverOversold' /\ ServedOrReviewed' /\ LedgerAgrees' /\ StatusesAgree'
    BY <1>1 DEF OrderInv, NeverOversold, ServedOrReviewed, LedgerAgrees, StatusesAgree, Paid,
                Returned
  <1>4. RightsAreBacked'
    BY <1>1, <1>2 DEF OrderInv, RightsAreBacked, Paid, HasInventory
  <1>5. RewardFollowsOrder' /\ UnpaidIsUntouched' /\ KeysArePast' /\ LapsedHoldsNothing'
    BY <1>1, <1>2 DEF OrderInv, RewardFollowsOrder, UnpaidIsUntouched, KeysArePast,
                      LapsedHoldsNothing, Paid, Returned
  <1>. QED BY <1>3, <1>4, <1>5 DEF OrderInv

-----------------------------------------------------------------------------
(* Every step keeps OrderInv.                                              *)

\* The actions that change an order.
OrderAction ==
    \/ \E h \in Handlers, o \in Orders : Checkout(h, o)
    \/ \E h \in Handlers : \/ MarkAttemptRefundPending(h) \/ MarkOrderRefundPending(h)
                           \/ PartialRefund(h) \/ FullRefund(h)
                           \/ RejectOrder(h) \/ CommitApproval(h)
    \/ \E o \in Orders : ExpireOrder(o)
    \/ CancelEvent

\* No other action does.
LEMMA OtherActions == ASSUME [Next]_vars, ~ OrderAction PROVE UNCHANGED orderVars
  <1>. USE DEF orderVars, clubVars, moneyVars, windowVars
  <1>1. ASSUME NEW u \in Users, NEW r \in Resources, NEW q \in 0..MaxQty, SetCartItem(u, r, q)
        PROVE  UNCHANGED orderVars
    BY <1>1 DEF SetCartItem
  <1>2. ASSUME NEW h \in Handlers, NEW o \in Orders, ReceiveEvent(h, o)
        PROVE  UNCHANGED orderVars
    BY <1>2 DEF ReceiveEvent
  <1>3. ASSUME NEW h \in Handlers, HandlerStep(h) PROVE UNCHANGED orderVars
    <2>1. CASE CreatePayment(h) \/ PaymentCreationFails(h)
      BY <2>1 DEF CreatePayment, PaymentCreationFails
    <2>2. CASE ReadAttempt(h) \/ RecordEvent(h) \/ IgnorePending(h)
      BY <2>2 DEF ReadAttempt, RecordEvent, IgnorePending
    <2>3. CASE IgnorePartialRefund(h) \/ RefundThrows(h) \/ SettleNothing(h)
      BY <2>3 DEF IgnorePartialRefund, RefundThrows, SettleNothing
    <2>4. CASE BeginApproval(h) \/ FinishEvent(h)
      BY <2>4 DEF BeginApproval, FinishEvent
    <2>. QED BY <1>3, <2>1, <2>2, <2>3, <2>4 DEF HandlerStep, OrderAction
  <1>4. ASSUME NEW o \in Orders, NEW to \in Outcomes, NEW cents \in 0..Amount,
               ProviderUpdate(o, to, cents)
        PROVE  UNCHANGED orderVars
    BY <1>4 DEF ProviderUpdate
  <1>5. ASSUME NEW o \in Orders, ProviderTouch(o) PROVE UNCHANGED orderVars
    BY <1>5 DEF ProviderTouch
  <1>6. CASE Tick
    BY <1>6 DEF Tick
  <1>7. ASSUME NEW h \in Handlers, Crash(h) PROVE UNCHANGED orderVars
    BY <1>7 DEF Crash
  <1>8. CASE UNCHANGED vars
    BY <1>8 DEF vars
  <1>. HIDE DEF orderVars
  <1>. QED BY <1>1, <1>2, <1>3, <1>4, <1>5, <1>6, <1>7, <1>8 DEF Next, OrderAction

\* Every step keeps what is known of the orders.
LEMMA OrderStep ==
  ASSUME TypeOK, OrderInv, RequestInv, [Next]_vars PROVE OrderInv'
  <1>1. CASE OrderAction
    <2>1. ASSUME NEW h \in Handlers, NEW o \in Orders, Checkout(h, o) PROVE OrderInv'
      BY <2>1, OrderCheckout
    <2>2. ASSUME NEW h \in Handlers, MarkAttemptRefundPending(h) \/ MarkOrderRefundPending(h)
          PROVE  OrderInv'
      BY <2>2, OrderRefundPending
    <2>3. ASSUME NEW h \in Handlers, PartialRefund(h) PROVE OrderInv'
      BY <2>3, OrderPartialRefund
    <2>4. ASSUME NEW h \in Handlers, FullRefund(h) PROVE OrderInv'
      BY <2>4, OrderFullRefund
    <2>5. ASSUME NEW h \in Handlers, RejectOrder(h) PROVE OrderInv'
      BY <2>5, OrderReject
    <2>6. ASSUME NEW h \in Handlers, CommitApproval(h) PROVE OrderInv'
      <3>1. Settles(order[h], "APPROVED")
        BY <2>6 DEF CommitApproval, RequestInv, RequestOK
      <3>. QED BY <2>6, <3>1, OrderApproval
    <2>7. ASSUME NEW o \in Orders, ExpireOrder(o) PROVE OrderInv'
      BY <2>7, OrderExpires
    <2>8. CASE CancelEvent
      BY <2>8, OrderCancelEvent
    <2>. QED BY <1>1, <2>1, <2>2, <2>3, <2>4, <2>5, <2>6, <2>7, <2>8 DEF OrderAction
  <1>2. CASE ~ OrderAction
    BY <1>2, OtherActions, OrderFrame
  <1>. QED BY <1>1, <1>2

-----------------------------------------------------------------------------
(* What the requests rely on is kept too.                                  *)

\* How the attempt and the money of an order may change in one step: it is never
\* forgotten, nothing that was refunded or posted is taken back, and what was
\* refused, paid or returned stays so.
AttemptGrows(o) ==
    /\ attempt[o] # "NONE" => attempt'[o] # "NONE"
    /\ attempt[o] # "NONE" /\ attempt[o] # "PENDING" => attempt'[o] # "PENDING"
    /\ attempt[o] \in {"REJECTED", "CANCELLED"} => attempt'[o] = attempt[o]
    /\ refunded[o] <= refunded'[o]
    /\ ledger[o].sale => ledger'[o].sale
    /\ Returned(o) => Returned(o)'

\* What is refunded of an order never shrinks, a sale is posted for good and what
\* was refused, lapsed or returned does not come back unpaid.
LEMMA GrowStep ==
  ASSUME TypeOK, OrderInv, RequestInv, [Next]_vars, NEW o \in Orders
  PROVE  AttemptGrows(o)
  <1>. USE DEF AttemptGrows, Returned
  <1>. refunded[o] \in Int
    BY ConstantsAssumption DEF TypeOK
  <1>1. ASSUME NEW h \in Handlers, NEW p \in Orders, Checkout(h, p) PROVE AttemptGrows(o)
    <2>1. attempt[p] = "NONE"
      BY <1>1 DEF Checkout, OrderInv, StatusesAgree, TypeOK, AttemptStatuses, Paid, Refundable
    <2>. QED BY <1>1, <2>1 DEF Checkout, TypeOK
  <1>2. ASSUME NEW h \in Handlers, MarkAttemptRefundPending(h) PROVE AttemptGrows(o)
    BY <1>2 DEF MarkAttemptRefundPending, TypeOK
  <1>3. ASSUME NEW h \in Handlers, MarkOrderRefundPending(h) PROVE AttemptGrows(o)
    BY <1>3 DEF MarkOrderRefundPending
  <1>4. ASSUME NEW h \in Handlers, PartialRefund(h) PROVE AttemptGrows(o)
    <2>1. CASE UNCHANGED moneyVars
      BY <2>1 DEF moneyVars
    <2>2. CASE ~ UNCHANGED moneyVars
      <3>1. PICK p \in Orders : p = order[h]
        BY DEF TypeOK, RequestTypeOK
      <3>2. /\ news[h].refunded < Amount /\ news[h].refunded - refunded[p] > 0
            /\ ledger' = [ledger EXCEPT ![p] =
                             ReversePartial(ledger[p], news[h], news[h].refunded - refunded[p],
                                            FeeShare(news[h].refunded) - FeeShare(refunded[p]))]
            /\ attempt' = [attempt EXCEPT ![p] = "PARTIALLY_REFUNDED"]
            /\ refunded' = [refunded EXCEPT ![p] = news[h].refunded]
            /\ ledger[p].sale
        BY <1>4, <2>2, <3>1 DEF PartialRefund, RefundedSoFar, FeeBetween
      <3>3. news[h].refunded \in Int /\ refunded[p] \in Int /\ Amount \in Int
        BY EventTypes, ConstantsAssumption DEF TypeOK, RequestTypeOK
      <3>4. ~ Returned(p) /\ Paid(p)
        BY <3>2, <3>3 DEF OrderInv, LedgerAgrees
      <3>5. ledger'[p].sale /\ refunded[p] <= refunded'[p] /\ attempt'[p] = "PARTIALLY_REFUNDED"
        BY <3>2, <3>3 DEF ReversePartial, TypeOK
      <3>6. CASE o = p
        BY <3>4, <3>5, <3>6 DEF Paid, Refundable
      <3>7. CASE o # p
        BY <3>2, <3>7 DEF TypeOK
      <3>. QED BY <3>6, <3>7
    <2>. QED BY <2>1, <2>2
  <1>5. ASSUME NEW h \in Handlers, FullRefund(h) PROVE AttemptGrows(o)
    <2>1. CASE UNCHANGED moneyVars
      BY <2>1 DEF moneyVars
    <2>2. CASE ~ UNCHANGED moneyVars
      <3>1. PICK p \in Orders : p = order[h]
        BY DEF TypeOK, RequestTypeOK
      <3>2. /\ attempt[p] \in Refundable
            /\ \/ ledger' = [ledger EXCEPT ![p] =
                                ReversePartial(ledger[p], news[h], Amount - refunded[p],
                                               Fee - FeeShare(refunded[p]))]
               \/ ledger' = [ledger EXCEPT ![p] = ReverseAll(ledger[p])]
            /\ attempt' = [attempt EXCEPT ![p] = news[h].outcome]
            /\ refunded' = [refunded EXCEPT ![p] = Amount]
            /\ ledger[p].sale
            /\ news[h].outcome \in {"REFUNDED", "CHARGEBACK"}
        BY <1>5, <2>2, <3>1 DEF FullRefund, Applying
      <3>3. refunded[p] <= Amount /\ Amount \in Int
        BY ConstantsAssumption DEF TypeOK
      <3>4. ledger'[p].sale
        BY <3>2 DEF ReversePartial, ReverseAll, TypeOK
      <3>5. refunded'[p] = Amount /\ attempt'[p] = news[h].outcome
        BY <3>2 DEF TypeOK
      <3>6. CASE o = p
        BY <3>2, <3>3, <3>4, <3>5, <3>6 DEF Refundable
      <3>7. CASE o # p
        BY <3>2, <3>7 DEF TypeOK
      <3>. QED BY <3>6, <3>7
    <2>. QED BY <2>1, <2>2
  <1>6. ASSUME NEW h \in Handlers, RejectOrder(h) PROVE AttemptGrows(o)
    BY <1>6 DEF RejectOrder, StatusAfter, Applying, Rejections, Settles, TypeOK
  <1>7. ASSUME NEW h \in Handlers, CommitApproval(h) PROVE AttemptGrows(o)
    <2>1. PICK p \in Orders : p = order[h]
      BY DEF TypeOK, RequestTypeOK
    <2>2. /\ attempt[p] \in {"PENDING", "EXPIRED"}
          /\ attempt' = [attempt EXCEPT ![p] = "APPROVED"]
          /\ ledger' = [ledger EXCEPT ![p] = PostSale(ledger[p])]
          /\ UNCHANGED refunded
      BY <1>7, <2>1 DEF CommitApproval, RequestInv, RequestOK, Settles
    <2>3. ledger'[p].sale
      BY <2>2 DEF PostSale, TypeOK
    <2>. QED BY <2>2, <2>3 DEF TypeOK
  <1>8. ASSUME NEW p \in Orders, ExpireOrder(p) PROVE AttemptGrows(o)
    BY <1>8 DEF ExpireOrder, Due, TypeOK
  <1>9. CASE CancelEvent
    BY <1>9 DEF CancelEvent, moneyVars
  <1>10. CASE ~ OrderAction
    BY <1>10, OtherActions DEF orderVars
  <1>. HIDE DEF AttemptGrows, Returned
  <1>. QED BY <1>1, <1>2, <1>3, <1>4, <1>5, <1>6, <1>7, <1>8, <1>9, <1>10 DEF OrderAction

\* The effect of an event stays: a later one does not undo it.
LEMMA AppliedStays ==
  ASSUME TypeOK, NEW o \in Orders, NEW e \in Events, AttemptGrows(o), attempt[o] # "NONE",
         refunded'[o] \in Int, Applied(o, e)
  PROVE  Applied(o, e)'
  <1>1. e.refunded \in Int /\ refunded[o] \in Int
    BY EventTypes, ConstantsAssumption DEF TypeOK
  <1>. QED BY <1>1 DEF AttemptGrows, Applied, Rejections

\* The row lock keeps the order of a settlement open for it.
LEMMA SettlementIsAlone ==
  ASSUME TypeOK, OrderInv, RequestInv, [Next]_vars, NEW g \in Handlers,
         pc[g] = "settling", pc'[g] = "settling"
  PROVE  attempt'[order[g]] = attempt[order[g]]
  <1>1. PICK o \in Orders : o = order[g]
    BY DEF TypeOK, RequestTypeOK
  <1>2. attempt[o] \in {"PENDING", "EXPIRED"}
    BY <1>1 DEF RequestInv, RequestOK, Settles
  <1>. USE <1>1, <1>2
  <1>3. ASSUME NEW h \in Handlers, NEW p \in Orders, Checkout(h, p)
        PROVE  attempt'[o] = attempt[o]
    <2>1. attempt[p] = "NONE"
      BY <1>3 DEF Checkout, OrderInv, StatusesAgree, TypeOK, AttemptStatuses, Paid, Refundable
    <2>. QED BY <1>3, <2>1 DEF Checkout, TypeOK
  <1>4. ASSUME NEW h \in Handlers, MarkAttemptRefundPending(h) \/ MarkOrderRefundPending(h)
        PROVE  attempt'[o] = attempt[o]
    BY <1>4 DEF MarkAttemptRefundPending, MarkOrderRefundPending, TypeOK
  <1>5. ASSUME NEW h \in Handlers, PartialRefund(h) PROVE attempt'[o] = attempt[o]
    BY <1>5 DEF PartialRefund, moneyVars, LockFree, TypeOK
  <1>6. ASSUME NEW h \in Handlers, FullRefund(h) PROVE attempt'[o] = attempt[o]
    BY <1>6 DEF FullRefund, moneyVars, LockFree, TypeOK
  <1>7. ASSUME NEW h \in Handlers, RejectOrder(h) PROVE attempt'[o] = attempt[o]
    BY <1>7 DEF RejectOrder, StatusAfter, LockFree, TypeOK
  <1>8. ASSUME NEW h \in Handlers, CommitApproval(h) PROVE attempt'[o] = attempt[o]
    <2>1. h # g
      BY <1>8 DEF CommitApproval, GoTo, TypeOK, RequestTypeOK
    <2>2. order[h] # o /\ order[h] \in Orders
      BY <1>8, <2>1 DEF CommitApproval, RequestInv, OneSettlement, TypeOK, RequestTypeOK
    <2>. QED BY <1>8, <2>2 DEF CommitApproval, TypeOK
  <1>9. ASSUME NEW p \in Orders, ExpireOrder(p) PROVE attempt'[o] = attempt[o]
    BY <1>9 DEF ExpireOrder, Due, LockFree, TypeOK
  <1>10. CASE CancelEvent
    BY <1>10 DEF CancelEvent, moneyVars
  <1>11. CASE ~ OrderAction
    BY <1>11, OtherActions DEF orderVars
  <1>. QED BY <1>3, <1>4, <1>5, <1>6, <1>7, <1>8, <1>9, <1>10, <1>11 DEF OrderAction

\* What a step of another leaves to a request.
Untouched(g) == pc'[g] = pc[g] /\ order'[g] = order[g] /\ news'[g] = news[g] /\ snap'[g] = snap[g]

\* What a request knows of its order survives the steps of the others.
LEMMA OthersStay ==
  ASSUME TypeOK, TypeOK', OrderInv, RequestInv, [Next]_vars, NEW g \in Handlers, Untouched(g)
  PROVE  RequestOK(g)'
  <1>1. PICK o \in Orders : o = order[g]
    BY DEF TypeOK, RequestTypeOK
  <1>2. RequestOK(g) /\ news[g] \in Events
    BY DEF RequestInv, TypeOK, RequestTypeOK
  <1>3. AttemptGrows(o)
    BY GrowStep
  <1>4. pc[g] = "settling" => attempt'[o] = attempt[o]
    BY <1>1, SettlementIsAlone DEF Untouched
  <1>5. snap[g] \in Int /\ refunded[o] \in Int /\ refunded'[o] \in Int
    BY ConstantsAssumption DEF TypeOK, RequestTypeOK
  <1>6. pc[g] = "finish" => Applied(o, news[g])'
    <2>. SUFFICES ASSUME pc[g] = "finish" PROVE Applied(o, news[g])'
      OBVIOUS
    <2>1. PICK e \in Events : e = news[g]
      BY <1>2
    <2>2. Applied(o, e)'
      BY <1>1, <1>2, <1>3, <1>5, <2>1, AppliedStays DEF RequestOK
    <2>. QED BY <2>1, <2>2 DEF Untouched, Applied
  <1>. QED BY <1>1, <1>2, <1>3, <1>4, <1>5, <1>6
           DEF RequestOK, Untouched, AttemptGrows, Settles, Applied, Returned

\* A step of request h leaves the others alone.
LEMMA Locality ==
  ASSUME TypeOK, NEW h \in Handlers, NEW g \in Handlers, g # h,
         \/ \E o \in Orders : Checkout(h, o) \/ ReceiveEvent(h, o)
         \/ HandlerStep(h)
         \/ Crash(h)
  PROVE  Untouched(g)
  <1>. USE DEF TypeOK, RequestTypeOK, Untouched, GoTo, Done, requestVars
  <1>1. CASE \E o \in Orders : Checkout(h, o) \/ ReceiveEvent(h, o)
    BY <1>1 DEF Checkout, ReceiveEvent
  <1>2. CASE Crash(h)
    BY <1>2 DEF Crash
  <1>3. CASE HandlerStep(h)
    <2>1. CASE CreatePayment(h) \/ PaymentCreationFails(h) \/ RefundThrows(h) \/ FinishEvent(h)
      BY <2>1 DEF CreatePayment, PaymentCreationFails, RefundThrows, FinishEvent
    <2>2. CASE ReadAttempt(h) \/ BeginApproval(h)
      BY <2>2 DEF ReadAttempt, BeginApproval
    <2>3. CASE RecordEvent(h)
      BY <2>3 DEF RecordEvent
    <2>4. CASE IgnorePending(h) \/ IgnorePartialRefund(h) \/ SettleNothing(h)
      BY <2>4 DEF IgnorePending, IgnorePartialRefund, SettleNothing
    <2>5. CASE MarkAttemptRefundPending(h) \/ MarkOrderRefundPending(h)
      BY <2>5 DEF MarkAttemptRefundPending, MarkOrderRefundPending
    <2>6. CASE PartialRefund(h) \/ FullRefund(h)
      BY <2>6 DEF PartialRefund, FullRefund
    <2>7. CASE RejectOrder(h)
      BY <2>7 DEF RejectOrder
    <2>8. CASE CommitApproval(h)
      BY <2>8 DEF CommitApproval
    <2>. QED BY <1>3, <2>1, <2>2, <2>3, <2>4, <2>5, <2>6, <2>7, <2>8 DEF HandlerStep
  <1>. QED BY <1>1, <1>2, <1>3

\* A request that is gone knows nothing.
LEMMA DoneIsOK ==
  ASSUME TypeOK, TypeOK', NEW h \in Handlers, Done(h) PROVE RequestOK(h)'
  <1>1. pc'[h] = "idle" /\ snap'[h] = 0 /\ news'[h] = ApprovedEvent
    BY DEF Done, TypeOK, RequestTypeOK
  <1>2. order'[h] \in Orders
    BY DEF TypeOK, RequestTypeOK
  <1>3. 0 <= refunded'[order'[h]]
    BY <1>2, ConstantsAssumption DEF TypeOK
  <1>. QED BY <1>1, <1>3 DEF RequestOK, ApprovedEvent

\* A request that goes on with its event knows of its order what it knew.
LEMMA GoesOn ==
  ASSUME TypeOK, TypeOK', OrderInv, RequestInv, [Next]_vars, NEW h \in Handlers,
         NEW next \in PCs, GoTo(h, next), pc[h] # "idle", next \notin {"idle", "settling"},
         next = "order" => news[h].outcome = "REFUND_PENDING",
         next = "finish" => Applied(order[h], news[h])'
  PROVE  RequestOK(h)'
  <1>1. PICK o \in Orders : o = order[h]
    BY DEF TypeOK, RequestTypeOK
  <1>2. pc'[h] = next /\ order' = order /\ news' = news /\ snap' = snap
    BY DEF GoTo, requestVars, TypeOK, RequestTypeOK
  <1>3. AttemptGrows(o) /\ RequestOK(h)
    BY GrowStep DEF RequestInv
  <1>4. snap[h] \in Int /\ refunded[o] \in Int /\ refunded'[o] \in Int
    BY ConstantsAssumption DEF TypeOK, RequestTypeOK
  <1>. QED BY <1>1, <1>2, <1>3, <1>4 DEF RequestOK, AttemptGrows, Applied

\* Every step of a request leaves it knowing what it needs.
LEMMA OwnStep ==
  ASSUME TypeOK, TypeOK', OrderInv, OrderInv', RequestInv, [Next]_vars, NEW h \in Handlers,
         \/ \E o \in Orders : Checkout(h, o) \/ ReceiveEvent(h, o)
         \/ HandlerStep(h)
         \/ Crash(h)
  PROVE  RequestOK(h)'
  <1>0. RequestOK(h)
    BY DEF RequestInv
  <1>1. ASSUME NEW o \in Orders, Checkout(h, o) PROVE RequestOK(h)'
    <2>1. /\ pc'[h] \in {"query", "pay"} /\ order'[h] = o /\ news'[h] = ApprovedEvent
          /\ snap'[h] = 0 /\ attempt'[o] = "PENDING"
      BY <1>0, <1>1 DEF Checkout, RequestOK, TypeOK, RequestTypeOK
    <2>2. 0 <= refunded'[o]
      BY ConstantsAssumption DEF TypeOK
    <2>. QED BY <2>1, <2>2 DEF RequestOK, ApprovedEvent
  <1>2. ASSUME NEW o \in Orders, ReceiveEvent(h, o) PROVE RequestOK(h)'
    <2>1. /\ pc'[h] = "query" /\ order'[h] = o /\ news'[h] = payment[o] /\ snap'[h] = 0
          /\ attempt' = attempt
      BY <1>0, <1>2 DEF ReceiveEvent, RequestOK, TypeOK, RequestTypeOK, moneyVars
    <2>2. attempt[o] # "NONE" /\ 0 <= refunded'[o]
      BY <1>2, ConstantsAssumption DEF ReceiveEvent, RequestInv, PaymentsAreKnown, TypeOK
    <2>3. payment[o].outcome = "PARTIALLY_REFUNDED" => payment[o].refunded < Amount
      BY DEF RequestInv, PaymentsAreKnown
    <2>. QED BY <2>1, <2>2, <2>3 DEF RequestOK
  <1>3. CASE CreatePayment(h) \/ PaymentCreationFails(h) \/ RefundThrows(h) \/ FinishEvent(h)
             \/ Crash(h)
    BY <1>3, DoneIsOK DEF CreatePayment, PaymentCreationFails, RefundThrows, FinishEvent, Crash
  <1>4. CASE ReadAttempt(h)
    <2>1. PICK o \in Orders : o = order[h]
      BY DEF TypeOK, RequestTypeOK
    <2>2. /\ pc'[h] = "record" /\ pc[h] # "idle" /\ snap'[h] = refunded[o]
          /\ UNCHANGED <<order, news, attempt, refunded>>
      BY <1>4, <2>1 DEF ReadAttempt, moneyVars, TypeOK, RequestTypeOK
    <2>3. refunded[o] <= refunded'[o]
      BY <2>2, ConstantsAssumption DEF TypeOK
    <2>. QED BY <1>0, <2>1, <2>2, <2>3 DEF RequestOK
  <1>. "apply" \in PCs /\ "order" \in PCs /\ "finish" \in PCs
    BY DEF PCs
  <1>5. CASE RecordEvent(h)
    BY <1>5, DoneIsOK, GoesOn DEF RecordEvent
  <1>6. CASE IgnorePending(h) \/ MarkOrderRefundPending(h)
    <2>1. /\ pc[h] # "idle" /\ GoTo(h, "finish")
          /\ news[h].outcome \in {"PENDING", "REFUND_PENDING"} /\ news' = news
      BY <1>0, <1>6 DEF IgnorePending, MarkOrderRefundPending, Applying, RequestOK, GoTo, requestVars
    <2>2. Applied(order[h], news[h])'
      BY <2>1 DEF Applied, Rejections
    <2>. QED BY <2>1, <2>2, GoesOn
  <1>7. CASE MarkAttemptRefundPending(h)
    BY <1>7, GoesOn DEF MarkAttemptRefundPending, Applying
  <1>8. ASSUME Applying(h, Outcomes), GoTo(h, "finish"),
               /\ news[h].outcome = "APPROVED" =>
                      ledger'[order[h]].sale \/ attempt'[order[h]] \in {"REJECTED", "CANCELLED"}
               /\ news[h].outcome \in Rejections => attempt'[order[h]] # "PENDING"
               /\ news[h].outcome = "PARTIALLY_REFUNDED" => news[h].refunded <= refunded'[order[h]]
               /\ news[h].outcome \in {"REFUNDED", "CHARGEBACK"} =>
                      attempt'[order[h]] \in {"REFUNDED", "CHARGEBACK"}
        PROVE  RequestOK(h)'
    <2>1. Applied(order[h], news[h])'
      BY <1>8 DEF Applied, Returned, GoTo, requestVars
    <2>. QED BY <1>8, <2>1, GoesOn DEF Applying
  <1>9. CASE IgnorePartialRefund(h)
    <2>1. news[h].refunded \in Int /\ Amount \in Int /\ snap[h] \in Int /\ refunded[order[h]] \in Int
      BY EventTypes, ConstantsAssumption DEF TypeOK, RequestTypeOK
    <2>2. /\ news[h].outcome = "PARTIALLY_REFUNDED" /\ news[h].refunded <= refunded[order[h]]
          /\ UNCHANGED refunded
      BY <1>0, <1>9, <2>1 DEF IgnorePartialRefund, Applying, RequestOK, moneyVars
    <2>. QED BY <1>8, <1>9, <2>2 DEF IgnorePartialRefund, Applying, Outcomes, Rejections
  <1>10. CASE PartialRefund(h)
    <2>1. order[h] \in Orders /\ news[h].refunded \in Int /\ refunded[order[h]] \in Int
      BY EventTypes, ConstantsAssumption DEF TypeOK, RequestTypeOK
    <2>2. news[h].outcome = "PARTIALLY_REFUNDED" /\ news[h].refunded <= refunded'[order[h]]
      BY <1>10, <2>1 DEF PartialRefund, RefundedSoFar, Applying, moneyVars, TypeOK
    <2>. QED BY <1>8, <1>10, <2>2 DEF PartialRefund, Applying, Outcomes, Rejections
  <1>11. CASE FullRefund(h)
    <2>1. order[h] \in Orders
      BY DEF TypeOK, RequestTypeOK
    <2>2. /\ news[h].outcome \in {"REFUNDED", "CHARGEBACK"}
          /\ attempt'[order[h]] \in {"REFUNDED", "CHARGEBACK"}
      BY <1>11, <2>1 DEF FullRefund, Applying, moneyVars, TypeOK
    <2>. QED BY <1>8, <1>11, <2>2 DEF FullRefund, Applying, Outcomes, Rejections
  <1>12. CASE SettleNothing(h)
    <2>1. /\ news[h].outcome \in Rejections \cup {"APPROVED"}
          /\ attempt[order[h]] \notin {"NONE", "PENDING"}
          /\ news[h].outcome = "APPROVED" => attempt[order[h]] # "EXPIRED"
          /\ UNCHANGED <<attempt, ledger>>
      BY <1>0, <1>12 DEF SettleNothing, Applying, RequestOK, Settles, moneyVars
    <2>2. news[h].outcome = "APPROVED" =>
              ledger[order[h]].sale \/ attempt[order[h]] \in {"REJECTED", "CANCELLED"}
      BY <2>1 DEF OrderInv, LedgerAgrees, Paid, Returned, Refundable, TypeOK, RequestTypeOK,
                  AttemptStatuses
    <2>. QED BY <1>8, <1>12, <2>1, <2>2 DEF SettleNothing, Applying, Outcomes, Rejections
  <1>13. CASE RejectOrder(h)
    <2>1. order[h] \in Orders
      BY DEF TypeOK, RequestTypeOK
    <2>2. news[h].outcome \in Rejections /\ attempt'[order[h]] # "PENDING"
      BY <1>13, <2>1 DEF RejectOrder, StatusAfter, Applying, Rejections, TypeOK
    <2>. QED BY <1>8, <1>13, <2>2 DEF RejectOrder, StatusAfter, Applying, Outcomes, Rejections
  <1>14. CASE BeginApproval(h)
    <2>1. /\ pc'[h] = "settling" /\ news[h].outcome = "APPROVED" /\ Settles(order[h], "APPROVED")
          /\ UNCHANGED <<order, news, snap, attempt, refunded>> /\ pc[h] # "idle"
      BY <1>14 DEF BeginApproval, Applying, moneyVars, TypeOK, RequestTypeOK
    <2>. QED BY <1>0, <2>1 DEF RequestOK, Settles
  <1>15. CASE CommitApproval(h)
    <2>1. PICK o \in Orders : o = order[h]
      BY DEF TypeOK, RequestTypeOK
    <2>2. news[h].outcome = "APPROVED" /\ pc[h] # "idle" /\ GoTo(h, "finish")
      BY <1>0, <1>15 DEF CommitApproval, RequestOK
    <2>3. ledger' = [ledger EXCEPT ![o] = PostSale(ledger[o])]
      BY <1>15, <2>1 DEF CommitApproval
    <2>4. ledger'[o].sale
      BY <2>3 DEF TypeOK, PostSale
    <2>5. Applied(order[h], news[h])'
      BY <2>1, <2>2, <2>4 DEF Applied, Rejections, GoTo, requestVars
    <2>. QED BY <2>2, <2>5, GoesOn
  <1>. QED BY <1>1, <1>2, <1>3, <1>4, <1>5, <1>6, <1>7, <1>9, <1>10, <1>11, <1>12, <1>13, <1>14,
              <1>15 DEF HandlerStep

\* The steps nobody's request takes.
LEMMA EnvironmentStep ==
  ASSUME [Next]_vars, NEW g \in Handlers,
         ~ \E h \in Handlers : \/ \E o \in Orders : Checkout(h, o) \/ ReceiveEvent(h, o)
                               \/ HandlerStep(h)
                               \/ Crash(h)
  PROVE  Untouched(g)
  <1>1. UNCHANGED handlers
    <2>1. CASE \E u \in Users, r \in Resources, q \in 0..MaxQty : SetCartItem(u, r, q)
      BY <2>1 DEF SetCartItem
    <2>2. CASE \E o \in Orders, to \in Outcomes, cents \in 0..Amount : ProviderUpdate(o, to, cents)
      BY <2>2 DEF ProviderUpdate
    <2>3. CASE \E o \in Orders : ProviderTouch(o)
      BY <2>3 DEF ProviderTouch
    <2>4. CASE \E o \in Orders : ExpireOrder(o)
      BY <2>4 DEF ExpireOrder, Due
    <2>5. CASE CancelEvent \/ Tick
      BY <2>5 DEF CancelEvent, Tick
    <2>6. CASE UNCHANGED vars
      BY <2>6 DEF vars
    <2>. QED BY <2>1, <2>2, <2>3, <2>4, <2>5, <2>6 DEF Next
  <1>. QED BY <1>1 DEF handlers, requestVars, Untouched

\* Two requests never settle the same order.
LEMMA SettlementStep ==
  ASSUME TypeOK, RequestInv, [Next]_vars PROVE OneSettlement'
  <1>. DEFINE Acts(h) == \/ \E o \in Orders : Checkout(h, o) \/ ReceiveEvent(h, o)
                         \/ HandlerStep(h)
                         \/ Crash(h)
  <1>1. CASE \A g \in Handlers : Untouched(g)
    BY <1>1 DEF RequestInv, OneSettlement, Untouched
  <1>2. ASSUME NEW h \in Handlers, \A g \in Handlers : g # h => Untouched(g),
               pc'[h] # "settling"
        PROVE  OneSettlement'
    BY <1>2 DEF RequestInv, OneSettlement, Untouched
  <1>3. ASSUME NEW h \in Handlers, \A g \in Handlers : g # h => Untouched(g), BeginApproval(h)
        PROVE  OneSettlement'
    <2>1. order' = order /\ LockFree(order[h])
      BY <1>3 DEF BeginApproval
    <2>. QED BY <1>3, <2>1 DEF RequestInv, OneSettlement, Untouched, LockFree
  <1>4. ASSUME NEW h \in Handlers, Acts(h), ~ BeginApproval(h) PROVE pc'[h] # "settling"
    <2>. USE DEF GoTo, Done, TypeOK, RequestTypeOK
    <2>1. CASE \E o \in Orders : Checkout(h, o) \/ ReceiveEvent(h, o)
      BY <2>1 DEF Checkout, ReceiveEvent
    <2>2. CASE Crash(h) \/ CreatePayment(h) \/ PaymentCreationFails(h) \/ RefundThrows(h)
               \/ FinishEvent(h)
      BY <2>2 DEF Crash, CreatePayment, PaymentCreationFails, RefundThrows, FinishEvent
    <2>3. CASE ReadAttempt(h) \/ RecordEvent(h) \/ IgnorePending(h) \/ IgnorePartialRefund(h)
               \/ SettleNothing(h)
      BY <2>3 DEF ReadAttempt, RecordEvent, IgnorePending, IgnorePartialRefund, SettleNothing
    <2>4. CASE MarkAttemptRefundPending(h) \/ MarkOrderRefundPending(h) \/ PartialRefund(h)
               \/ FullRefund(h)
      BY <2>4 DEF MarkAttemptRefundPending, MarkOrderRefundPending, PartialRefund, FullRefund
    <2>5. CASE RejectOrder(h) \/ CommitApproval(h)
      BY <2>5 DEF RejectOrder, StatusAfter, CommitApproval
    <2>. QED BY <1>4, <2>1, <2>2, <2>3, <2>4, <2>5 DEF HandlerStep
  <1>5. ASSUME NEW h \in Handlers, Acts(h) PROVE \A g \in Handlers : g # h => Untouched(g)
    BY <1>5, Locality
  <1>6. CASE ~ \E h \in Handlers : Acts(h)
    BY <1>1, <1>6, EnvironmentStep
  <1>. HIDE DEF Acts
  <1>. QED BY <1>2, <1>3, <1>4, <1>5, <1>6

\* The provider only knows payments of orders that exist.
LEMMA PaymentStep ==
  ASSUME TypeOK, OrderInv, RequestInv, [Next]_vars PROVE PaymentsAreKnown'
  <1>1. ASSUME NEW o \in Orders,
               payment'[o].outcome # "NONE" \/ finished'[o] # {} => attempt[o] # "NONE",
               payment'[o].outcome = "PARTIALLY_REFUNDED" => payment'[o].refunded < Amount
        PROVE  /\ payment'[o].outcome # "NONE" \/ finished'[o] # {} => attempt'[o] # "NONE"
               /\ payment'[o].outcome = "PARTIALLY_REFUNDED" => payment'[o].refunded < Amount
    BY <1>1, GrowStep DEF AttemptGrows
  <1>2. CASE UNCHANGED <<payment, finished>>
    BY <1>1, <1>2 DEF RequestInv, PaymentsAreKnown
  <1>3. ASSUME NEW h \in Handlers, CreatePayment(h) PROVE PaymentsAreKnown'
    <2>1. /\ order[h] \in Orders /\ attempt[order[h]] # "NONE"
          /\ payment' = [payment EXCEPT ![order[h]] = NewPayment] /\ UNCHANGED finished
      BY <1>3 DEF CreatePayment, RequestInv, RequestOK, TypeOK, RequestTypeOK
    <2>2. \A o \in Orders : payment'[o] = IF o = order[h] THEN NewPayment ELSE payment[o]
      BY <2>1 DEF TypeOK
    <2>. QED BY <1>1, <2>1, <2>2 DEF RequestInv, PaymentsAreKnown, NewPayment
  <1>4. ASSUME NEW p \in Orders, NEW to \in Outcomes, NEW cents \in 0..Amount,
               ProviderUpdate(p, to, cents)
        PROVE  PaymentsAreKnown'
    <2>1. payment[p].outcome # "NONE"
      BY <1>4, ConstantsAssumption DEF ProviderUpdate, Outcomes
    <2>. DEFINE update == [outcome |-> to, refunded |-> cents, rev |-> payment[p].rev]
    <2>2. update.outcome = to /\ update.refunded = cents
      OBVIOUS
    <2>3. to = "PARTIALLY_REFUNDED" => cents < Amount
      BY <1>4 DEF ProviderUpdate
    <2>4. UNCHANGED finished /\ payment' = [payment EXCEPT ![p] = update]
      BY <1>4 DEF ProviderUpdate
    <2>. HIDE DEF update
    <2>5. \A o \in Orders : payment'[o] = IF o = p THEN update ELSE payment[o]
      BY <2>4 DEF TypeOK
    <2>. QED BY <1>1, <2>1, <2>2, <2>3, <2>4, <2>5 DEF RequestInv, PaymentsAreKnown
  <1>5. ASSUME NEW p \in Orders, ProviderTouch(p) PROVE PaymentsAreKnown'
    <2>. DEFINE touched == [outcome |-> payment[p].outcome, refunded |-> payment[p].refunded,
                            rev |-> payment[p].rev + 1]
    <2>1. touched.outcome = payment[p].outcome /\ touched.refunded = payment[p].refunded
      OBVIOUS
    <2>2. UNCHANGED finished /\ payment' = [payment EXCEPT ![p] = touched]
      BY <1>5 DEF ProviderTouch
    <2>. HIDE DEF touched
    <2>3. \A o \in Orders : payment'[o] = IF o = p THEN touched ELSE payment[o]
      BY <2>2 DEF TypeOK
    <2>. QED BY <1>1, <2>1, <2>2, <2>3 DEF RequestInv, PaymentsAreKnown
  <1>6. ASSUME NEW h \in Handlers, FinishEvent(h) PROVE PaymentsAreKnown'
    <2>1. /\ order[h] \in Orders /\ attempt[order[h]] # "NONE" /\ UNCHANGED payment
          /\ \A o \in Orders : o # order[h] => finished'[o] = finished[o]
      BY <1>6 DEF FinishEvent, RequestInv, RequestOK, TypeOK, RequestTypeOK
    <2>. QED BY <1>1, <2>1 DEF RequestInv, PaymentsAreKnown
  <1>7. CASE \/ \E h \in Handlers : CreatePayment(h) \/ FinishEvent(h)
             \/ \E o \in Orders, to \in Outcomes, cents \in 0..Amount : ProviderUpdate(o, to, cents)
             \/ \E o \in Orders : ProviderTouch(o)
    BY <1>3, <1>4, <1>5, <1>6, <1>7
  <1>8. CASE ~ \/ \E h \in Handlers : CreatePayment(h) \/ FinishEvent(h)
               \/ \E o \in Orders, to \in Outcomes, cents \in 0..Amount :
                      ProviderUpdate(o, to, cents)
               \/ \E o \in Orders : ProviderTouch(o)
    <2>1. UNCHANGED <<payment, finished>>
      <3>1. ASSUME NEW h \in Handlers, HandlerStep(h) PROVE UNCHANGED <<payment, finished>>
        <4>1. CASE PaymentCreationFails(h) \/ ReadAttempt(h) \/ RecordEvent(h) \/ IgnorePending(h)
          BY <4>1 DEF PaymentCreationFails, ReadAttempt, RecordEvent, IgnorePending
        <4>2. CASE \/ MarkAttemptRefundPending(h) \/ MarkOrderRefundPending(h)
                   \/ IgnorePartialRefund(h) \/ PartialRefund(h) \/ FullRefund(h)
          BY <4>2 DEF MarkAttemptRefundPending, MarkOrderRefundPending, IgnorePartialRefund,
                      PartialRefund, FullRefund
        <4>3. CASE RefundThrows(h) \/ SettleNothing(h) \/ RejectOrder(h) \/ BeginApproval(h)
          BY <4>3 DEF RefundThrows, SettleNothing, RejectOrder, BeginApproval
        <4>4. CASE CommitApproval(h)
          BY <4>4 DEF CommitApproval
        <4>. QED BY <1>8, <3>1, <4>1, <4>2, <4>3, <4>4 DEF HandlerStep
      <3>2. ASSUME NEW h \in Handlers, NEW o \in Orders, Checkout(h, o) \/ ReceiveEvent(h, o)
            PROVE  UNCHANGED <<payment, finished>>
        BY <3>2 DEF Checkout, ReceiveEvent
      <3>3. ASSUME NEW u \in Users, NEW r \in Resources, NEW q \in 0..MaxQty, SetCartItem(u, r, q)
            PROVE  UNCHANGED <<payment, finished>>
        BY <3>3 DEF SetCartItem
      <3>4. ASSUME NEW o \in Orders, ExpireOrder(o) PROVE UNCHANGED <<payment, finished>>
        BY <3>4 DEF ExpireOrder, Due
      <3>5. CASE CancelEvent \/ Tick \/ UNCHANGED vars
        BY <3>5 DEF CancelEvent, Tick, vars
      <3>6. ASSUME NEW h \in Handlers, Crash(h) PROVE UNCHANGED <<payment, finished>>
        BY <3>6 DEF Crash
      <3>. QED BY <1>8, <3>1, <3>2, <3>3, <3>4, <3>5, <3>6 DEF Next
    <2>. QED BY <1>2, <2>1
  <1>. QED BY <1>7, <1>8

\* Every step keeps what the requests know of their orders.
LEMMA RequestStep ==
  ASSUME TypeOK, TypeOK', OrderInv, OrderInv', RequestInv, [Next]_vars PROVE RequestInv'
  <1>. DEFINE Acts(h) == \/ \E o \in Orders : Checkout(h, o) \/ ReceiveEvent(h, o)
                         \/ HandlerStep(h)
                         \/ Crash(h)
  <1>1. ASSUME NEW g \in Handlers PROVE RequestOK(g)'
    <2>1. CASE Acts(g)
      BY <2>1, OwnStep
    <2>2. ASSUME NEW h \in Handlers, Acts(h), h # g PROVE RequestOK(g)'
      BY <2>2, Locality, OthersStay
    <2>3. CASE ~ \E h \in Handlers : Acts(h)
      BY <2>3, EnvironmentStep, OthersStay
    <2>. HIDE DEF Acts
    <2>. QED BY <2>1, <2>2, <2>3
  <1>. QED BY <1>1, SettlementStep, PaymentStep DEF RequestInv

\* No step loses the effect of an event that was acknowledged.
LEMMA NewsStep ==
  ASSUME TypeOK, TypeOK', OrderInv, RequestInv, NoNewsLost, [Next]_vars PROVE NoNewsLost'
  <1>1. ASSUME NEW o \in Orders, NEW e \in finished[o] PROVE Applied(o, e)'
    <2>1. e \in Events /\ attempt[o] # "NONE" /\ Applied(o, e) /\ refunded'[o] \in Int
      BY ConstantsAssumption DEF TypeOK, RequestInv, PaymentsAreKnown, NoNewsLost
    <2>. QED BY <2>1, GrowStep, AppliedStays
  <1>2. ASSUME NEW h \in Handlers, FinishEvent(h) PROVE NoNewsLost'
    <2>1. PICK o \in Orders : o = order[h]
      BY DEF TypeOK, RequestTypeOK
    <2>2. Applied(o, news[h]) /\ UNCHANGED <<attempt, refunded, ledger>>
      BY <1>2, <2>1 DEF FinishEvent, RequestInv, RequestOK, moneyVars
    <2>3. \A p \in Orders : finished'[p] = IF p = o THEN finished[p] \cup {news[h]} ELSE finished[p]
      BY <1>2, <2>1 DEF FinishEvent, TypeOK
    <2>. QED BY <1>1, <2>2, <2>3 DEF NoNewsLost, Applied, Returned
  <1>3. CASE UNCHANGED finished
    BY <1>1, <1>3 DEF NoNewsLost
  <1>4. UNCHANGED finished \/ \E h \in Handlers : FinishEvent(h)
    <2>1. ASSUME NEW h \in Handlers, HandlerStep(h), ~ FinishEvent(h) PROVE UNCHANGED finished
      <3>1. CASE CreatePayment(h) \/ PaymentCreationFails(h) \/ ReadAttempt(h) \/ RecordEvent(h)
                 \/ IgnorePending(h)
        BY <3>1 DEF CreatePayment, PaymentCreationFails, ReadAttempt, RecordEvent, IgnorePending
      <3>2. CASE \/ MarkAttemptRefundPending(h) \/ MarkOrderRefundPending(h)
                 \/ IgnorePartialRefund(h) \/ PartialRefund(h) \/ FullRefund(h)
        BY <3>2 DEF MarkAttemptRefundPending, MarkOrderRefundPending, IgnorePartialRefund,
                    PartialRefund, FullRefund
      <3>3. CASE RefundThrows(h) \/ SettleNothing(h) \/ RejectOrder(h) \/ BeginApproval(h)
        BY <3>3 DEF RefundThrows, SettleNothing, RejectOrder, BeginApproval
      <3>4. CASE CommitApproval(h)
        BY <3>4 DEF CommitApproval
      <3>. QED BY <2>1, <3>1, <3>2, <3>3, <3>4 DEF HandlerStep
    <2>2. ASSUME NEW h \in Handlers, NEW o \in Orders, Checkout(h, o) \/ ReceiveEvent(h, o)
          PROVE  UNCHANGED finished
      BY <2>2 DEF Checkout, ReceiveEvent
    <2>3. ASSUME NEW u \in Users, NEW r \in Resources, NEW q \in 0..MaxQty, SetCartItem(u, r, q)
          PROVE  UNCHANGED finished
      BY <2>3 DEF SetCartItem
    <2>4. ASSUME NEW o \in Orders, NEW to \in Outcomes, NEW cents \in 0..Amount,
                 ProviderUpdate(o, to, cents) \/ ProviderTouch(o) \/ ExpireOrder(o)
          PROVE  UNCHANGED finished
      BY <2>4 DEF ProviderUpdate, ProviderTouch, ExpireOrder, Due
    <2>5. CASE CancelEvent \/ Tick \/ UNCHANGED vars
      BY <2>5 DEF CancelEvent, Tick, vars
    <2>6. ASSUME NEW h \in Handlers, Crash(h) PROVE UNCHANGED finished
      BY <2>6 DEF Crash
    <2>7. ASSUME NEW o \in Orders, ProviderTouch(o) \/ ExpireOrder(o) PROVE UNCHANGED finished
      BY <2>7 DEF ProviderTouch, ExpireOrder, Due
    <2>. QED BY <2>1, <2>2, <2>3, <2>4, <2>5, <2>6, <2>7 DEF Next
  <1>. QED BY <1>2, <1>3, <1>4

-----------------------------------------------------------------------------
(* The theorems.                                                           *)

\* The invariant holds at first: there is no order and no request.
LEMMA InitHolds == Init => IndInv
  <1>. SUFFICES ASSUME Init PROVE IndInv
    OBVIOUS
  <1>1. /\ TypeOK /\ FeeShare(0) = 0
    BY InitTypeOK, FeeShareOfNothing
  <1>2. \A o \in Orders : ~ Paid(o) /\ ~ Returned(o)
    BY DEF Init, Paid, Returned, Refundable
  <1>3. NeverOversold /\ RightsAreBacked /\ ServedOrReviewed /\ RewardFollowsOrder
    BY <1>2, ConstantsAssumption
       DEF Init, NeverOversold, RightsAreBacked, ServedOrReviewed, RewardFollowsOrder
  <1>4. LedgerAgrees /\ StatusesAgree
    BY <1>1, <1>2, ConstantsAssumption DEF Init, LedgerAgrees, StatusesAgree
  <1>5. UnpaidIsUntouched /\ KeysArePast /\ LapsedHoldsNothing
    BY DEF Init, UnpaidIsUntouched, KeysArePast, LapsedHoldsNothing
  <1>6. PaymentsAreKnown /\ OneSettlement /\ NoNewsLost
    BY DEF Init, PaymentsAreKnown, OneSettlement, NoNewsLost, NoPayment
  <1>7. ASSUME NEW h \in Handlers PROVE RequestOK(h)
    BY <1>1 DEF Init, RequestOK, ApprovedEvent, TypeOK, RequestTypeOK
  <1>. QED BY <1>1, <1>3, <1>4, <1>5, <1>6, <1>7 DEF IndInv, OrderInv, RequestInv

\* IndInv holds in every state of every behaviour.
THEOREM Invariance == Spec => []IndInv
  <1>1. IndInv /\ [Next]_vars => IndInv'
    <2>. SUFFICES ASSUME IndInv, [Next]_vars PROVE IndInv'
      OBVIOUS
    <2>1. TypeOK'
      BY NextType DEF IndInv
    <2>2. OrderInv'
      BY OrderStep DEF IndInv
    <2>. QED BY <2>1, <2>2, RequestStep, NewsStep DEF IndInv
  <1>. QED BY <1>1, InitHolds, PTL DEF Spec

\* No unit of the stock is sold twice, whatever lapses or is approved late.
THEOREM StockIsNeverOversold == Spec => []NeverOversold
  BY Invariance, PTL DEF IndInv, OrderInv

\* A right that works is paid, confirmed, and of an event that takes place.
THEOREM WorkingRightsAreBacked == Spec => []RightsAreBacked
  BY Invariance, PTL DEF IndInv, OrderInv

\* A payment in the ledger was answered once: with rights or with a review.
THEOREM PaymentsAreAnsweredOnce == Spec => []ServedOrReviewed
  BY Invariance, PTL DEF IndInv, OrderInv

\* The ledger gives back what the attempt says, and the fee to the cent.
THEOREM LedgerFollowsAttempt == Spec => []LedgerAgrees
  BY Invariance, PTL DEF IndInv, OrderInv

\* Order and attempt tell the same story of the payment.
THEOREM OrderFollowsAttempt == Spec => []StatusesAgree
  BY Invariance, PTL DEF IndInv, OrderInv

\* The referrer's reward stands and falls with the purchase.
THEOREM RewardStandsWithOrder == Spec => []RewardFollowsOrder
  BY Invariance, PTL DEF IndInv, OrderInv

\* What was acknowledged to the provider had its effect, after any crash.
THEOREM AcknowledgedNewsIsApplied == Spec => []NoNewsLost
  BY Invariance, PTL DEF IndInv

\* A right that was taken back never works again.
THEOREM RevokedForever == Spec => RightsStayRevoked
  <1>. DEFINE Step == \A o \in Orders, r \in Resources :
                          rights[o][r] # "NONE" =>
                              \/ rights'[o][r] = rights[o][r]
                              \/ rights'[o][r] = "CANCELLED"
  <1>1. ASSUME IndInv, [Next]_vars PROVE [Step]_vars
    <2>1. ASSUME NEW h \in Handlers, FullRefund(h) PROVE Step
      <3>1. order[h] \in Orders /\ rights \in [Orders -> [Resources -> {"NONE", "AVAILABLE", "CANCELLED"}]]
        BY <1>1 DEF IndInv, TypeOK, RequestTypeOK
      <3>2. \/ rights' = rights
            \/ rights' = [rights EXCEPT ![order[h]] =
                             [r \in Resources |-> Revoked(rights[order[h]][r])]]
        BY <2>1 DEF FullRefund
      <3>. QED BY <3>1, <3>2 DEF Revoked
    <2>2. ASSUME NEW h \in Handlers, CommitApproval(h) PROVE Step
      <3>1. order[h] \in Orders /\ rights \in [Orders -> [Resources -> {"NONE", "AVAILABLE", "CANCELLED"}]]
        BY <1>1 DEF IndInv, TypeOK, RequestTypeOK
      <3>2. \A r \in Resources : rights[order[h]][r] = "NONE"
        BY <1>1, <2>2, <3>1 DEF CommitApproval, IndInv, RequestInv, RequestOK, Settles, OrderInv,
                                UnpaidIsUntouched, Paid, Returned, Refundable
      <3>3. \A o \in Orders : o # order[h] => rights'[o] = rights[o]
        BY <2>2, <3>1 DEF CommitApproval
      <3>. QED BY <3>2, <3>3
    <2>3. CASE CancelEvent
      BY <2>3 DEF CancelEvent, Revoked
    <2>4. ASSUME NEW h \in Handlers, NEW o \in Orders, Checkout(h, o) PROVE Step
      BY <2>4 DEF Checkout
    <2>5. ASSUME NEW h \in Handlers,
                 \/ MarkAttemptRefundPending(h) \/ MarkOrderRefundPending(h)
                 \/ PartialRefund(h) \/ RejectOrder(h)
          PROVE  Step
      BY <2>5 DEF MarkAttemptRefundPending, MarkOrderRefundPending, PartialRefund, RejectOrder,
                  clubVars
    <2>6. ASSUME NEW o \in Orders, ExpireOrder(o) PROVE Step
      BY <2>6 DEF ExpireOrder, Due, clubVars
    <2>7. CASE ~ OrderAction
      BY <1>1, <2>7, OtherActions DEF orderVars
    <2>. HIDE DEF Step
    <2>. QED BY <2>1, <2>2, <2>3, <2>4, <2>5, <2>6, <2>7 DEF OrderAction
  <1>. QED BY <1>1, Invariance, PTL DEF Spec, RightsStayRevoked

-----------------------------------------------------------------------------
(***************************************************************************)
(* The stock is what the orders took                                       *)
(***************************************************************************)
\* The orders whose reservation was confirmed, and their units of a good.
ConfirmedOrders == {o \in Orders : reservation[o] = "CONFIRMED"}
UnitsOf(r) == [o \in Orders |-> items[o][r]]

\* Stock is what the orders that were confirmed took; there are finitely many.
StockIsSum ==
    /\ IsFiniteSet(ConfirmedOrders)
    /\ \A r \in Inventory : sold[r] = SumOver(UnitsOf(r), ConfirmedOrders)

\* That is what is asked of the stock.
LEMMA StockIsSumMeans == ASSUME IndInv, StockIsSum PROVE StockIsBacked
  <1>1. ASSUME NEW r \in Inventory
        PROVE  sold[r] = MapThenSumSet(LAMBDA o : items[o][r], ConfirmedOrders)
    <2>1. MapThenSumSet(LAMBDA o : items[o][r], ConfirmedOrders) = SumOver(UnitsOf(r), ConfirmedOrders)
      <3>1. MapThenSumSet(LAMBDA o : items[o][r], ConfirmedOrders) = ColumnSum(items, r, ConfirmedOrders)
        BY DEF MapThenSumSet, MapThenFoldSet, ColumnSum, FirstOf
      <3>2. ColumnSum(items, r, ConfirmedOrders) = SumOver(UnitsOf(r), ConfirmedOrders)
        BY SumOfColumn DEF UnitsOf, ConfirmedOrders
      <3>. QED BY <3>1, <3>2, Zenon
    <2>. QED BY <2>1, Zenon DEF StockIsSum
  <1>. QED BY <1>1 DEF StockIsBacked, ConfirmedOrders, IndInv, OrderInv

\* Who was not confirmed may change what it bought, and the stock does not.
LEMMA StockFrame ==
  ASSUME TypeOK, StockIsSum, sold' = sold, ConfirmedOrders' = ConfirmedOrders,
         \A o \in ConfirmedOrders : items'[o] = items[o]
  PROVE  StockIsSum'
  <1>1. ASSUME NEW r \in Inventory PROVE sold'[r] = SumOver(UnitsOf(r)', ConfirmedOrders)
    <2>1. \A o \in ConfirmedOrders : UnitsOf(r)[o] = UnitsOf(r)'[o]
      BY DEF UnitsOf, ConfirmedOrders
    <2>2. SumOver(UnitsOf(r), ConfirmedOrders) = SumOver(UnitsOf(r)', ConfirmedOrders)
      BY <2>1, SumsAgree DEF StockIsSum
    <2>. QED BY <2>2 DEF StockIsSum
  <1>. QED BY <1>1 DEF StockIsSum

\* An approval sells the units of its order, which was not confirmed.
LEMMA StockOfApproval ==
  ASSUME IndInv, StockIsSum, NEW h \in Handlers, CommitApproval(h)
  PROVE  StockIsSum'
  <1>. DEFINE o == order[h]
  <1>1. o \in Orders /\ items' = items /\ items \in [Orders -> Quantities]
    BY DEF IndInv, TypeOK, RequestTypeOK, CommitApproval
  <1>2. o \notin ConfirmedOrders
    BY <1>1 DEF CommitApproval, ConfirmedOrders, IndInv, RequestInv, RequestOK, Settles, OrderInv,
                UnpaidIsUntouched, Paid, Returned, Refundable
  <1>3. CASE ~ Confirms(o, paidAt[h])
    <2>1. sold' = sold /\ reservation' = reservation
      BY <1>3 DEF CommitApproval
    <2>. QED BY <1>1, <2>1, StockFrame DEF ConfirmedOrders, IndInv
  <1>4. CASE Confirms(o, paidAt[h])
    <2>1. /\ sold' = [r \in Inventory |-> sold[r] + items[o][r]]
          /\ reservation' = [reservation EXCEPT ![o] = IF HasInventory(items[o]) THEN "CONFIRMED"
                                                       ELSE reservation[o]]
      BY <1>4 DEF CommitApproval
    <2>2. reservation \in [Orders -> ReservationStatuses] /\ sold \in [Inventory -> Nat]
      BY DEF IndInv, TypeOK
    <2>3. CASE HasInventory(items[o])
      <3>1. ConfirmedOrders' = ConfirmedOrders \cup {o}
        BY <1>1, <2>1, <2>2, <2>3 DEF ConfirmedOrders
      <3>2. IsFiniteSet(ConfirmedOrders')
        BY <3>1, FS_AddElement DEF StockIsSum
      <3>3. ASSUME NEW r \in Inventory
            PROVE  sold'[r] = SumOver(UnitsOf(r)', ConfirmedOrders')
        <4>1. UnitsOf(r)' = UnitsOf(r) /\ \A x \in Orders : UnitsOf(r)[x] \in Int
          BY <1>1, ConstantsAssumption DEF UnitsOf, Quantities, Resources
        <4>2. SumOver(UnitsOf(r), ConfirmedOrders \cup {o}) = UnitsOf(r)[o] + SumOver(UnitsOf(r), ConfirmedOrders)
          BY <1>1, <1>2, <4>1, SumWith DEF ConfirmedOrders, StockIsSum
        <4>3. sold'[r] = sold[r] + items[o][r] /\ sold[r] \in Int /\ items[o][r] \in Int
          BY <1>1, <2>1, <2>2, <4>1 DEF UnitsOf
        <4>4. sold[r] = SumOver(UnitsOf(r), ConfirmedOrders) /\ UnitsOf(r)[o] = items[o][r]
          BY <1>1 DEF StockIsSum, UnitsOf
        <4>. QED BY <3>1, <4>1, <4>2, <4>3, <4>4
      <3>. QED BY <3>2, <3>3 DEF StockIsSum
    <2>4. CASE ~ HasInventory(items[o])
      <3>1. ConfirmedOrders' = ConfirmedOrders
        BY <1>1, <2>1, <2>2, <2>4 DEF ConfirmedOrders
      <3>2. \A r \in Inventory : sold[r] \in Nat /\ items[o][r] = 0
        BY <1>1, <2>2, <2>4, ConstantsAssumption DEF HasInventory, Quantities, Resources
      <3>3. sold' = sold
        BY <2>1, <2>2, <3>2
      <3>. QED BY <1>1, <3>1, <3>3, StockFrame DEF IndInv
    <2>. QED BY <2>3, <2>4
  <1>. QED BY <1>3, <1>4

\* Every step keeps the stock a sum.
LEMMA StockStep == ASSUME IndInv, StockIsSum, [Next]_vars PROVE StockIsSum'
  <1>. TypeOK /\ items \in [Orders -> Quantities] /\ reservation \in [Orders -> ReservationStatuses]
    BY DEF IndInv, TypeOK
  <1>1. ASSUME NEW h \in Handlers, NEW o \in Orders, Checkout(h, o) PROVE StockIsSum'
    <2>1. o \notin ConfirmedOrders
      BY <1>1 DEF Checkout, ConfirmedOrders, IndInv, OrderInv, StatusesAgree, UnpaidIsUntouched, Paid,
                  Returned, Refundable
    <2>2. sold' = sold /\ \A x \in Orders : x # o => items'[x] = items[x] /\ reservation'[x] = reservation[x]
      BY <1>1 DEF Checkout
    <2>3. reservation'[o] # "CONFIRMED"
      BY <1>1, <2>1 DEF Checkout, ConfirmedOrders
    <2>4. ConfirmedOrders' = ConfirmedOrders
      BY <2>1, <2>2, <2>3 DEF ConfirmedOrders
    <2>. QED BY <2>1, <2>2, <2>4, StockFrame DEF ConfirmedOrders
  <1>2. ASSUME NEW h \in Handlers, MarkAttemptRefundPending(h) \/ MarkOrderRefundPending(h) \/ PartialRefund(h)
        PROVE  StockIsSum'
    <2>1. UNCHANGED <<sold, items, reservation>>
      BY <1>2 DEF MarkAttemptRefundPending, MarkOrderRefundPending, PartialRefund, clubVars, windowVars
    <2>. QED BY <2>1, StockFrame DEF ConfirmedOrders
  <1>3. ASSUME NEW h \in Handlers, FullRefund(h) PROVE StockIsSum'
    <2>1. UNCHANGED <<sold, items, reservation>>
      BY <1>3 DEF FullRefund, windowVars
    <2>. QED BY <2>1, StockFrame DEF ConfirmedOrders
  <1>4. ASSUME NEW h \in Handlers, RejectOrder(h) PROVE StockIsSum'
    <2>1. UNCHANGED <<sold, items>>
      BY <1>4 DEF RejectOrder, clubVars
    <2>2. ConfirmedOrders' = ConfirmedOrders
      BY <1>4 DEF RejectOrder, ConfirmedOrders, IndInv, TypeOK, RequestTypeOK
    <2>. QED BY <2>1, <2>2, StockFrame
  <1>5. ASSUME NEW o \in Orders, ExpireOrder(o) PROVE StockIsSum'
    <2>1. UNCHANGED <<sold, items>>
      BY <1>5 DEF ExpireOrder, clubVars
    <2>2. ConfirmedOrders' = ConfirmedOrders
      BY <1>5 DEF ExpireOrder, ConfirmedOrders
    <2>. QED BY <2>1, <2>2, StockFrame
  <1>6. CASE CancelEvent
    <2>1. UNCHANGED <<sold, items, reservation>>
      BY <1>6 DEF CancelEvent, windowVars
    <2>. QED BY <2>1, StockFrame DEF ConfirmedOrders
  <1>7. CASE ~ OrderAction
    <2>1. UNCHANGED <<sold, items, reservation>>
      BY <1>7, OtherActions DEF orderVars
    <2>. QED BY <2>1, StockFrame DEF ConfirmedOrders
  <1>. QED BY <1>1, <1>2, <1>3, <1>4, <1>5, <1>6, <1>7, StockOfApproval DEF OrderAction

\* What was sold of a good is what the confirmed orders took of it, whatever
\* webhooks, expirations and refunds overlap (commerce.service.ts).
THEOREM ConfirmedStock == Spec => []StockIsBacked
  <1>1. Init => StockIsSum
    <2>. SUFFICES ASSUME Init PROVE StockIsSum
      OBVIOUS
    <2>1. ConfirmedOrders = {} /\ \A r \in Inventory : sold[r] = 0
      BY DEF Init, ConfirmedOrders
    <2>. QED BY <2>1, SumOfEmpty, FS_EmptySet DEF StockIsSum
  <1>2. IndInv /\ StockIsSum /\ [Next]_vars => StockIsSum'
    BY StockStep
  <1>3. IndInv /\ StockIsSum => StockIsBacked
    BY StockIsSumMeans
  <1>. QED BY <1>1, <1>2, <1>3, Invariance, PTL DEF Spec

-----------------------------------------------------------------------------
(***************************************************************************)
(* The refinement of OrderLifecycle                                        *)
(***************************************************************************)
-----------------------------------------------------------------------------
(* The refinement mapping.                                                 *)

phases == [o \in Orders |-> Phase(attempt[o], issued[o])]
left   == [r \in Inventory |-> Stock[r] - sold[r]]

\* The phases, by the status of the attempt and by whether the order was served.
LEMMA PhaseValues ==
  ASSUME NEW served \in Nat
  PROVE  /\ Phase("NONE", served) = "NONE" /\ Phase("PENDING", served) = "OPEN"
         /\ Phase("REJECTED", served) = "CLOSED" /\ Phase("CANCELLED", served) = "CLOSED"
         /\ Phase("EXPIRED", served) = "LAPSED"
         /\ \A status \in Refundable :
               /\ served > 0 => Phase(status, served) = "SERVED"
               /\ ~ (served > 0) => Phase(status, served) = "OWED"
         /\ Phase("REFUNDED", served) = "RETURNED" /\ Phase("CHARGEBACK", served) = "RETURNED"
  BY DEF Phase, Refundable

\* The initial states are initial states of the life.
LEMMA LifeBegins == Init => Lifecycle!Init
  <1>. SUFFICES ASSUME Init PROVE Lifecycle!Init
    OBVIOUS
  <1>1. phases = [o \in Orders |-> "NONE"]
    BY PhaseValues DEF Init, phases
  <1>2. left = Stock
    BY ConstantsAssumption DEF Init, left
  <1>. QED BY <1>1, <1>2 DEF Init, Lifecycle!Init, phases, left

\* A step that leaves the orders alone is a stutter.
LEMMA LifeStays ==
  ASSUME UNCHANGED <<attempt, issued, items, sold, refunded>> PROVE UNCHANGED Lifecycle!vars
  BY DEF Lifecycle!vars

\* A step that moves order o, and o alone.
Moves(o, status) ==
    /\ attempt' = [attempt EXCEPT ![o] = status]
    /\ UNCHANGED <<issued, sold>>

\* An order moves from one phase to another as its attempt and its rights do.
LEMMA PhaseMoves ==
  ASSUME TypeOK, NEW o \in Orders, NEW status \in AttemptStatuses, Moves(o, status)
  PROVE  /\ phases' = [phases EXCEPT ![o] = Phase(status, issued[o])]
         /\ left' = left
  <1>1. left' = left
    BY DEF Moves, left
  <1>2. \A p \in Orders : Phase(attempt[p], issued[p])' =
            IF p = o THEN Phase(status, issued[o]) ELSE Phase(attempt[p], issued[p])
    BY DEF Moves, TypeOK
  <1>3. phases' = [p \in Orders |-> Phase(attempt[p], issued[p])']
    BY DEF phases
  <1>. QED BY <1>1, <1>2, <1>3 DEF phases

-----------------------------------------------------------------------------
(* Each step of the code is a step of the life, or none.                   *)

\* Checkout opens the order.
LEMMA CheckoutOpens ==
  ASSUME TypeOK, OrderInv, NEW h \in Handlers, NEW o \in Orders, Checkout(h, o)
  PROVE  Lifecycle!Next
  <1>. DEFINE q == cart[Buyer[o]]
  <1>1. attempt[o] = "NONE" /\ issued[o] \in Nat
    BY DEF Checkout, OrderInv, StatusesAgree, TypeOK, AttemptStatuses, Paid, Refundable
  <1>2. q \in [Resources -> 0..MaxQty]
    BY ConstantsAssumption DEF TypeOK, Quantities
  <1>3. Moves(o, "PENDING") /\ items' = [items EXCEPT ![o] = q] /\ UNCHANGED refunded
    BY DEF Checkout, Moves
  <1>4. phases[o] = "NONE"
    BY <1>1, PhaseValues DEF phases
  <1>5. phases' = [phases EXCEPT ![o] = "OPEN"] /\ left' = left
    BY <1>1, <1>3, PhaseMoves, PhaseValues DEF AttemptStatuses
  <1>. HIDE DEF q
  <1>6. Lifecycle!Open(o, q)
    BY <1>3, <1>4, <1>5 DEF Lifecycle!Open, phases, left
  <1>. QED BY <1>2, <1>6 DEF Lifecycle!Next

\* A refusal closes the order, a lapse lapses it.
LEMMA RejectionCloses ==
  ASSUME TypeOK, OrderInv, NEW o \in Orders, NEW end \in Rejections, attempt[o] = "PENDING",
         Moves(o, end), UNCHANGED <<items, refunded>>
  PROVE  Lifecycle!Next
  <1>. DEFINE to == IF end = "EXPIRED" THEN "LAPSED" ELSE "CLOSED"
  <1>1. issued[o] \in Nat /\ end \in AttemptStatuses
    BY DEF TypeOK, AttemptStatuses, Rejections
  <1>2. phases[o] = "OPEN" /\ Phase(end, issued[o]) = to
    BY <1>1, PhaseValues DEF phases, Rejections
  <1>3. phases' = [phases EXCEPT ![o] = to] /\ left' = left
    BY <1>1, <1>2, PhaseMoves
  <1>4. to \in {"CLOSED", "LAPSED"}
    OBVIOUS
  <1>. HIDE DEF to
  <1>5. Lifecycle!Close(o, to)
    BY <1>2, <1>3 DEF Lifecycle!Close, phases, left
  <1>. QED BY <1>4, <1>5 DEF Lifecycle!Next

\* A refund under way is the same phase.
LEMMA RefundPendingStays ==
  ASSUME TypeOK, NEW h \in Handlers, MarkAttemptRefundPending(h) \/ MarkOrderRefundPending(h)
  PROVE  UNCHANGED Lifecycle!vars
  <1>1. UNCHANGED <<items, issued, sold, refunded>>
    BY DEF MarkAttemptRefundPending, MarkOrderRefundPending, clubVars
  <1>2. CASE attempt' = attempt
    BY <1>1, <1>2, LifeStays
  <1>3. CASE attempt' # attempt
    <2>1. PICK o \in Orders : o = order[h]
      BY DEF TypeOK, RequestTypeOK
    <2>2. attempt[o] = "APPROVED" /\ attempt' = [attempt EXCEPT ![o] = "REFUND_PENDING"]
      BY <1>3, <2>1 DEF MarkAttemptRefundPending, MarkOrderRefundPending, TypeOK
    <2>3. Moves(o, "REFUND_PENDING") /\ "REFUND_PENDING" \in AttemptStatuses
      BY <1>1, <2>2 DEF Moves, AttemptStatuses
    <2>4. Phase("REFUND_PENDING", issued[o]) = phases[o]
      BY <2>2, PhaseValues DEF phases, Refundable, TypeOK
    <2>5. phases' = [phases EXCEPT ![o] = phases[o]] /\ left' = left
      BY <2>3, <2>4, PhaseMoves
    <2>6. phases' = phases
      BY <2>5 DEF phases
    <2>. QED BY <1>1, <2>5, <2>6 DEF Lifecycle!vars, phases, left
  <1>. QED BY <1>2, <1>3

\* A refund, partial or whole, returns money of an order that was paid.
LEMMA RefundReturns ==
  ASSUME TypeOK, OrderInv, NEW o \in Orders, NEW cents \in 1..Amount, NEW status \in AttemptStatuses,
         Paid(o), refunded[o] < cents,
         \/ status = "PARTIALLY_REFUNDED" /\ cents # Amount
         \/ status \in {"REFUNDED", "CHARGEBACK"} /\ cents = Amount,
         Moves(o, status), refunded' = [refunded EXCEPT ![o] = cents], UNCHANGED items
  PROVE  Lifecycle!Next
  <1>1. issued[o] \in Nat
    BY DEF TypeOK
  <1>2. phases[o] \in {"SERVED", "OWED"}
    BY <1>1, PhaseValues DEF phases, Paid
  <1>3. Phase(status, issued[o]) = IF cents = Amount THEN "RETURNED" ELSE phases[o]
    BY <1>1, PhaseValues DEF phases, Paid, Refundable
  <1>4. phases' = [phases EXCEPT ![o] = IF cents = Amount THEN "RETURNED" ELSE @] /\ left' = left
    BY <1>3, PhaseMoves
  <1>5. Lifecycle!Return(o, cents)
    BY <1>2, <1>4 DEF Lifecycle!Return, phases, left
  <1>. QED BY <1>5 DEF Lifecycle!Next

\* A partial refund returns a part of the money (processPaymentEvent).
LEMMA PartialRefundReturns ==
  ASSUME TypeOK, OrderInv, NEW h \in Handlers, PartialRefund(h)
  PROVE  Lifecycle!Next \/ UNCHANGED Lifecycle!vars
  <1>1. PICK o \in Orders : o = order[h]
    BY DEF TypeOK, RequestTypeOK
  <1>2. PICK e \in Events : e = news[h]
    BY DEF TypeOK, RequestTypeOK
  <1>3. UNCHANGED <<items, issued, sold>>
    BY DEF PartialRefund, clubVars
  <1>4. CASE UNCHANGED moneyVars
    BY <1>3, <1>4, LifeStays DEF moneyVars
  <1>5. CASE ~ UNCHANGED moneyVars
    <2>1. /\ e.refunded - refunded[o] > 0 /\ e.refunded < Amount /\ ledger[o].sale
          /\ attempt' = [attempt EXCEPT ![o] = "PARTIALLY_REFUNDED"]
          /\ refunded' = [refunded EXCEPT ![o] = e.refunded]
      BY <1>1, <1>2, <1>5 DEF PartialRefund, RefundedSoFar
    <2>2. e.refunded \in 0..Amount /\ refunded[o] \in 0..Amount /\ Amount \in Nat
      BY EventTypes, ConstantsAssumption DEF TypeOK
    <2>3. PICK cents \in 1..Amount : cents = e.refunded /\ refunded[o] < cents /\ cents # Amount
      BY <2>1, <2>2
    <2>4. Paid(o)
      BY <2>1, <2>2 DEF OrderInv, LedgerAgrees
    <2>5. Moves(o, "PARTIALLY_REFUNDED") /\ "PARTIALLY_REFUNDED" \in AttemptStatuses
      BY <1>3, <2>1 DEF Moves, AttemptStatuses
    <2>. QED BY <1>3, <2>1, <2>3, <2>4, <2>5, RefundReturns
  <1>. QED BY <1>4, <1>5

\* A refund or a chargeback returns what is left of it.
LEMMA FullRefundReturns ==
  ASSUME TypeOK, OrderInv, NEW h \in Handlers, FullRefund(h)
  PROVE  Lifecycle!Next \/ UNCHANGED Lifecycle!vars
  <1>1. PICK o \in Orders : o = order[h]
    BY DEF TypeOK, RequestTypeOK
  <1>2. UNCHANGED <<items, issued, sold>>
    BY DEF FullRefund
  <1>3. CASE UNCHANGED moneyVars
    BY <1>2, <1>3, LifeStays DEF moneyVars
  <1>4. CASE ~ UNCHANGED moneyVars
    <2>. DEFINE status == news[h].outcome
    <2>1. /\ attempt[o] \in Refundable /\ status \in {"REFUNDED", "CHARGEBACK"}
          /\ attempt' = [attempt EXCEPT ![o] = status]
          /\ refunded' = [refunded EXCEPT ![o] = Amount]
      BY <1>1, <1>4 DEF FullRefund, Applying
    <2>2. refunded[o] \in 0..Amount /\ Amount \in Nat \ {0}
      BY ConstantsAssumption DEF TypeOK
    <2>3. Paid(o) /\ ~ Returned(o)
      BY <2>1 DEF Paid, Returned, Refundable
    <2>4. refunded[o] < Amount /\ Amount \in 1..Amount
      BY <2>2, <2>3 DEF OrderInv, LedgerAgrees
    <2>5. Moves(o, status) /\ status \in AttemptStatuses
      BY <1>2, <2>1 DEF Moves, AttemptStatuses
    <2>. HIDE DEF status
    <2>. QED BY <1>2, <2>1, <2>3, <2>4, <2>5, RefundReturns
  <1>. QED BY <1>3, <1>4

\* An approval serves the order, or leaves it owed.
LEMMA ApprovalServes ==
  ASSUME TypeOK, TypeOK', OrderInv, OrderInv', NEW h \in Handlers, CommitApproval(h),
         Settles(order[h], "APPROVED")
  PROVE  Lifecycle!Next
  <1>1. PICK o \in Orders : o = order[h]
    BY DEF TypeOK, RequestTypeOK
  <1>2. attempt[o] \in {"PENDING", "EXPIRED"} /\ issued[o] = 0
    BY <1>1 DEF Settles, OrderInv, UnpaidIsUntouched, Paid, Returned, Refundable
  <1>3. phases[o] = IF attempt[o] = "PENDING" THEN "OPEN" ELSE "LAPSED"
    BY <1>2, PhaseValues DEF phases
  <1>4. attempt' = [attempt EXCEPT ![o] = "APPROVED"] /\ UNCHANGED <<items, refunded>>
    BY <1>1 DEF CommitApproval
  <1>5. CASE Confirms(o, paidAt[h])
    <2>1. /\ issued' = [issued EXCEPT ![o] = @ + 1]
          /\ sold' = [r \in Inventory |-> sold[r] + items[o][r]]
      BY <1>1, <1>5 DEF CommitApproval
    <2>2. \A r \in Inventory : items[o][r] \in Nat /\ sold[r] \in Nat /\ Stock[r] \in Nat
      BY ConstantsAssumption DEF TypeOK, Quantities, Resources
    <2>3. \A r \in Inventory : items[o][r] <= left[r]
      BY <2>1, <2>2 DEF OrderInv, NeverOversold, left
    <2>4. attempt[o] = "EXPIRED" => \A r \in Inventory : items[o][r] = 0
      BY <1>5, <2>2 DEF Confirms, HasInventory, OrderInv, LapsedHoldsNothing, Rejections
    <2>5. left' = [r \in Inventory |-> left[r] - items[o][r]]
      BY <2>1, <2>2 DEF left
    <2>6. \A p \in Orders : Phase(attempt[p], issued[p])' =
              IF p = o THEN "SERVED" ELSE Phase(attempt[p], issued[p])
      <3>1. Phase("APPROVED", 1) = "SERVED"
        BY PhaseValues DEF Refundable
      <3>2. attempt'[o] = "APPROVED" /\ issued'[o] = 1
        BY <1>2, <1>4, <2>1 DEF TypeOK
      <3>3. \A p \in Orders : p # o => attempt'[p] = attempt[p] /\ issued'[p] = issued[p]
        BY <1>4, <2>1 DEF TypeOK
      <3>. QED BY <3>1, <3>2, <3>3
    <2>7. phases' = [phases EXCEPT ![o] = "SERVED"]
      BY <2>6 DEF phases
    <2>8. Lifecycle!Serve(o)
      BY <1>2, <1>3, <1>4, <2>3, <2>4, <2>5, <2>7 DEF Lifecycle!Serve, phases, left
    <2>. QED BY <2>8 DEF Lifecycle!Next
  <1>6. CASE ~ Confirms(o, paidAt[h])
    <2>1. Moves(o, "APPROVED") /\ "APPROVED" \in AttemptStatuses
      BY <1>1, <1>4, <1>6 DEF CommitApproval, Moves, AttemptStatuses
    <2>2. Phase("APPROVED", issued[o]) = "OWED"
      BY <1>2, PhaseValues DEF Refundable
    <2>3. phases' = [phases EXCEPT ![o] = "OWED"] /\ left' = left
      BY <2>1, <2>2, PhaseMoves
    <2>4. Lifecycle!Owe(o)
      BY <1>3, <1>4, <2>3 DEF Lifecycle!Owe, phases, left
    <2>. QED BY <2>4 DEF Lifecycle!Next
  <1>. QED BY <1>5, <1>6

\* Every step of the code is a step of the life, or changes nothing of it.
LEMMA LifeStep ==
  ASSUME IndInv, IndInv', [Next]_vars PROVE Lifecycle!Next \/ UNCHANGED Lifecycle!vars
  <1>. USE DEF IndInv
  <1>1. ASSUME NEW h \in Handlers, NEW o \in Orders, Checkout(h, o) PROVE Lifecycle!Next
    BY <1>1, CheckoutOpens
  <1>2. ASSUME NEW h \in Handlers, MarkAttemptRefundPending(h) \/ MarkOrderRefundPending(h)
        PROVE  UNCHANGED Lifecycle!vars
    BY <1>2, RefundPendingStays
  <1>3. ASSUME NEW h \in Handlers, PartialRefund(h)
        PROVE  Lifecycle!Next \/ UNCHANGED Lifecycle!vars
    BY <1>3, PartialRefundReturns
  <1>4. ASSUME NEW h \in Handlers, FullRefund(h)
        PROVE  Lifecycle!Next \/ UNCHANGED Lifecycle!vars
    BY <1>4, FullRefundReturns
  <1>5. ASSUME NEW h \in Handlers, RejectOrder(h) PROVE Lifecycle!Next
    <2>. DEFINE outcome == news[h].outcome
    <2>1. PICK o \in Orders : o = order[h]
      BY DEF TypeOK, RequestTypeOK
    <2>2. /\ outcome \in Rejections /\ attempt[o] = "PENDING" /\ Moves(o, outcome)
          /\ UNCHANGED <<items, refunded>>
      BY <1>5, <2>1 DEF RejectOrder, Applying, Settles, Rejections, Moves, clubVars
    <2>. HIDE DEF outcome
    <2>. QED BY <2>1, <2>2, RejectionCloses
  <1>6. ASSUME NEW h \in Handlers, CommitApproval(h) PROVE Lifecycle!Next
    <2>1. Settles(order[h], "APPROVED")
      BY <1>6 DEF CommitApproval, RequestInv, RequestOK
    <2>. QED BY <1>6, <2>1, ApprovalServes
  <1>7. ASSUME NEW o \in Orders, ExpireOrder(o) PROVE Lifecycle!Next
    <2>1. /\ "EXPIRED" \in Rejections /\ attempt[o] = "PENDING" /\ Moves(o, "EXPIRED")
          /\ UNCHANGED <<items, refunded>>
      BY <1>7 DEF ExpireOrder, Due, Rejections, Moves, clubVars
    <2>. QED BY <2>1, RejectionCloses
  <1>8. CASE CancelEvent
    BY <1>8, LifeStays DEF CancelEvent, moneyVars
  <1>9. CASE ~ OrderAction
    BY <1>9, OtherActions, LifeStays DEF orderVars
  <1>. QED BY <1>1, <1>2, <1>3, <1>4, <1>5, <1>6, <1>7, <1>8, <1>9 DEF OrderAction

\* The code implements the life of an order: it is served at most once, with
\* units that are left, and the money that comes back never exceeds what was paid.
THEOREM Implementation == Spec => ImplementsLifecycle
  BY LifeBegins, LifeStep, Invariance, PTL DEF Spec, ImplementsLifecycle, Lifecycle!Spec
=============================================================================
