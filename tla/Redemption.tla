------------------------------ MODULE Redemption ------------------------------
(***************************************************************************)
(* The rights of paid orders at the doors and bars of one event: codes     *)
(* scanned by several workers, uses reversed by an administrator, people   *)
(* counted in and out, while the orders may be refunded and the event      *)
(* cancelled.  CommerceService.validateCode, validateProductDelivery and   *)
(* reverseRedemption, CapacityService, and what EventsService and          *)
(* processPaymentEvent do to the rights.                                   *)
(*                                                                         *)
(* What a request reads before its transaction, or in it without a lock,   *)
(* is read in a step of its own.  A transaction that keeps every row it    *)
(* reads locked is one step.                                               *)
(*                                                                         *)
(* A definition under "Bug:" is used by no other: it takes the place of    *)
(* the one after it to show that a property notices the bug.               *)
(***************************************************************************)
EXTENDS Integers, FiniteSets

CONSTANTS
    Orders,         \* paid orders
    Tickets,        \* Ticket rows, all of the event
    Consumables,    \* ConsumableRight rows
    Deliveries,     \* ProductDelivery rows
    AtEvent,        \* the rights whose eventId is the event
    OrderOf,        \* OrderOf[r]: the order that bought right r
    Allocated,      \* sum of quantityTotal of the event's ticket types
    MaxCapacity,    \* bound on the capacity and on a corrected head count
    Staff,          \* concurrent requests of workers and administrators
    Keys,           \* idempotency keys of exits and corrections; bounds them
    MaxUses         \* bound on the validations of one right

Rights == Tickets \cup Consumables \cup Deliveries

ASSUME RedemptionAssumption ==
    /\ Rights # {} /\ IsFiniteSet(Tickets)
    /\ Tickets \cap Consumables = {} /\ Tickets \cap Deliveries = {}
    /\ Consumables \cap Deliveries = {}
    /\ Tickets \subseteq AtEvent /\ AtEvent \subseteq Tickets \cup Consumables
    /\ OrderOf \in [Rights -> Orders]
    /\ Allocated \in Nat /\ MaxCapacity \in Nat /\ Allocated <= MaxCapacity
    /\ MaxUses \in Nat

VARIABLES
    status,         \* RedeemableStatus of a right
    count,          \* redemptionCount (a delivery has none)
    usedAt,         \* usedAt is set
    revoked,        \* revokedAt is set
    validations,    \* validations[r]: audit entries VALIDATE_* / DELIVER_PRODUCT
    reversals,      \* reversals[r]: audit entries REVERSE_REDEMPTION
    audit,          \* the latest of them
    orderStatus,    \* Order.status
    completed,      \* the order has a COMPLETED refund request of its own
    event,          \* the event: OPEN allows redemption
    capacity,       \* Event.capacity
    occupancy,      \* EventOccupancy.currentCount
    reentry,        \* EventOccupancy.reentryAllowed
    move,           \* move[t]: type of the ticket's latest CapacityMovement
    exits,          \* exits[r]: its EXIT movements
    unnamed,        \* sum of the deltas of the movements that name no ticket
    keys,           \* idempotency keys of CapacityMovement rows
    pc,             \* pc[s]: what request s will do next
    right,          \* right[s]: the right it is about
    seen,           \* seen[s]: the counter and usedAt it read of it
    target          \* target[s]: the head count or capacity it will set

auditVars    == <<validations, reversals, audit>>
rightVars    == <<status, count, usedAt, revoked, auditVars>>
orderVars    == <<orderStatus, completed>>
movementVars == <<occupancy, move, exits, unnamed, keys>>
venueVars    == <<event, capacity, reentry, movementVars>>
requestVars  == <<pc, right, seen, target>>
vars == <<rightVars, orderVars, venueVars, requestVars>>

-----------------------------------------------------------------------------
(* Types.                                                                  *)

RightStatuses == {"AVAILABLE", "USED", "CANCELLED"}
OrderStatuses == {"PAID", "REFUND_PENDING", "PARTIALLY_REFUNDED", "REFUNDED"}
EventStates   == {"OPEN", "POSTPONED", "ENDED", "FINISHED", "CANCELLED"}
PCs           == {"idle", "confirm", "reverse", "correct", "resize"}

NoRight == CHOOSE r \in Rights : TRUE
Unseen  == [count |-> 0, used |-> FALSE]

-----------------------------------------------------------------------------
(* Helper state formulae.                                                  *)

\* Bug: the order is not looked at again.
AnyOrder(o) == TRUE

\* assertOrderAllowsRedemption.
OrderAllows(o) ==
    \/ orderStatus[o] = "PAID"
    \/ orderStatus[o] = "PARTIALLY_REFUNDED" /\ ~ completed[o]

\* eventAllowsRedemption, for the rights of an event.
EventAllows(r) == r \in AtEvent => event = "OPEN"

\* SELECT ... FOR UPDATE / FOR SHARE of the event's row, of its occupancy's row.
EventFree     == \A s \in Staff : pc[s] # "resize"
OccupancyFree == \A s \in Staff : pc[s] # "correct"

\* Bugs: a ticket that is inside enters again; the last place is given twice.
EntersAnyway(t) ==
    /\ move[t] = "EXIT" => reentry
    /\ occupancy < capacity
EntersWhenFull(t) ==
    /\ move[t] # "ENTRY"
    /\ move[t] = "EXIT" => reentry
    /\ occupancy <= capacity

\* What registerEntry demands; otherwise it throws.
CanEnter(t) ==
    /\ move[t] # "ENTRY"
    /\ move[t] = "EXIT" => reentry
    /\ occupancy < capacity

\* A refund or a cancellation takes back the rights of R that nobody used.
Revoke(R) ==
    LET taken == {r \in R : status[r] = "AVAILABLE"} IN
    /\ status' = [r \in Rights |-> IF r \in taken THEN "CANCELLED" ELSE status[r]]
    /\ revoked' = [r \in Rights |-> r \in taken \/ revoked[r]]
    /\ UNCHANGED <<count, usedAt, auditVars>>

Done(s) ==
    /\ pc' = [pc EXCEPT ![s] = "idle"]
    /\ right' = [right EXCEPT ![s] = NoRight]
    /\ seen' = [seen EXCEPT ![s] = Unseen]
    /\ target' = [target EXCEPT ![s] = 0]

-----------------------------------------------------------------------------
\* The orders were paid and their rights issued; nobody is inside.
Init ==
    /\ status = [r \in Rights |-> "AVAILABLE"]
    /\ count = [r \in Rights |-> 0]
    /\ usedAt = [r \in Rights |-> FALSE]
    /\ revoked = [r \in Rights |-> FALSE]
    /\ validations = [r \in Rights |-> 0]
    /\ reversals = [r \in Rights |-> 0]
    /\ audit = [r \in Rights |-> "NONE"]
    /\ orderStatus = [o \in Orders |-> "PAID"]
    /\ completed = [o \in Orders |-> FALSE]
    /\ event = "OPEN"
    /\ capacity \in Allocated..MaxCapacity
    /\ occupancy = 0
    /\ reentry = FALSE
    /\ move = [t \in Tickets |-> "NONE"]
    /\ exits = [r \in Rights |-> 0]
    /\ unnamed = 0
    /\ keys = {}
    /\ pc = [s \in Staff |-> "idle"]
    /\ right = [s \in Staff |-> NoRight]
    /\ seen = [s \in Staff |-> Unseen]
    /\ target = [s \in Staff |-> 0]

-----------------------------------------------------------------------------
(* Codes at the doors and bars.                                            *)

\* A delivery of products, or a right, that was neither used nor taken back.
Usable(r) == status[r] = "AVAILABLE" /\ ~ revoked[r]

\* validateCode or validateProductDelivery up to its transaction: the code is
\* one that may be used.  A code that is refused changes nothing.
Scan(s, r) ==
    /\ pc[s] = "idle"
    /\ Usable(r) /\ EventAllows(r)
    /\ pc' = [pc EXCEPT ![s] = "confirm"]
    /\ right' = [right EXCEPT ![s] = r]
    /\ seen' = [seen EXCEPT ![s] = [count |-> count[r], used |-> usedAt[r]]]
    /\ UNCHANGED target
    /\ UNCHANGED <<rightVars, orderVars, venueVars>>

\* The condition of the update: nobody used the right since it was read.
Unused(s, r) ==
    /\ status[r] = "AVAILABLE"
    /\ IF r \in Deliveries THEN ~ usedAt[r] ELSE count[r] = seen[s].count

\* Bug: a right that was used stays available until its counter is exceeded.
StaysAvailable(r, n) == IF r \in Deliveries \/ n > 1 THEN "USED" ELSE "AVAILABLE"

\* The status after a use, from the counter that was read (maxRedemptions is 1).
AfterUse(r, n) == IF r \in Deliveries \/ n >= 1 THEN "USED" ELSE "AVAILABLE"

\* The transaction: it locks the order, the event and the occupancy of the
\* event, in this order, and commits or leaves everything as it was.
Confirm(s) ==
    LET r    == right[s]
        uses == OrderAllows(OrderOf[r]) /\ EventAllows(r) /\ Unused(s, r)
                    /\ (r \in Tickets => CanEnter(r))
    IN
    /\ pc[s] = "confirm"
    /\ r \in AtEvent => EventFree
    /\ r \in Tickets => OccupancyFree
    /\ validations[r] < MaxUses
    /\ \/ /\ uses
          /\ status' = [status EXCEPT ![r] = AfterUse(r, seen[s].count + 1)]
          /\ count' = [count EXCEPT ![r] = IF r \in Deliveries THEN @ ELSE @ + 1]
          /\ usedAt' = [usedAt EXCEPT ![r] = TRUE]
          /\ validations' = [validations EXCEPT ![r] = @ + 1]
          /\ audit' = [audit EXCEPT ![r] = "VALIDATE"]
          /\ occupancy' = IF r \in Tickets THEN occupancy + 1 ELSE occupancy
          /\ move' = [t \in Tickets |-> IF t = r THEN "ENTRY" ELSE move[t]]
          /\ UNCHANGED <<revoked, reversals, exits, unnamed, keys>>
       \/ /\ ~ uses
          /\ UNCHANGED <<rightVars, movementVars>>
    /\ Done(s)
    /\ UNCHANGED <<orderVars, event, capacity, reentry>>

\* reverseRedemption reads the right, in its transaction but without a lock.
BeginReversal(s, r) ==
    /\ pc[s] = "idle"
    /\ IF r \in Deliveries THEN status[r] = "USED" ELSE count[r] >= 1
    /\ pc' = [pc EXCEPT ![s] = "reverse"]
    /\ right' = [right EXCEPT ![s] = r]
    /\ seen' = [seen EXCEPT ![s] = [count |-> count[r], used |-> usedAt[r]]]
    /\ UNCHANGED target
    /\ UNCHANGED <<rightVars, orderVars, venueVars>>

\* Bug: a reversal is written without its audit entry.
NotAudited(n) == n

\* One more audit entry.
Audited(n) == n + 1

\* Then the right is available again, whatever happened to it meanwhile.
CommitReversal(s) ==
    LET r == right[s] IN
    /\ pc[s] = "reverse"
    /\ status' = [status EXCEPT ![r] = "AVAILABLE"]
    /\ count' = [count EXCEPT ![r] = IF r \in Deliveries THEN @ ELSE @ - 1]
    /\ usedAt' = [usedAt EXCEPT ![r] =
                     r \notin Deliveries /\ seen[s].count # 1 /\ seen[s].used]
    /\ reversals' = [reversals EXCEPT ![r] = Audited(@)]
    /\ audit' = [audit EXCEPT ![r] = "REVERSE"]
    /\ Done(s)
    /\ UNCHANGED <<revoked, validations, orderVars, venueVars>>

-----------------------------------------------------------------------------
(* The people inside.                                                      *)

\* registerExit without a ticket: somebody left.
AnonymousExit(k) ==
    /\ k \notin keys
    /\ OccupancyFree
    /\ occupancy > 0
    /\ occupancy' = occupancy - 1
    /\ unnamed' = unnamed - 1
    /\ keys' = keys \cup {k}
    /\ UNCHANGED <<rightVars, orderVars, event, capacity, reentry, move, exits, requestVars>>

\* registerExit with a ticket: it may be used again if the event allows re-entry.
Exit(k, t) ==
    /\ k \notin keys
    /\ OccupancyFree
    /\ occupancy > 0
    /\ move[t] = "ENTRY"
    /\ occupancy' = occupancy - 1
    /\ move' = [move EXCEPT ![t] = "EXIT"]
    /\ exits' = [exits EXCEPT ![t] = @ + 1]
    /\ status' = [status EXCEPT ![t] = IF reentry /\ @ = "USED" THEN "AVAILABLE" ELSE @]
    /\ keys' = keys \cup {k}
    /\ UNCHANGED <<count, usedAt, revoked, auditVars, orderVars, event, capacity, reentry,
                   unnamed, requestVars>>

\* correct: it locks the occupancy and compares the target with the capacity.
BeginCorrection(s, k, n) ==
    /\ pc[s] = "idle"
    /\ k \notin keys
    /\ OccupancyFree
    /\ n <= capacity
    /\ keys' = keys \cup {k}
    /\ pc' = [pc EXCEPT ![s] = "correct"]
    /\ target' = [target EXCEPT ![s] = n]
    /\ UNCHANGED <<right, seen>>
    /\ UNCHANGED <<rightVars, orderVars, event, capacity, reentry, occupancy, move, exits,
                   unnamed>>

\* Bug: a correction is recorded with its target for its delta.
TargetAsDelta(n) == n

\* The delta of a correction to n.
CorrectionDelta(n) == n - occupancy

CommitCorrection(s) ==
    /\ pc[s] = "correct"
    /\ occupancy' = target[s]
    /\ unnamed' = unnamed + CorrectionDelta(target[s])
    /\ Done(s)
    /\ UNCHANGED <<rightVars, orderVars, event, capacity, reentry, move, exits, keys>>

\* configure.
Configure ==
    /\ OccupancyFree
    /\ reentry' = ~ reentry
    /\ UNCHANGED <<rightVars, orderVars, event, capacity, movementVars, requestVars>>

-----------------------------------------------------------------------------
(* The event and the orders.                                               *)

\* updateEvent with a capacity: it locks the event's row and compares the new
\* capacity with the tickets allocated and the people inside.
BeginResize(s, n) ==
    /\ pc[s] = "idle"
    /\ EventFree
    /\ n >= Allocated /\ n >= occupancy
    /\ pc' = [pc EXCEPT ![s] = "resize"]
    /\ target' = [target EXCEPT ![s] = n]
    /\ UNCHANGED <<right, seen>>
    /\ UNCHANGED <<rightVars, orderVars, venueVars>>

CommitResize(s) ==
    /\ pc[s] = "resize"
    /\ capacity' = target[s]
    /\ Done(s)
    /\ UNCHANGED <<rightVars, orderVars, event, reentry, movementVars>>

\* postponeEvent, rescheduleEvent, finishEvent; ENDED is a matter of the clock.
EventMoves == {<<"OPEN", "POSTPONED">>, <<"POSTPONED", "OPEN">>, <<"OPEN", "ENDED">>,
               <<"OPEN", "FINISHED">>, <<"ENDED", "FINISHED">>}

MoveEvent(to) ==
    /\ EventFree
    /\ <<event, to>> \in EventMoves
    /\ event' = to
    /\ UNCHANGED <<rightVars, orderVars, capacity, reentry, movementVars, requestVars>>

\* cancelEvent: the rights of the event that nobody used are revoked.  An event
\* with purchases is never reactivated.
CancelEvent ==
    /\ EventFree
    /\ event \notin {"FINISHED", "CANCELLED"}
    /\ event' = "CANCELLED"
    /\ Revoke(AtEvent)
    /\ UNCHANGED <<orderVars, capacity, reentry, movementVars, requestVars>>

\* requestOrderRefund, or the provider says that a refund is pending.
RequestRefund(o) ==
    /\ orderStatus[o] \in {"PAID", "PARTIALLY_REFUNDED"}
    /\ orderStatus' = [orderStatus EXCEPT ![o] = "REFUND_PENDING"]
    /\ UNCHANGED <<completed, rightVars, venueVars, requestVars>>

\* processPaymentEvent, PARTIALLY_REFUNDED: on request or at the provider's.
RefundPart(o, onRequest) ==
    /\ orderStatus[o] # "REFUNDED"
    /\ orderStatus' = [orderStatus EXCEPT ![o] = "PARTIALLY_REFUNDED"]
    /\ completed' = [completed EXCEPT ![o] = @ \/ onRequest]
    /\ UNCHANGED <<rightVars, venueVars, requestVars>>

\* processWalletRefund for one item of the cancelled event, not the whole order:
\* it takes the item's right back (reverseRedemption may have made it available).
RefundItem(r) ==
    LET o == OrderOf[r] IN
    /\ r \in AtEvent /\ event = "CANCELLED"
    /\ orderStatus[o] # "REFUNDED"
    /\ orderStatus' = [orderStatus EXCEPT ![o] = "PARTIALLY_REFUNDED"]
    /\ Revoke({r})
    /\ UNCHANGED <<completed, venueVars, requestVars>>

\* processPaymentEvent, REFUNDED or CHARGEBACK, or processWalletRefund of it all.
RefundAll(o) ==
    /\ orderStatus[o] # "REFUNDED"
    /\ orderStatus' = [orderStatus EXCEPT ![o] = "REFUNDED"]
    /\ Revoke({r \in Rights : OrderOf[r] = o})
    /\ UNCHANGED <<completed, venueVars, requestVars>>

-----------------------------------------------------------------------------
Next ==
    \/ \E s \in Staff, r \in Rights : Scan(s, r)
    \/ \E s \in Staff : Confirm(s)
    \/ \E s \in Staff, r \in Rights : BeginReversal(s, r)
    \/ \E s \in Staff : CommitReversal(s)
    \/ \E k \in Keys : AnonymousExit(k)
    \/ \E k \in Keys, t \in Tickets : Exit(k, t)
    \/ \E s \in Staff, k \in Keys, n \in 0..MaxCapacity : BeginCorrection(s, k, n)
    \/ \E s \in Staff : CommitCorrection(s)
    \/ Configure
    \/ \E s \in Staff, n \in 0..MaxCapacity : BeginResize(s, n)
    \/ \E s \in Staff : CommitResize(s)
    \/ \E to \in EventStates : MoveEvent(to)
    \/ CancelEvent
    \/ \E o \in Orders : RequestRefund(o)
    \/ \E o \in Orders, onRequest \in BOOLEAN : RefundPart(o, onRequest)
    \/ \E r \in Rights : RefundItem(r)
    \/ \E o \in Orders : RefundAll(o)

Spec == Init /\ [][Next]_vars

-----------------------------------------------------------------------------
(* Properties.                                                             *)

\* Every variable has its type (the columns and enums of the schema).
RedemptionTypeOK ==
    /\ status \in [Rights -> RightStatuses]
    /\ count \in [Rights -> Int]
    /\ usedAt \in [Rights -> BOOLEAN]
    /\ revoked \in [Rights -> BOOLEAN]
    /\ validations \in [Rights -> Nat]
    /\ reversals \in [Rights -> Nat]
    /\ audit \in [Rights -> {"NONE", "VALIDATE", "REVERSE"}]
    /\ orderStatus \in [Orders -> OrderStatuses]
    /\ completed \in [Orders -> BOOLEAN]
    /\ event \in EventStates
    /\ capacity \in 0..MaxCapacity
    /\ occupancy \in 0..MaxCapacity
    /\ reentry \in BOOLEAN
    /\ move \in [Tickets -> {"NONE", "ENTRY", "EXIT"}]
    /\ exits \in [Rights -> Nat]
    /\ unnamed \in Int
    /\ keys \subseteq Keys
    /\ pc \in [Staff -> PCs]
    /\ right \in [Staff -> Rights]
    /\ seen \in [Staff -> [count : Int, used : BOOLEAN]]
    /\ target \in [Staff -> 0..MaxCapacity]

\* Every use of a right beyond its first was allowed by a reversal or by a
\* registered exit: whatever the doors raced for, nobody is served for nothing
\* (validateCode, reverseRedemption, registerExit).
UsesAreJustified ==
    \A r \in Rights : validations[r] <= 1 + reversals[r] + exits[r]

\* "A ticket represents exactly one person": with one ticket somebody is inside
\* or nobody, also when its entry was reversed (registerEntry, registerExit).
OnePersonPerTicket ==
    \A t \in Tickets :
        validations[t] = exits[t] + (IF move[t] = "ENTRY" THEN 1 ELSE 0)

\* The head count is what the history of movements says: the tickets inside and
\* the movements that name none.
Inside == {t \in Tickets : move[t] = "ENTRY"}

OccupancyReconciles == occupancy = Cardinality(Inside) + unnamed

\* A right that was revoked is never used, not even one whose reversal, begun
\* before, made it AVAILABLE again.
RevokedIsNeverUsed ==
    [][\A r \in Rights : revoked[r] => validations'[r] = validations[r]]_vars

\* Nobody enters beyond the capacity, even while the capacity is being lowered.
EntriesRespectCapacity ==
    [][\A t \in Tickets : validations'[t] # validations[t] => occupancy' <= capacity']_vars

-----------------------------------------------------------------------------
(* Why it is so: the strengthening that makes the invariants inductive.     *)

\* The counter is what the audit trail says, even when it is negative.
CountsAreAudited ==
    \A r \in Rights \ Deliveries : count[r] = validations[r] - reversals[r]

\* A right that is available has a use left, by its first use, a reversal or an exit.
AvailableHasUseLeft ==
    \A r \in Rights : status[r] = "AVAILABLE" => validations[r] <= reversals[r] + exits[r]

\* What revoked a right stands.
RevocationStands ==
    \A r \in Rights :
        revoked[r] => \/ orderStatus[OrderOf[r]] = "REFUNDED"
                      \/ r \in AtEvent /\ event = "CANCELLED"

RedemptionInv ==
    /\ RedemptionTypeOK
    /\ UsesAreJustified /\ OnePersonPerTicket /\ OccupancyReconciles
    /\ CountsAreAudited /\ AvailableHasUseLeft /\ RevocationStands

-----------------------------------------------------------------------------
(* What the repository says and this code does not do.                     *)

\* "Un derecho de consumo usado no puede volver a validarse"
\* (docs/03-business-rules.md:70): after its validation it is not available.
UsedRightIsSpent ==
    \A r \in Consumables : audit[r] = "VALIDATE" => status[r] # "AVAILABLE"
=============================================================================
