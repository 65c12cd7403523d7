# Night Club API: a verification development

TLA+ models of the Night Club API (NestJS, PostgreSQL through Prisma, Mercado
Pago), the TLC configurations that check them on small instances, and theorems
about them checked by TLAPS. The reference is the code under `src/`; every
definition that models code names its lines in `PROJECT.json` ("map").

## 1. The system

A customer buys tickets, products and promotions of a club. The purchase is an
`Order` with one `PaymentAttempt` and one `InventoryReservation` per ticket or
product line. Payment is external (Mercado Pago), from the Beerry wallet, or
simulated; it is confirmed asynchronously by webhooks and polls. A paid order
gives rights (tickets, deliveries, consumable rights) that staff redeem at the
door or the bar. Money is kept in a double-entry ledger; referrers earn rewards
that become lots of a wallet; clubs withdraw what they sold; cancelled events
are refunded or replaced. Several instances of the API run at once and share
only the database: every request and every timer can interleave with any other
between two transactions, and, at PostgreSQL's READ COMMITTED, between two
statements wherever no lock forbids it.

| part (under `src/src/modules`) | state | operations | what is hard, and what makes it correct |
|---|---|---|---|
| commerce: checkout and settlement | Order, OrderItem, PaymentAttempt, InventoryReservation, PaymentProviderEvent, Cart | cart updates, checkout, getPayment, processPaymentEvent, expirePendingPayments | duplicated, late and reordered payment events, crashes between transactions, lapsing reservations: nothing oversold, one answer per payment, no news lost |
| commerce: redemption | Ticket, ProductDelivery, ConsumableRight, AuditLogEntry | validateCode, validateProductDelivery, reverseRedemption | two doors scan one code, a reversal or a refund races with a scan: a right is used at most its number of times |
| commerce: refunds | RefundRequest, EventRefundJob, EventRefundAuthorization | requestOrderRefund, processRefundRequest, EventRefundWorker | leases that end, answers lost after the provider acted: no more than the payment is given back, every job is decided |
| commerce: replacement | EventCancellation, EventReplacementMapping, EventReplacementAcceptance, EventBuyerRefundRequest, replacementReserved | configure, accept, requestReplacementRefund and the reviews | decisions on snapshots: stock held for somebody who can still accept; old QRs stay cancelled, new ones are given once |
| commerce: cart and deliveries | Cart, CartItem, ProductDelivery | add, update and delete items, updateProductDelivery, checkout, buildProductDeliveryPlan | several devices on one cart: an order is of one club, what was bought is handed over once |
| commerce: top-ups | WalletTopUp, PaymentAttempt, PaymentProviderEvent | createWalletTopUp, processWalletTopUpEvent, expireWalletTopUp, reconcileWalletTopUp | credited once when paid, closed in the end |
| wallets: ledger, withdrawals | LedgerTransaction, FinancialAccount, WithdrawalRequest | postSale, reverseSale, reverseSalePartial, moveClubFunds, request, review, markPaid, markFailed | overlapping decisions: buckets are what the postings say, held money is let go of once |
| referrals and wallet | ReferralReward, Wallet, WalletCreditLot, WalletCreditConsumption | createRewardForPaidOrder, processDueRewards, consumeWalletBalance, restoreOrderCredits, transfer | different locks over the same lots: the balance is its movements of credit; what a purchase took is given back once |
| events | Event, EventStatusHistory, EventOccupancy, CapacityMovement | create, update, publish, startSale, cancel, postpone, reschedule, registerEntry, registerExit | transitions and edits that race with sales; tickets follow their event; occupancy between 0 and the capacity |
| notification | Notification, NotificationDelivery, DeviceToken | notifyFromTemplate, dispatchPendingDeliveries, list, markRead, markAllRead | claims of a minute, checkpoints, several instances; pages of an inbox that fills and is read meanwhile |
| identity | User, RefreshToken, PhoneVerificationCode | register, login, refresh, logout, resetPassword | rotation under concurrent use, bounded guesses |
| uploads | Upload, PendingFileDeletion | presign, confirm, consume, cleanup | cleanup of what is in use |
| featured campaigns | FeaturedCampaign | createCheckout, processFeaturedCampaignEvent, expireFinishedCampaigns | overlap, late payments |
| payments: seller connection | MarketplaceSellerConnection, MarketplaceOAuthState | start, callback, accessTokenForClub, disconnect | single-use state, rotating tokens |
| audit | AuditLogEntry | record, verifyIntegrity | a hash chain per scope, written by clocks that disagree |
| clubs: discovery | Club, Event, TicketType as read | home, nearby catalog, exploration, pages of a club and an event | pages computed from a database that moves on; five places that decide what is available |
| clubs: staff; business access | ClubWorker, WorkerAuthorizedDevice, WorkerShift; BusinessAccessRequest, ClubAdmin | shifts and devices; approve, reject | decisions on what was read before |
| prelaunch | PreLaunchLead, PreLaunchOtp, LaunchMarket, PreLaunchPartner | register, recover, send and verify codes; defaults, markets, applications | hardly any transaction: requests stop between all reads and writes |
| tickets, products, promotions | TicketType, Product, Promotion, PromotionItem | create, update, activate, deactivate, delete | edits of what is being sold |
| platform | PlatformSettings, Club.marketplaceFeeBps, User.role and status | updateSettings, updateGlobal, updateClub, resolve | neither lock nor transaction: two administrators write one document, entries of the audit log come after the writes |
| users, health | profiles, probes | CRUD | little protocol |

The parts meet in the database. Checkout and settlement call the ledger
(`postSale`, reversals) and the referrals (reward, credits) inside their
transactions; cancelling an event meets settlement on the event's row lock;
redemption and refunds meet on the order's row lock; the timers of commerce,
referrals, refunds, notifications and uploads run in every instance.

The hazards of each part, at their lines, are listed in `PROJECT.json`.

## 2. What is modelled

### OrderPayment: one purchase, from the cart to the money returned

Constants choose the customers, orders, resources, amounts, the moves of the
provider and the bounds. The variables are the columns the protocol reads and
writes, and one program counter per concurrent request:

| variables | code |
|---|---|
| `cart`, `items` | CartItem, OrderItem (quantities) |
| `orderStatus`, `attempt`, `refunded`, `expiresAt` | Order.status, PaymentAttempt.status, refundedAmountCents, expiresAt |
| `reservation`, `sold` | InventoryReservation.status; quantitySold of a ticket type, what was taken from stockQuantity of a product |
| `ledger` | the postings of the order: the sale, cents and fee reversed, and the references used |
| `rights`, `issued`, `review`, `reward` | Ticket / ProductDelivery / ConsumableRight status, runs of issueOrderResources, a RefundRequest UNDER_REVIEW, ReferralReward |
| `event` | Event.status of the one event of the instance |
| `payment`, `finished` | the provider's payment; PaymentProviderEvent rows PROCESSED or IGNORED |
| `pc`, `order`, `news`, `snap`, `paidAt` | where a request is and the local values it still uses |
| `now`, `crashes` | the clock, and a counter that bounds the crashes |

A PostgreSQL transaction is one step unless it can wait for a lock after it has
read something it uses later. Settlement of an approval is therefore two steps
(`BeginApproval` takes the order's lock and reads the time of payment,
`CommitApproval` has waited for the resources), and everything else that locks
the order waits in between (`LockFree`). Statements outside transactions are
steps of their own: the first read of the attempt, the insertion of the event's
row, the two updates of `REFUND_PENDING`, `finishProviderEvent`.

| actions | code |
|---|---|
| `SetCartItem` | addCartItem, updateCartItem, deleteCartItem |
| `Checkout`, `CreatePayment`, `PaymentCreationFails` | checkout: its transaction, then the gateway |
| `ReceiveEvent`, `ReadAttempt`, `RecordEvent`, `FinishEvent` | the webhook or poll and the frame of processPaymentEvent |
| `IgnorePending`, `MarkAttemptRefundPending`, `MarkOrderRefundPending` | outcomes PENDING and REFUND_PENDING |
| `IgnorePartialRefund`, `PartialRefund`, `FullRefund`, `RefundThrows` | PARTIALLY_REFUNDED, REFUNDED, CHARGEBACK, and the errors they end in |
| `SettleNothing`, `RejectOrder`, `BeginApproval`, `CommitApproval` | the transaction that decides a pending order, with confirmOrderReservations, issueOrderResources, postSale and createRewardForPaidOrder |
| `ExpireOrder` | expirePendingOrders, one attempt of its batch |
| `CancelEvent` | EventsService.cancelEvent |
| `ProviderUpdate`, `ProviderTouch`, `Tick`, `Crash` | the environment: the provider, the clock, an instance that dies |

Abstractions, and why they lose nothing the properties tell apart. The lines of
an order share one reservation status because the code creates, confirms,
releases and lapses them together. All payments of an instance have one amount
and one fee. The lookups before the transactions (club, availability windows,
prices, permissions) decide whether a request is refused before it changes
anything. A payment is read from the provider in one step, in which the code
builds the event it then processes. A deadlock that PostgreSQL breaks, a lost
connection or a dead instance are the same thing here: the request ends where
it is and its open transaction is rolled back (`Crash`).

### OrderLifecycle: what a purchase promises

An order is OPEN, then CLOSED, LAPSED, SERVED or OWED, then RETURNED; units
leave the stock exactly when it is SERVED; the money returned only grows, and
only of an order that was served or is owed. `OrderPayment` implements it under
`ImplementsLifecycle`: phases come from the attempt's status and `issued`, the
units left from `Stock` and `sold`.

### Redemption: the rights of paid orders at the doors of an event

It begins where `OrderPayment` ends: the orders are paid and their rights
issued. What `OrderPayment` does to an order afterwards appears as the three
refund actions, with only what the doors read of it (`orderStatus`,
`completed`).

| variables | code |
|---|---|
| `status`, `count`, `usedAt`, `revoked` | the columns status, redemptionCount, usedAt, revokedAt of Ticket, ConsumableRight and ProductDelivery |
| `validations`, `reversals`, `audit` | AuditLogEntry rows of a right: how many of each kind, and the latest |
| `orderStatus`, `completed` | Order.status (REFUNDED stands for CHARGEBACK too); a COMPLETED RefundRequest without an event job |
| `event`, `capacity`, `occupancy`, `reentry` | Event.status with the end of the event, Event.capacity, EventOccupancy |
| `move`, `exits`, `unnamed`, `keys` | CapacityMovement: the latest of a ticket, its exits, the sum of those that name no ticket, the idempotency keys used |
| `pc`, `right`, `seen`, `target` | where a request is and the values it read |

| actions | code |
|---|---|
| `Scan`, `Confirm` | validateCode and validateProductDelivery: up to the transaction, and the transaction with registerEntry |
| `BeginReversal`, `CommitReversal` | reverseRedemption: its unlocked read, then its update |
| `AnonymousExit`, `Exit`, `Configure` | registerExit without and with a ticket, configure |
| `BeginCorrection`, `CommitCorrection` | correct: under the lock of the occupancy it reads the capacity, then writes |
| `BeginResize`, `CommitResize` | updateEvent with a capacity: under the lock of the event it reads the occupancy, then writes |
| `MoveEvent`, `CancelEvent` | postpone, reschedule, finish, the end of the event; cancel |
| `RequestRefund`, `RefundPart`, `RefundItem`, `RefundAll` | requestOrderRefund; partial refunds; the refund of one item of a cancelled event; full refunds and chargebacks |

`Confirm` is one step because its transaction holds the locks of everything it
reads: the order FOR UPDATE, the event FOR SHARE, the occupancy FOR UPDATE; the
right itself is updated under a condition. Where a transaction reads without a
lock (`reverseRedemption`, `correct`, `updateEvent`) it is two steps, and others
wait for the lock it holds (`EventFree`, `OccupancyFree`).

Abstractions. The permission of a worker, the signature of a code and its
window of validity only decide whether a request is refused before it changes
anything. `maxRedemptions` is 1: nothing in the code sets another value. The
latest movement of a ticket is found by `createdAt`; the clocks of the instances
are taken to agree on the order of the movements of one ticket.

### RefundRequests: the refunds of one order

It begins when an order paid through Mercado Pago has an event that was
cancelled and whose refunds were authorized. Staff ask for refunds, an
administrator processes them, and `EventRefundWorker` gives back the items of
the event by jobs; all of them meet in the requests of the order and in what the
provider did under the key of each.

| variables | code |
|---|---|
| `orderStatus`, `refunded` | Order.status, PaymentAttempt.refundedAmountCents |
| `spent`, `otherUsed` | a used right of an item of the event, or of another item of the order |
| `status`, `asked`, `approved`, `external` | RefundRequest: status, requestedAmountCents, approvedAmountCents (0 for null), whether externalRefundId is set |
| `job`, `link`, `cents`, `noted`, `attempts`, `holder`, `due` | EventRefundJob: status, refundRequestId, amountCents, whether it has a manualReviewNote, attempts, who holds the leaseToken, whether nextRunAt has come |
| `refund`, `refundCents`, `accepted`, `confirmed`, `reports` | the provider: the refund under the key of a request and its amount, the cents it accepted and approved, the totals its notifications carry |
| `proc` | where a worker or a request of an administrator is, and the values it read |

| actions | code |
|---|---|
| `RequestRefund` | requestOrderRefund |
| `AdminProcess`, `AdminReconcile` | processRefundRequest and processUnallocated, called by an administrator |
| `ReadRequest`, `ClaimRequest`, `Send`, `RecordRefund`, `FailRequest` | processRefundRequest: its reads, the transaction that claims the request, the call of the provider, the update after it, the catch |
| `QueryRefund`, `SettleVerified`, `CloseRequest` | reconcileEventRefund: the question to the provider, processPaymentEvent, the transaction that completes the request |
| `Discover`, `TakeJob`, `BeginJob`, `LinkRequest`, `LookAtRequest`, `AfterSend`, `CompleteJob`, `FinishJob` | discover, tick, and process with complete and finish |
| `StatementFails` | the catch of process, after a statement that failed anywhere in it |
| `Review` | review |
| `Webhook`, `ProviderApproves`, `PanelRefund`, `UseRight`, `BecomesDue`, `Crash` | the environment: notifications, the provider, the seller's panel, a door, time, an instance that dies |

Abstractions. What is read of one request before its transaction is one step:
nothing is written in between and the transaction checks the status that was
read again. `holder` and `due` stand for leaseToken and nextRunAt; `Slow` says
whether a worker may still run when the 5 minutes of its lease are over. Beyond
`RetryLimit` `attempts` only has to be beyond it. The provider knows one refund
per key, accepts it if the rest of the payment allows, and never returns more
than was paid; a refund of the whole payment of which something was returned in
the panel is taken to be refused. Every answer can be lost, and `queryRefund`
can fail. Wallet payments (`processWalletRefund`) and the replacement stock that
`complete` and `tick` release are in `Wallet` and `EventResolution`.

### The parts of the runs events, timers and platform

Each module names in its header the service it is about and where its requests
stop; its variables are commented with the columns they stand for, its actions
have the names of the methods, with Begin and Commit (or Read, Check, Write)
where another request can come in between. Values that a property cannot tell
apart are left out: names, texts, pictures, distances, hashes (a hash is what it
is computed from), signatures.

| module | code | where a request stops |
|---|---|---|
| `EventResolution` | EventsService (status, cancellation, requests of buyers), EventReplacementService, discover, complete and releaseClosedReplacementCapacity of EventRefundWorker | configure and accept are SERIALIZABLE and wait for locks with their snapshot taken; requestReplacementRefund reads the item before its lock |
| `EventDates` | createEvent, updateEvent, postponeEvent, rescheduleEvent; what checkout and approval read of the dates | updateEvent reads twice before it locks |
| `TopUps` | createWalletTopUp, processWalletTopUpEvent, expireWalletTopUp, reconcileWalletTopUp | recording the event, applying it, finishing it |
| `PushOutbox` | NotificationService, the channel of Firebase | read, claim, preparation, each batch and its checkpoint, the end |
| `Uploads` | UploadsService, UploadsCleanupService, the edit of a profile | confirm and edit read first; the cleanup lists, erases the object, deletes the row |
| `Wallet` | ReferralsService, processWalletRefund, what processPaymentEvent does to wallets | a transaction reads lots, and commits the remainders it computed |
| `Withdrawals` | WithdrawalsService, moveClubFunds | a decision reads, then writes whatever the status has become |
| `Ledger` | the postings of LedgerService, postRewardLedger and reverseRewardLedger | a posting looks for its reference, then creates it; refunds hold the lock of their order |
| `Campaigns` | FeaturedCampaignsService, processFeaturedCampaignEvent | overlap, creation, provider, undo; the read of the attempt |
| `SellerConnection` | SellerConnectionService | every await |
| `Sessions` | AuthService, TokenService | around bcrypt, between the token issued and the one revoked |
| `Prelaunch` | the leads of PreLaunchService | every read and every write |
| `LaunchMarkets` | ensureDefaults, upsertMarket, resolveMarket, applications and their publication | each upsert of a start; each write of a publication |
| `AuditLog` | AuditService.record, verifyIntegrity, the services that write entries themselves | between the latest entry and the new one, under the advisory lock |
| `Staff` | ClubWorkersService | startShift checks, checks again, opens |
| `BusinessAccess` | BusinessAccessService | approve and reject read, then write |
| `Stock` | TicketsService, ProductsService, the trigger of migration 20260909000400 | an edit reads, then writes |
| `Promotions` | PromotionsService, the prices and rights of a promotion | an edit reads and computes, then writes |
| `Discovery` | ClubsService for customers; the cart's and the checkout's own checks | between two pages |
| `Cart` | the cart of CommerceService, buildProductDeliveryPlan | transactions that read the cart without a lock |
| `PlatformAdmin` | PlatformService, MarketplaceFeeService | what a request reads, what it writes and its entry of the audit log: there is no transaction |
| `Inbox` | list, markRead and markAllRead of NotificationService | between two pages |

What the code does that a reader of its documents might not expect, seen while
modelling; the properties state what holds besides.

* `Wallet`. `docs/03-business-rules.md:94` says that a balance is computed from the
  confirmed movements; it is not. `processPaymentEvent` writes a COMPLETED movement
  PURCHASE of minus the amount for every approval that is not of the wallet
  (`commerce.service.ts:1415-1427`), of what is left to pay of an order bought partly
  with credit too, and a COMPLETED movement REFUND of what was left when a payment
  is refunded in full or charged back (`commerce.service.ts:1352-1369`); neither
  touches `balanceCents`, and a refund in part writes no movement at all, so the two
  do not even cancel out. The model has all of these movements: `moved` are those of
  credit, which `Move` writes with the balance, `outside` those of payments at the
  gateway, which `MoveOutside` writes without it. `BalanceIsCredit` says what is true:
  a balance is the sum of the first, and the second are each payment once as it was
  approved and once as what was left of it was returned. Orders paid partly with
  credit come from the simulator alone (checkout refuses the mixture for Mercado
  Pago), which reports no partial refund of them.
  Two refunds overlapping an expiry or a transfer leave a balance that is not the sum
  of its lots, which is why the property is about movements. A reversal
  takes the whole reward from the balance when only part of it remained in the
  lot. Successive partial refunds may give back a cent more than their share
  (`RefundFollowsPurchase` bounds it by what was taken). A wallet order that
  lapses because its instance died does not get its credit back. The monthly
  limit of a transfer is read without a lock in common with other wallets.
* `TopUps`. A top-up approved after its window is credited, as
  `docs/15-mercado-pago-migration.md:75` says; one refused first and approved
  later on the same preference is acknowledged and not credited
  (`ProcessedIsApplied`). What happens to the payment after it was credited is left
  out: the properties are about crediting.
* `Withdrawals`. No code moves what was sold from PENDING to AVAILABLE; the model
  starts from available funds, as `withdrawals.integration.spec.ts:81` does. Two
  decisions of one request that overlap may both post and use up what another
  request holds; `OpenIsReserved` excuses exactly the requests so contested.
* `Campaigns`. Two checkouts of one target at once make two campaigns; an
  approval that finds the campaign lapsed or refused does not activate it. A payment
  that was approved can be refunded or charged back (`ChargeReturned`), and
  `processFeaturedCampaignEvent` returns when the attempt is no longer pending
  (`commerce.service.ts:2123`): the campaign stays ACTIVE on the home. So
  `CampaignIsItsPayment` says only that the provider approved what is shown, at some
  time; a return that is heard before the approval was applied refuses the campaign.
* `EventResolution`. `reactivateEvent` asks for an event without a cancellation
  and the change of status for one that is CANCELLED, which always has one: it
  cannot succeed and is no action. Nothing writes SOLD_OUT or IN_PROGRESS. A buyer
  whose refusal was read before the lock, and who accepted meanwhile, has both;
  `discover` finds an authorized one through the item's event, which has moved,
  so such a refund is never executed. A configure with an old snapshot can miss a
  reservation of the replacement.
* `EventDates`. An edit with one date takes the other from its first read, so a
  date written between its two reads is lost. A ticket bought before an event
  moved to a longer night closes earlier than one bought after. An order closed
  at a rescheduling and paid late is not told of the dates. `updatedAt` has
  milliseconds: two edits in one are taken not to happen.
* `PushOutbox`. A stalled instance whose claim was taken over may add devices to
  the first recipients, contrary to the comment at `notification.service.ts:404`;
  `OnlyFirstRecipients` is for claims that end with their holders, `MaxOverruns`
  lets one not do so.
* `Uploads`. Two confirmations of one upload, or two edits of one place at once,
  may leave an image in two places or an object nobody shows; so may updateClub.
* `SellerConnection`. A refresh in flight, or a callback that claimed its link,
  brings a disconnected account back. Of two refreshes the loser may mark
  REAUTHORIZATION_REQUIRED after the winner succeeded. A callback that dies leaves
  its link used and no connection.
* `Sessions`. Two refreshes of one token both succeed; more guesses of a code
  than the limit are taken only from requests served at once.
* `Prelaunch`. Registering again within a minute replaces the token but sends no
  code. An undelivered newest code hides an older good one. Overlapping sends may
  consume each other's code. A registration that read the phone before it was
  verified sets it back to PENDING_OTP. Nothing writes BLOCKED.
* `LaunchMarkets`. Each start maps the department of a seed to it again; a seed
  whose slug was edited is made again, the fallback too. A district mapped without
  its ubigeoCode is shown in the detail of its market and never resolved. A
  rejected application keeps the partner it was published as.
* `AuditLog`. A log nobody touched may be reported invalid when an entry without a
  hash follows one that has it; `ChainIsSound` excludes that.
* `Staff`. A removed worker keeps the role WORKER; two starts at once open two
  shifts (`slipped`).
* `BusinessAccess`. approve and reject write unconditionally after their read; two
  approvals of a new club at once make two (the unique index of migration
  20260906120000 is on open requests).
* `Stock`. Activation ignores what is held for a replacement; SOLD_OUT stays when a
  reservation is freed. A ticket type with only pending orders can be deleted, and
  then `hasCommercialHistory` does not see them.
* `Promotions`. A promotion can be deleted while an order of it is pending; its
  approval then fails on the foreign key and is retried for ever
  (`commerce.service.ts:1663`, `promotions.service.ts:279`). Prices are those of
  the last edit of the items; a manual price may exceed the base.
* `Discovery`. The club's page shows units that are reserved
  (`clubs.service.ts:1245`). The home counts a postponed event as content, the
  club's page does not. A page number skips an event when one before it ends; a
  catalog edited between two pages may skip or repeat.
* `Cart`. Two additions at once mix clubs, and checkout refuses the cart
  (MULTI_CLUB_CHECKOUT), or leave it without a club. Two checkouts of one cart make
  two orders. An approval takes what was bought from a line, though an edit that
  raced with it lowered the line (`commerce.service.ts:1510`): the line is zero or
  less, a later checkout copies it, and the plan of a separate delivery hands over
  nothing for it. `HandedOverAsOrdered` speaks of lines that ask for something, and
  `CartIsSound` says that all lines do of orders with which no edit raced.
* `Ledger`. A sale paid in part by promotional credit and refunded in parts leaves
  the credit with the club, where a refund in one piece leaves nothing. A simulated
  payment refunded in parts gives back neither commission nor provider cost.
* `PlatformAdmin`. updateSettings stores a fee that is not valid, after which every
  resolve fails, and updateGlobal too, which reads before it writes. A
  commissionPercentage set when there is a fee in basis points is not read.
  updateGlobal deletes it, and what the ledger reads of it (of simulated payments
  only) is the default again.
* `Inbox`. A notice whose transaction began before a page and ended after it is
  older than the cursor and shown, or newer and not shown before the next listing.
* `OrderPayment`, beyond the findings: `perUserLimit` counts tickets already issued
  (`commerce.service.ts:259`), so two pending orders of a customer exceed it when
  both are paid. `Redemption`: `correct` and `updateEvent` each compare with a
  value of the other that they read without a lock, so more people may be present
  than the capacity; `EntriesRespectCapacity` says what entries still respect.

## 3. What is checked

The names of the properties are those of the modules, where a comment states
each.

| run | instance | what it shows |
|---|---|---|
| race | two customers, two orders (gateway and wallet), one ticket, two requests, a window of 1, clock to 2, one crash | `StockIsBacked`, `RightsAreBacked` while reservations lapse, the approval comes late, the event is cancelled |
| refunds | one order of 3 cents with a fee of 1, two requests, one crash, approvals, refusals and every order of refunds, announced ones and chargebacks | `IndInv`, `LedgerAgrees`, `StatusesAgree`, `RewardFollowsOrder`, `ServedOrReviewed`, `NoNewsLost`, `RightsStayRevoked`, `ImplementsLifecycle` |
| liveness | one order, two requests, one crash, one repeated notification, a fair scheduler | `PendingOrderCloses`, `ApprovedPaymentIsBooked` |
| doors | a ticket and a promotion of one order and one event, two workers or administrators, one idempotency key, capacity 1 or 2, three validations of a right | `UsesAreJustified`, `OnePersonPerTicket`, `OccupancyReconciles`, `RevokedIsNeverUsed`, `EntriesRespectCapacity` while the order is refunded in parts or whole and the event is cancelled |
| jobs | an order of 2 cents with an item of 1, two requests, an administrator, two workers that may outlive their leases, a cent refunded in the panel | `OneRefundInFlight`, `SentAsApproved`, `CompletedWasReturned` |
| decided | an item that is all of an order of 2 cents, two requests, an administrator, a worker that keeps within its lease, one crash or failed statement, fair workers | `RejectedIsNotSent`, `ReturnedAsDecided`, `CompletedIsFinal`, `JobIsDecided` |
| events | a cancelled event with one purchase, its replacement with one unit and a buyer who wants it too; two managers who edit the dates and the image of an event and one guest, clock to 2 | `ResolutionInv`, `EventDatesInv`, `ClosedStockIsFreed` |
| timers | one top-up with two runners, one of which dies; a delivery to two devices, in batches of one, two instances, two attempts, one fault, one claim overrun; two uploads, two places, two editors and the cleanup | `TopUpInv`, `PushInv`, `UploadInv`; `TopUpCloses`, `DeliveryEnds`, `ExpiredIsDeleted` |
| platform | seventeen parts, one per behaviour (`Platform.cfg` names the sets) | `MoneyInv`, `CollectionInv`, `AccountsInv`, `ShopInv`, `CatalogueInv`, `OfficeInv`, `PlaceIsKept` |
| lateapproval | a refused card, then an approved one | `LateApprovalIsBooked` is violated (finding) |
| spent | a promotion and a delivery of products, two administrators | `UsedRightIsSpent` is violated (finding) |
| revoked | one customer and a buyer who was referred, a top-up, a reward and a purchase, one transaction at a time | `RevokedNeverReturns` is violated (finding) |

`events`, `timers` and `platform` put several modules in one run. The parts of
such a run share no table, so nothing one does can matter to another: a behaviour
of the run is a behaviour of one part, chosen at the start, while the others rest
where they began (`part`, `OthersRest`), and a state of the run is a state of
that part alone. Every conjunct of the properties is asked of the part it is
about; the six of `platform` group what one office would answer for. The fairness
of a part is the one its module states, asked only while it is the part that
runs.

Bounds. Two requests are what any race here needs: each property relates one
order's row to one handler's stale values, and handlers of one order exclude
each other under its lock; the proofs of section 4 cover any number. Two orders
compete for one unit. An amount of 3 cents with a fee of 1 is the smallest in
which the rounded shares of two refunds differ from the rounded share of their
sum. The clock goes one tick past a reservation's window. `MaxQty` is 1: the
quantities of a line only ever enter comparisons with the stock, and the proofs
hold for all of them. Symmetry is used only in runs without liveness.

`CHECK_DEADLOCK FALSE`: the clock, the crashes and the provider's moves are
bounded, and when all of them are used up and every order is decided the shop
has nothing left to do, which is no deadlock of the code.

For `Redemption`: three validations are one more than two concurrent reversals
can make room for; a capacity of 1 or 2 with one ticket makes the last place
and the place beyond it reachable, the second person being one that was counted
by a correction; one key lets either an exit or a correction happen, and their
combinations are covered by the proofs. Deliveries, which differ from promotions
only in having no counter and no event, are in `spent` and in the proofs, not in
`doors`, to keep it small. Nobody has to scan anything, so `Redemption` states no
fairness and no liveness, and `CHECK_DEADLOCK FALSE` because the evening may end.

For `RefundRequests`: 2 cents are what it takes for an amount to differ from
another that is possible too, and for a partial refund; of two requests one is of
the staff and one of the job, in either order, or both of the staff. One manual
review comes after the limit of attempts (1 for the 12 of the code) or after a
use of the item. `jobs` is the safety of workers that race, with no crashes: one
that dies is one that is never heard of again, which a slow one may be too.
`decided` is what becomes of one job, whatever happens to its worker.

What holds only as long as no worker outlives its lease is checked in `decided`
and not in `jobs`. `finish` is fenced by the lease, but `complete` and the
transaction that creates the request of a job are not: a worker that slept may
complete a job twice, or create and send the request of a job that was handed to
a person and rejected meanwhile. And even a worker in time opens a completed job
again if `complete` succeeds and the update after it fails; `CompletedIsFinal`
says that nothing else does.

Fairness in `decided`: the timer of every instance runs for ever, leases and
delays end (`BecomesDue`), a process that is running goes on, since its calls have
a timeout. Nothing is assumed of the provider's approval, of administrators or of
notifications: a job that never hears of its refund ends with a person.

Fairness of `OrderPayment` (only in `FairSpec`): the timer and the clock run for ever (setInterval
in every instance); a request that is being served goes on when its lock is free
(PostgreSQL grants locks in the order they were asked for, and the holder is a
transaction that ends or is rolled back); the provider repeats its notifications
until one is answered, and getPayment polls. Nothing is assumed of customers,
clubs, or of what the provider decides.

Bounds of `events`: one purchase and one buyer contend for one unit, which is
where held and sold stock can disagree; the purchase can be accepted, refused,
refunded and paid late, alone or while a configure is open. One guest and two
managers: each clause of `EventDatesInv` is about one ticket, or about the images
of two edits. Bounds of `timers`: two runners or instances are a late one and its
successor; one death, one fault and one overrun each suffice to lose or repeat
what they interrupt, and two attempts to retry after it; two devices in batches of
one make a delivery stop between devices; two uploads replace each other in a
place. Bounds of `platform`: two requests on every row, and of the things they
contend for one or two; a second wallet for transfers, where a daily limit of one
transfer makes the second one the offender; cents so small that shares round, a
payment of 3 cents at the gateway returned in parts or whole, and 2 cents left of a
purchase paid partly with credit; one campaign and three requests, as campaigns only
meet in refusing a checkout, on which no property depends;
three pages of one entry; a clock of five hours with a night that begins and one
that ends in them; three audit entries of two recorders whose clocks
differ by one; a split payment with a fee and a simulated one, each refunded in parts
or whole; four notices in pages of two; two fees, one of them beyond the maximum. The
cart has one product per club, so deliveries that combine two products are not
reached; the plan of one product, split or grouped, is, and the proofs cover the
others.

Fairness of `timers` and `events`: the jobs of `onModuleInit` run for ever in every
instance (`TakeOverdue`, strongly, since the job looks at every overdue top-up at
every turn and another runner may hold it in between; `Enqueue`, `ListExpired`,
`ReleaseClosed`); a runner or dispatcher that was begun goes on, as its calls have
timeouts (`RunnerStep`, `DispatcherStep`, `EraseExpired`, `DeleteExpired`); time
passes (`Overdue`, `Ripens`). Nothing is assumed of customers, of the provider's
answer, or of who confirms an upload.

`CHECK_DEADLOCK FALSE` there too: when the bounded things have happened every part
may rest.

Each property of a passing run has a mutant in `PROJECT.json`: a plausible bug,
written above the definition it replaces under "Bug:", that makes TLC refute it.
The invariants of `events`, `timers` and `platform` have one for several parts;
these bugs, written in the modules too, are noticed by the same runs:

* `ResolutionInv`: `ReadCommitted`, `ReviewsAgain`; `EventDatesInv`: `AnyVersion`,
  `TicketsOnly`; `PushInv`: `ClaimedByAny`; `UploadInv`: `QueuesReplaced`.
* `AccountsInv`: `EndsLogins`, `TakesOneMore` (`Sessions`); `MayReferEarly`,
  `OthersStay`, `HasToProve`, `ProvedAlways` (`Prelaunch`); `MatchesDepartment`,
  `CreatesAnother` (`LaunchMarkets`).
* `MoneyInv`: `ToReturnWhole` (`Wallet`), `AllowedAgain` (`Withdrawals`). `CollectionInv`: `HeldConnected`,
  `AnySeller`, `CutUsed`. `ShopInv`: `OpenToday`, `PageAndNext`, `AnyShops`,
  `PlanUnsplit`, `PlanOfCart`.
* `CatalogueInv`: `KeptSold`, `KeptUnits` (`Stock`); `DiscountedBelow`,
  `ColumnsWritten` (`Promotions`); `FinishedLater` (`Campaigns`). `OfficeInv`:
  `AtNow`, `LockIsShared` (`AuditLog`); `ShiftsStay` (`Staff`); `NotDecidedSo`
  (`BusinessAccess`).

### Findings

* `lateapproval`. The settlement takes an approval only of an attempt that is
  PENDING or EXPIRED (`commerce.service.ts:1385`). When a card is refused and
  another one is accepted for the same preference, the approval is acknowledged
  and nothing is booked, issued or reviewed; `docs/event-cancellation-flow.md:21`
  says late approved payments are registered.
* `spent`. `reverseRedemption` reads the counter without a lock and decrements it
  relatively (`commerce.service.ts:2996`). Reversed twice at once, one use leaves
  the counter at -1; the next validation leaves the right AVAILABLE and it can be
  validated again. `docs/03-business-rules.md:70` says a used right cannot be
  validated again. What still holds is `UsesAreJustified`: every extra use has a
  reversal or an exit in the audit trail to answer for it.
* `revoked`. `reverseOrderEffects` marks the lot of a revoked reward REVERSED only
  if credit remains in it (`referrals.service.ts:618`). A reward that was spent
  before keeps its lot USED, and when the purchase it paid is refunded
  `restoreOrderCredits`, which passes over REVERSED lots only, puts its credit
  back into lot and balance. `docs/event-cancellation-flow.md:20` says what was
  revoked does not return to the available balance.

## 4. What is proved

Every invariant and every action property of the passing runs, and the
refinement, is a theorem for all values of the constants that the assumption of
its module admits. The proofs follow the modules:

| module | proves about |
|---|---|
| `OrderPaymentProofs` | `OrderPayment`, and that it implements `OrderLifecycle` |
| `RefundProofs` | `RefundRequests`, with workers that outlive their leases and without |
| `TimersProofs` | `TopUps`, `Uploads`, `PushOutbox`, and `Redemption` |
| `EventsProofs` | `EventDates`, `EventResolution` |
| `MoneyProofs` | `Withdrawals`, `Ledger`, `Wallet` |
| `CatalogueProofs` | `SellerConnection`, `Stock`, `Promotions`, `Campaigns`, `Cart`, `Discovery` |
| `AccountsProofs` | `Sessions`, `Prelaunch`, `LaunchMarkets`, `Inbox`, `Staff`, `BusinessAccess`, `AuditLog`, `PlatformAdmin` |
| `SumTheorems` | sums over finite sets, which the others cite |

Each part of a proof module begins with its inductive invariant; what it has
beyond the properties is what a request between two of its steps relies on, and
is described below. One lemma per action, or per group of actions that change the
same things, shows that it is kept.

For `platform`, `MoneyInvariance`, `CollectionInvariance`, `AccountsInvariance`,
`ShopInvariance`, `CatalogueInvariance`, `OfficeInvariance` and
`PlaceIsKeptOnPlatform` are about `PlatformSpec` itself: of the parts of the run
only the one that was chosen moves, and its properties are those of its module.

With TLC alone stay the liveness properties `PendingOrderCloses`,
`ApprovedPaymentIsBooked`, `JobIsDecided`, `ClosedStockIsFreed`, `TopUpCloses`,
`DeliveryEnds` and `ExpiredIsDeleted`: they rest on fairness, and fairness on
ENABLED, of which these provers know nothing.

The proofs changed the models where these could not be reasoned about, and not in
what they do. Cases that overlapped, so that CHOOSE decided between them, became
alternatives in the order of the code (`Stock`, `Discovery`, `Cart`, `Wallet`).
The sets that are summed or counted are said to be finite. The lists of
`Discovery` were sorted by an operator that has a permutation chosen for it; now
each element stands at the place 1 + the number before it (`InOrder`, `ByStart`),
and the walk of `AuditLog` is a fold. `DiscoveryAssumption` says what validation
does: no two clubs or events share their place in a list, whose last key is the
id, and opening hours are hours of a week (`create-club.dto.ts`).

### Sums

The library defines a sum by a fold and has its facts only by an induction theorem
that takes an operator. `SumTheorems` goes another way: if a claim about finite
sets failed, there would be a smallest set on which it fails (`Smallest`, from the
well-foundedness of the natural numbers), and its element that the fold takes
first gives a smaller one. So the recursion of a sum has one solution
(`SummingAgree`, `SummingExists`), a sum does not depend on the element taken
(`SumWithout`), and changes by what one term changes by (`SumUpdated`). On these
rest the balances of `MoneyProofs`, the stock of `OrderPaymentProofs`, the units of
carts and the prices of promotions, and the quantities of replacements.

### OrderPayment

`OrderPaymentProofs`, for every value of the
constants under `ConstantsAssumption` (sets of customers and orders of any size,
any stock, amount, fee, window and number of handlers).

The invariants of section 3 are not inductive: what a handler will do depends on
what it read before it was interrupted. `IndInv` adds

* `UnpaidIsUntouched`: of an order whose money was not booked nothing was posted,
  issued, rewarded, confirmed or opened for review, so settling it starts clean;
* `KeysArePast`: the references of earlier partial reversals name less than was
  refunded, so the next reversal is never taken for a repetition;
* `LapsedHoldsNothing`: a refused or lapsed order holds no reservation;
* `PaymentsAreKnown`, `RequestOK`, `OneSettlement`: what a request knows of its
  order stays true however long it waits (its `snap` is at most what was refunded;
  a settlement that began is still possible, because the order is locked), and one
  request at a time is inside the settlement of an order.

One lemma per action shows what it preserves; lemmas about one order
(`OrderStep`, `GrowStep`) and about the other ones (`OthersStay`) are shared
between them. The rounding of fees is proved by `FeeShare`'s bounds, not by
enumeration: the shares telescope because `FeeBetween` is a difference of shares.
From `IndInv` follow `TypeCorrect`, `WorkingRightsAreBacked`,
`PaymentsAreAnsweredOnce`, `LedgerFollowsAttempt`, `OrderFollowsAttempt`,
`RewardStandsWithOrder`, `AcknowledgedNewsIsApplied`, `StockIsNeverOversold` and
the action property `RevokedForever`; `Implementation` shows that every step of
the protocol is a step of `OrderLifecycle` or a stutter.

`ConfirmedStock` proves `StockIsBacked`: what was sold of a resource is what the
confirmed orders took of it. `StockIsSum` is inductive relative to `IndInv`, which
says that an order that is confirmed was not before, and that what a confirmed
order bought no longer changes (`StockOfApproval`, `StockFrame`).

### Redemption

In `TimersProofs`, for any finite set of tickets, any set of other rights, any
staff, capacity and bound, under `RedemptionAssumption`. `UsesAreJustified` alone
is not inductive: `RedemptionInv` adds that the counter is what the audit trail
says, even when it is negative (`CountsAreAudited`), that an available right has
a use left to justify the next one (`AvailableHasUseLeft`), and that what revoked
a right stands: its order was refunded, or its event is cancelled and never
reactivated (`RevocationStands`). The last is why `RevokedNeverUsed` holds though
a late reversal makes a revoked right AVAILABLE. The first two are about one
right at a time (`RightByRight`); `OneMoreInside` and `OneLessInside` carry
`HeadCountReconciles` over entries and exits with the cardinality theorems of the
library.

### RefundRequests

`RefundProofs`, for any set of items, requests, workers and administrators, any
amounts and any bound, slow workers included, under `RefundAssumption`. That two
requests are never being sent at once depends on what the processes read before
they claim one, and on what was approved when; `RefundInv` adds

* `RequestOK`: a request has an approved amount as soon as it was ever claimed or
  created by a job, and what the provider knows of it has that amount;
* `ProcessOK`: what a process knows stays true however long it sleeps, because
  `link` is written once, an approved amount does not change, and a refund stays
  approved. The amount a process is about to send is the approved one, or the
  request it read was not approved by anybody, in which case the claim fails
  unless that is still so;
* `JobOK`: the request of a job is completed only by the provider's approval,
  never by `Settle`, which passes over the requests of jobs.

`Grows` names what never shrinks in any step, `KnowledgeStays` and `OthersKnow`
carry `ProcessOK` of all other processes over it, and `OnlyProcess` and
`OnlyJobs` serve the actions that only change the process or the jobs. From
`RefundInv` follow `OneInFlight`, `SentWhatWasApproved` and
`CompletedOnlyIfReturned`.

A part of its own adds what holds as long as no worker outlives its lease
(`~ Slow`), for as many workers, jobs and administrators as there are. `LeaseInv`
is inductive relative to `RefundInv`:

* `Holds`: who works on a job is the holder of its lease, the job is not due, so
  nobody else claims it, and it is PROCESSING, or COMPLETED with its last update
  still to come; the amount read with the claim is still the amount of the job;
* `Decided`: a rejected job has no request, and the amount approved for the request
  of a job is the amount of the job.

A review disturbs neither: a job in MANUAL_REVIEW has no worker, and one that has a
request is neither rejected nor given another amount. From `LeaseInv` follow
`RejectedSentNothing`, `ReturnedWasDecided` and `CompletedStays`. Of this part only
the liveness, `JobIsDecided`, is model-checked alone.

### TopUps, Uploads, PushOutbox

In `TimersProofs`, for any top-ups, runners and number of deaths, under
`TopUpsAssumption`. `TopUpInv` does not say what a runner between two
transactions relies on. `RunnerKnows` does: the top-up it works on exists, an
approval it was told of still is the provider's word, and what it is about to mark
as processed has been applied; `AskedExists` says that the provider knows no
top-up before its row. Deaths and repetitions only put runners to rest
(`RestKnows`).

`Uploads`, for any uploads, places, confirmers and editors, under
`UploadAssumption`, hence for two confirmations of one upload at once, which the
one confirmer of the run does not reach. `ConfirmedOnce`: an upload not confirmed
twice at once has one confirmer, then one place, and is deleted only after it was
consumed. `ConsumedFresh`: who consumes an upload began before it expired, or is
counted among the late. `CleanedApart`: what the cleanup has at hand is stale and
not USED, so it never meets what is shown. `EditorKnows`: an edit alone with its
place knows the image it replaces.

`PushOutbox`, for any devices, instances and bounds. What `PushIInv` adds holds
while no attempt outlives its claim (`overruns = 0`): `ClaimIsAlone` (one instance
is at work on the delivery, with the number of the last attempt; who read the
delivery and is about to claim it either knows what is stored or will find another
number), `AttemptIsSound` (what an attempt still has to send is of the first
recipients and, without faults, was not sent yet) and `DeliveryIsSound`, which says
the same of what is stored.

### EventDates, EventResolution

In `EventsProofs`, for any managers, guests, images, hours and number of edits,
under `EventDatesAssumption`. `EditKnows` says of an edit between its reads and its
lock that its dates parse, and that the image it saw is the present one if the
version it read is; so an edit that is not refused queues the right image, and one
that is late finds another version (`WriteTypes`). `KnowsUnlessRevived` extends
`BuyersKnowTheDates` to orders that were closed, which may yet be paid, and
`NightExists` to an event not yet created.

`EventResolution`, for any purchases and other buyers of the replacement, of any
quantities. `ConfigureReads` and `AcceptKnows` say what a SERIALIZABLE transaction that
waits for its locks may still commit: a configure whose snapshot is fresh found no
mapping, an accept whose snapshot is fresh found a purchase that was paid and has
not moved. `NothingBefore` and `CancelledHasOne` tie what is set aside to the
mapping and the cancellation to the event. What is set aside, sold and left adds
up by `SumTheorems`.

### Withdrawals, Ledger, Wallet

In `MoneyProofs`. `Withdrawals`, for any requests, amounts and deciders:
`DecidersKnow` says that a decision is one its status allowed when it was read;
`Follow`, that the three buckets are the sums of the postings and of what was
settled, however decisions overlap; `Reserved`, that while none were taken at once
of one request, held is what the open requests ask and each request posted what
its status says.

`Ledger`, for any attempts, providers, amounts and fees. `PositionFits` gives the
position of an attempt by what was returned of it (`LeftOf`): the shares of fees
telescope as they do in `OrderPayment`, so refunds in parts leave a split payment
where a refund in one piece leaves it. `AddUp` says that an account is the sum of
the positions and of the other references entered once.

`Wallet`, for any clients, lots, rewards, purchases and transfers. Its transactions
read lots and commit remainders computed from them, under locks that differ:
`Apart` says that two transactions under the locks are of different wallets, so
`TxnKnows` (a purchase not made yet, a transfer within the limit of the day) stays
true while another commits. `AccountFits` takes a balance to be the sum of its
movements of credit and each of these to be counted once; `RewardFits` says that a pending
reward was not posted; `PurchaseFits`, that a purchase took what it cost of lots its
rows name once, and gave back of each no more than it took and in sum no less than
was refunded, which is arithmetic about the cumulative shares of
`restoreOrderCredits`. `PaymentsFit` is about the gateway: the movements that leave
the balance alone are a sum over payments of what each says (`OutsideFits`), one
payment changes at a time (`OutsideMoves`), only what is split and confirmed was
approved, and what a transaction is returning has not been returned (`TxnReturns`),
because the wallet or the order it belongs to is locked.

### SellerConnection, Stock, Promotions, Campaigns

In `CatalogueProofs`. `SellerConnection`: `CallKnows`, `RowKnows` and `LinksApart`
say that a call holds a consumed link no row names and no other call holds, and
that a connected row names a consumed link of its club; a link that was cut, or a
row written since, makes a call stale, which is when a token may not be kept.

`Stock`: `RowFits` is about a row alone: an edit commits under conditions on the
present row, so nothing of what it read matters but the columns it rewrites, and
the goods for which that went wrong are named (`strayed`). `Promotions`: `EditKnows` says that
the prices an edit is about to write are those of the items it is about to write,
`RowIsPriced` that they are those of the row unless edits crossed. `Campaigns`:
`RowsAgree` lists the pairs of statuses that a campaign and its attempt can have;
`ServerKnows` and `AskedOnce`, that a payment is asked for once and an approval
being applied was given by the provider, which may have returned the payment since.

### Cart, Discovery

`Cart`, for any items, clubs, devices and orders. `DeviceKnows` and `OrderKnows`: as
long as no two transactions raced, what a device or an approval read of the cart is
the cart. `HandedOver` says that the deliveries of a paid order are the plan of its
lines; that a plan has each unit once, in the groups asked for, is a fact about
plans, split, grouped or combined, for any number of products, which the run with its
one product per club does not reach. The proof found what lines below one do to a plan
(section 2), which `HandedOverAsOrdered` now says.

`Discovery`, for any clubs, events, tickets, hours and schedules. Which of five
places shows a thing is compared by cases. That a club is open exactly when its
schedule says so is arithmetic modulo the hours of a day and the days of a week, with
nights that end on the next day. `WalkKnows` and `PagesKnow` say that what was shown
is the beginning of the list as of the hour of the cursor, and of the list there
still is: lists in an order are determined by their elements (`InOrder`), and the
hour can only take events out of the explored ones.

### Sessions, Prelaunch, LaunchMarkets

In `AccountsProofs`. `Sessions`: `SessionsStay` says that a session nobody ended keeps
a token that nobody is about to revoke, `OneEach` that without overlaps every other
live token is about to be revoked, `RequestsKnow` that a request replaces a token
that exists, and `GuessesAreLimited` counts the attempts made together with those of
requests that read the code and have not counted theirs.

`Prelaunch`: `VisitsKnow` says what a visitor between two statements relies on (the
code it is about to take was sent, the referrer it is about to name was verified),
`LeadsFollow` orders registration, verification and referral, and `NoCycles` says
that no two leads invited each other, as only who verified can invite and only who
did not can be given a referrer, unless a stale registration is saved. `PlaceIsKept` is an action property
proved from these.

`LaunchMarkets`: `FallbackIsWritten`, `PublicationsKnow` and `PartnersDiffer` say that
a fallback stands once a start wrote it, that a publication is of an application in a
market that exists, and that an application becomes one partner.

### Inbox, Staff, BusinessAccess, AuditLog, PlatformAdmin

In `AccountsProofs` too. `Inbox`: `ListingKnows` says that what there was to list is
still there and nothing shown is below the cursor, for pages of any length. `Staff`:
`StartersRead`, `OpenAreFit` and `OpenAreAlone` are about the shifts that did not slip.
`BusinessAccess`: `ReviewsRead`, `OldIsAsked` and `CreatorIsApproved` say that a review
decides what it read as open, and that who created a club stands approved unless
another decision overtook it.

`AuditLog`: `OneRecorder` and `LatestIsLast` say that who holds the advisory lock found
the last chained entry, `ChainGrows` that chained entries have growing instants and
each follows the one before. The walk of `verifyIntegrity` is a fold over the entries,
taken one entry at a time (`WalkOf`); it finds a log whole if nothing was touched, and
reports an entry that was altered or whose predecessor was taken away.

`PlatformAdmin`: `ChangesFit`, `OwingIs` and `ReadWasInForce` say that what a request is
about to write fits its row, that who owes an entry of the log is who wrote the row,
and that what a checkout read of a fee was in force when it read it.

## 5. Plan

Done: all modules of section 2, checked in twelve runs; all their safety
properties and the refinement proved.

Left, in the order of their worth:

1. `Wallet` composed with `OrderPayment`: the funds of a wallet order that lapses.
2. `EventResolution` composed with `RefundRequests`: from the authorization of a
   purchase to the money returned.
3. Abstract specifications of more parts, as `OrderLifecycle` is of `OrderPayment`:
   the life of a right for `Redemption`, of a top-up for `TopUps`, of a withdrawal
   for `Withdrawals`, with the refinements proved from the invariants of section 4.
4. Action properties from the same invariants: what is posted stays posted
   (`Ledger`, `Withdrawals`), a decided event is not decided again
   (`EventResolution`).
5. A payment first seen partly refunded (hazard at
   `mercado-pago-payment.gateway.ts:231`), once it is known what should become of it.

## 6. Not modelled

Users, health and the shared infrastructure. Of modelled services what is listed as
missing in "components": favourites, permissions of workers, dashboards and
statistics, readiness of markets, preferences of leads, templates of
notifications: each is one write of one row, or only reads. Prices of campaigns,
distances, formatting of messages, images, SMS and push providers beyond their
outcome, and rate limits other than those of codes. Security of credentials is
out of scope.

Hazards known and covered by no property: the first news of a payment being a
partial refund; the credit of a wallet order whose instance died; the two orders
that exceed `perUserLimit`; a right used between the read of its purchase and the
claim of its refund (`commerce.service.ts:3497`), which the code does not exclude;
and the deadlock between checkout, which locks its resources by the string
`type:id` (`commerce.service.ts:230`), and confirmOrderReservations, which locks
them in the order of the enum: PostgreSQL aborts one, which is `Crash` here.
