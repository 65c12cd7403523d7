---------------------------- MODULE RefundRequests ----------------------------
(***************************************************************************)
(* The refunds of one order paid through Mercado Pago: the requests of a   *)
(* club's staff, their processing by administrators, and the jobs of       *)
(* EventRefundWorker, which give back the items of a cancelled event whose *)
(* refund was authorized.  CommerceService.requestOrderRefund,             *)
(* processRefundRequest, reconcileEventRefund, and EventRefundWorker.      *)
(*                                                                         *)
(* A process is a request of an administrator or a worker of an instance.  *)
(* It stops between two transactions, and before and after it calls the    *)
(* provider, where it may wait, die, or find that the world has changed.   *)
(*                                                                         *)
(* A definition under "Bug:" is used by no other: it takes the place of    *)
(* the one after it to show that a property notices the bug.               *)
(***************************************************************************)
EXTENDS Integers, FiniteSets

CONSTANTS
    Items,          \* items of the order that belong to the cancelled event
    Cost,           \* Cost[i]: totalCents of an item
    Amount,         \* amountCents of the payment
    Requests,       \* RefundRequest rows that may be created
    Workers,        \* EventRefundWorker of each instance of the server
    Admins,         \* requests of administrators that are being served
    NoItem, NoRequest, NoProc,
    Slow,           \* a worker may still run when its lease has ended
    RetryLimit,     \* attempts of a job before its manual review (12 in the code)
    MaxReviews,     \* bound on manual reviews
    MaxPanel,       \* bound on what the seller refunds by hand at the provider
    MaxCrashes      \* bound on crashes and failed statements

ASSUME RefundAssumption ==
    /\ NoItem \notin Items /\ NoRequest \notin Requests /\ NoProc \notin Workers \cup Admins
    /\ Workers \cap Admins = {}
    /\ Amount \in Nat \ {0} /\ Cost \in [Items -> 1..Amount]
    /\ Slow \in BOOLEAN
    /\ RetryLimit \in Nat /\ MaxReviews \in Nat /\ MaxPanel \in Nat /\ MaxCrashes \in Nat

VARIABLES
    orderStatus,    \* Order.status
    refunded,       \* PaymentAttempt.refundedAmountCents
    spent,          \* the items one of whose rights was used
    otherUsed,      \* a right of the order that is not of the event was used
    status,         \* RefundRequest.status, NONE before it exists
    asked,          \* requestedAmountCents
    approved,       \* approvedAmountCents, 0 for null
    external,       \* externalRefundId is set
    job,            \* EventRefundJob.status, NONE before it exists
    link,           \* refundRequestId of a job
    cents,          \* amountCents of a job
    noted,          \* a job has its manualReviewNote
    attempts,       \* attempts of a job
    holder,         \* who holds the leaseToken of a job
    due,            \* nextRunAt of a job has come
    refund,         \* the provider's refund under the key of a request
    refundCents,    \* its amount
    accepted,       \* cents of all refunds the provider accepted
    confirmed,      \* cents of those it approved
    reports,        \* totals refunded that notifications carry, if not known yet
    proc,           \* what a process does and the values it read
    reviews, panel, crashes     \* counters of the bounds

orderVars    == <<orderStatus, refunded, spent, otherUsed>>
requestVars  == <<status, asked, approved, external>>
jobVars      == <<job, link, cents, noted, attempts, holder, due>>
providerVars == <<refund, refundCents, accepted, confirmed, reports>>
boundVars    == <<reviews, panel, crashes>>
vars == <<orderVars, requestVars, jobVars, providerVars, proc, boundVars>>

-----------------------------------------------------------------------------
(* Types.                                                                  *)

Procs == Workers \cup Admins

OrderStatuses   == {"PAID", "REFUND_PENDING", "PARTIALLY_REFUNDED", "REFUNDED"}
RequestStatuses == {"NONE", "REQUESTED", "UNDER_REVIEW", "APPROVED", "PROCESSING",
                    "COMPLETED", "FAILED"}
JobStatuses     == {"NONE", "QUEUED", "PROCESSING", "WAITING_PROVIDER", "MANUAL_REVIEW",
                    "COMPLETED", "REJECTED"}
Refunds         == {"NONE", "PENDING", "APPROVED"}
PCs             == {"idle", "job", "look", "read", "claim", "send", "record", "fail",
                    "after", "query", "settle", "close", "complete", "finish"}

\* A process: the job and the request it is about, the amount (0: none given),
\* whether the job had its note, the status it read, the total it read at the
\* provider, and the status it will give the job.
Processes ==
    [pc : PCs, item : Items \cup {NoItem}, req : Requests \cup {NoRequest}, amount : 0..Amount,
     reasoned : BOOLEAN, was : RequestStatuses, total : 0..Amount,
     next : JobStatuses]

Idle == [pc |-> "idle", item |-> NoItem, req |-> NoRequest, amount |-> 0, reasoned |-> FALSE,
         was |-> "NONE", total |-> 0, next |-> "NONE"]

-----------------------------------------------------------------------------
(* Helper state formulae.                                                  *)

OfJob(r) == \E i \in Items : link[i] = r

\* orderHasUsedResources.
Used == otherUsed \/ spent # {}

\* The requests of the order that are in the way of a new one of the staff, of
\* a new one of a job, and of one that is about to be sent.
Open     == {"REQUESTED", "UNDER_REVIEW", "APPROVED", "PROCESSING"}
Unsolved == Open \cup {"FAILED"}

\* Bug: only what was approved or failed is in the way.
NotInFlight == {"APPROVED", "FAILED"}

InFlight == {"PROCESSING", "APPROVED", "FAILED"}

Goto(p, pc)        == proc' = [proc EXCEPT ![p].pc = pc]
\* It goes on and forgets what it read, but for the job and the request.
Then(p, pc)        == proc' = [proc EXCEPT ![p] =
                                  [Idle EXCEPT !.pc = pc, !.item = proc[p].item, !.req = proc[p].req]]
Finish(p, next)    == proc' = [proc EXCEPT ![p] =
                                  [Idle EXCEPT !.pc = "finish", !.item = proc[p].item,
                                               !.next = next]]
\* What a call that throws, or returns, leads to: the worker goes on with its
\* job, the request of an administrator ends.
Throws(p)  == IF proc[p].item # NoItem THEN Finish(p, "QUEUED")
              ELSE proc' = [proc EXCEPT ![p] = Idle]
Returns(p) == IF proc[p].item # NoItem THEN Then(p, "after")
              ELSE proc' = [proc EXCEPT ![p] = Idle]

-----------------------------------------------------------------------------
\* The order was paid, its event cancelled, and the refunds were authorized.
Init ==
    /\ orderStatus = "PAID"
    /\ refunded = 0
    /\ spent \in SUBSET Items
    /\ otherUsed = FALSE
    /\ status = [r \in Requests |-> "NONE"]
    /\ asked = [r \in Requests |-> 0]
    /\ approved = [r \in Requests |-> 0]
    /\ external = [r \in Requests |-> FALSE]
    /\ job = [i \in Items |-> "NONE"]
    /\ link = [i \in Items |-> NoRequest]
    /\ cents = Cost
    /\ noted = [i \in Items |-> FALSE]
    /\ attempts = [i \in Items |-> 0]
    /\ holder = [i \in Items |-> NoProc]
    /\ due = [i \in Items |-> TRUE]
    /\ refund = [r \in Requests |-> "NONE"]
    /\ refundCents = [r \in Requests |-> 0]
    /\ accepted = 0
    /\ confirmed = 0
    /\ reports = {}
    /\ proc = [p \in Procs |-> Idle]
    /\ reviews = 0
    /\ panel = 0
    /\ crashes = 0

-----------------------------------------------------------------------------
(* Staff and customers.                                                    *)

\* requestOrderRefund: used purchases are reviewed by hand.
RequestRefund(r, n) ==
    /\ status[r] = "NONE"
    /\ orderStatus \in {"PAID", "PARTIALLY_REFUNDED"}
    /\ n \in 1..(Amount - refunded)
    /\ \A q \in Requests : status[q] \notin Open
    /\ status' = [status EXCEPT ![r] = IF Used THEN "UNDER_REVIEW" ELSE "REQUESTED"]
    /\ asked' = [asked EXCEPT ![r] = n]
    /\ orderStatus' = "REFUND_PENDING"
    /\ UNCHANGED <<refunded, spent, otherUsed, approved, external, jobVars, providerVars, proc,
                   boundVars>>

\* validateCode for a right of the order that is not of the cancelled event.
UseRight ==
    /\ \/ orderStatus = "PAID"
       \/ /\ orderStatus = "PARTIALLY_REFUNDED"
          /\ \A r \in Requests : status[r] = "COMPLETED" => OfJob(r)
    /\ ~ otherUsed
    /\ otherUsed' = TRUE
    /\ UNCHANGED <<orderStatus, refunded, spent, requestVars, jobVars, providerVars, proc,
                   boundVars>>

-----------------------------------------------------------------------------
(* The provider.                                                           *)

\* createRefund under the idempotency key of r: a new refund if what is left
\* allows it, the one it knows if the key was used; it may be approved at once.
ProviderRefunds(r, n) ==
    \/ /\ refund[r] # "NONE"
       /\ UNCHANGED providerVars
    \/ /\ refund[r] = "NONE"
       /\ n <= Amount - accepted
       /\ refundCents' = [refundCents EXCEPT ![r] = n]
       /\ accepted' = accepted + n
       /\ \/ /\ refund' = [refund EXCEPT ![r] = "PENDING"]
             /\ UNCHANGED <<confirmed, reports>>
          \/ /\ confirmed + n <= Amount
             /\ refund' = [refund EXCEPT ![r] = "APPROVED"]
             /\ confirmed' = confirmed + n
             /\ reports' = reports \cup {confirmed + n}

\* It never returns more than was paid.
ProviderApproves(r) ==
    /\ refund[r] = "PENDING"
    /\ confirmed + refundCents[r] <= Amount
    /\ refund' = [refund EXCEPT ![r] = "APPROVED"]
    /\ confirmed' = confirmed + refundCents[r]
    /\ reports' = reports \cup {confirmed + refundCents[r]}
    /\ UNCHANGED <<refundCents, accepted, orderVars, requestVars, jobVars, proc, boundVars>>

\* The seller refunds n in the panel of the provider.
PanelRefund(n) ==
    /\ panel + n <= MaxPanel
    /\ n <= Amount - accepted /\ confirmed + n <= Amount
    /\ accepted' = accepted + n
    /\ confirmed' = confirmed + n
    /\ reports' = reports \cup {confirmed + n}
    /\ panel' = panel + n
    /\ UNCHANGED <<refund, refundCents, orderVars, requestVars, jobVars, proc, reviews, crashes>>

\* processPaymentEvent for a payment of which t was refunded: a request of the
\* staff is completed when the amount is the one it waits for.
Settle(t) ==
    LET delta   == t - refunded
        waiting == IF t = Amount THEN {"APPROVED", "PROCESSING"} ELSE {"PROCESSING"}
    IN
    \/ /\ delta <= 0
       /\ UNCHANGED <<orderStatus, refunded, status, reports>>
    \/ /\ delta > 0
       /\ refunded' = t
       /\ reports' = {x \in reports : x > t}
       /\ orderStatus' = IF t = Amount THEN "REFUNDED" ELSE "PARTIALLY_REFUNDED"
       /\ status' = [r \in Requests |->
                        IF status[r] \in waiting /\ ~ OfJob(r) /\ approved[r] = delta
                        THEN "COMPLETED" ELSE status[r]]

Webhook(t) ==
    /\ t \in reports
    /\ Settle(t)
    /\ UNCHANGED <<spent, otherUsed, asked, approved, external, jobVars, refund, refundCents,
                   accepted, confirmed, proc, boundVars>>

-----------------------------------------------------------------------------
(* processRefundRequest.                                                   *)

\* Bug: another amount may be approved than the one that was.
Immutable2(r, n) == TRUE

\* REFUND_AMOUNT_IMMUTABLE.
Immutable(r, n) == approved[r] = 0 \/ approved[r] = n

\* What may be sent: what was not, unless it is sent again (recoverEventJob).
Unsent(r, recover) ==
    \/ status[r] \in {"REQUESTED", "UNDER_REVIEW", "APPROVED", "FAILED"}
    \/ status[r] = "PROCESSING" /\ recover /\ approved[r] > 0

\* The amount: the one given, else the one approved before, else the one asked.
AmountFor(r, n) ==
    IF n > 0 THEN n ELSE IF approved[r] > 0 THEN approved[r] ELSE asked[r]

MayApprove(r, n, reasoned) ==
    (Used => reasoned) /\ Immutable(r, n) /\ n <= asked[r] /\ n <= Amount - refunded

\* An administrator processes a request, with or without amount and reason, or
\* sends again one of no job (processUnallocated).  Up to the transaction it
\* only reads, and ends there if there is nothing to send.
AdminProcess(p, r, given, reasoned, recover) ==
    LET n == AmountFor(r, given) IN
    /\ proc[p] = Idle
    /\ reasoned => given > 0
    /\ recover => reasoned /\ ~ OfJob(r) /\ ~ external[r]
    /\ Unsent(r, recover) /\ MayApprove(r, n, reasoned)
    /\ proc' = [proc EXCEPT ![p] = [Idle EXCEPT !.pc = "claim", !.req = r, !.amount = n,
                                                !.was = status[r]]]
    /\ UNCHANGED <<orderVars, requestVars, jobVars, providerVars, boundVars>>

\* processUnallocated of a request that was sent reconciles it.
AdminReconcile(p, r) ==
    /\ proc[p] = Idle
    /\ external[r] /\ ~ OfJob(r)
    /\ proc' = [proc EXCEPT ![p] = [Idle EXCEPT !.pc = "query", !.req = r]]
    /\ UNCHANGED <<orderVars, requestVars, jobVars, providerVars, boundVars>>

\* A worker reads: it gives the amount of the job and a reason, and may send again.
ReadRequest(p) ==
    LET r == proc[p].req
        n == proc[p].amount
    IN
    /\ proc[p].pc = "read"
    /\ \/ ~ Unsent(r, TRUE) /\ Returns(p)
       \/ Unsent(r, TRUE) /\ ~ MayApprove(r, n, TRUE) /\ Throws(p)
       \/ /\ Unsent(r, TRUE) /\ MayApprove(r, n, TRUE)
          /\ proc' = [proc EXCEPT ![p].pc = "claim", ![p].was = status[r]]
    /\ UNCHANGED <<orderVars, requestVars, jobVars, providerVars, boundVars>>

\* The transaction, under the lock of the order.
ClaimRequest(p) ==
    LET r    == proc[p].req
        free == /\ \A q \in Requests \ {r} : status[q] \notin InFlight
                /\ status[r] = proc[p].was
    IN
    /\ proc[p].pc = "claim"
    /\ \/ /\ free
          /\ status' = [status EXCEPT ![r] = "PROCESSING"]
          /\ approved' = [approved EXCEPT ![r] = proc[p].amount]
          /\ proc' = [proc EXCEPT ![p].pc = "send", ![p].was = "NONE"]
       \/ /\ ~ free
          /\ Throws(p)
          /\ UNCHANGED <<status, approved>>
    /\ UNCHANGED <<orderVars, asked, external, jobVars, providerVars, boundVars>>

\* The call of the provider; it refuses, or its answer may be lost.
Send(p) ==
    LET r == proc[p].req IN
    /\ proc[p].pc = "send"
    /\ \/ /\ ProviderRefunds(r, proc[p].amount)
          /\ Then(p, "record") \/ Then(p, "fail")
       \/ /\ Then(p, "fail")
          /\ UNCHANGED providerVars
    /\ UNCHANGED <<orderVars, requestVars, jobVars, boundVars>>

\* The identifier of the refund is saved; writing the audit entry may still fail.
RecordRefund(p) ==
    /\ proc[p].pc = "record"
    /\ external' = [external EXCEPT ![proc[p].req] = TRUE]
    /\ Returns(p) \/ Then(p, "fail")
    /\ UNCHANGED <<orderVars, status, asked, approved, jobVars, providerVars, boundVars>>

\* The catch: FAILED, whatever the request has become meanwhile.
FailRequest(p) ==
    /\ proc[p].pc = "fail"
    /\ status' = [status EXCEPT ![proc[p].req] = "FAILED"]
    /\ Throws(p)
    /\ UNCHANGED <<orderVars, asked, approved, external, jobVars, providerVars, boundVars>>

-----------------------------------------------------------------------------
(* reconcileEventRefund: three steps.                                      *)

\* Bug: any refund the provider knows is taken for money returned.
AnyRefund(r) == refund[r] # "NONE"

\* verified.status.
Verified(r) == refund[r] = "APPROVED"

\* It asks the provider for the refund of the request.
QueryRefund(p) ==
    LET r == proc[p].req IN
    /\ proc[p].pc = "query"
    /\ \/ /\ status[r] = "COMPLETED"
          /\ IF proc[p].item # NoItem THEN Then(p, "complete")
             ELSE proc' = [proc EXCEPT ![p] = Idle]
       \/ /\ status[r] # "COMPLETED" /\ Verified(r) /\ refundCents[r] = approved[r]
          /\ proc' = [proc EXCEPT ![p].pc = "settle", ![p].total = confirmed]
       \/ /\ status[r] # "COMPLETED" /\ ~ Verified(r)
          /\ IF proc[p].item # NoItem THEN Finish(p, "WAITING_PROVIDER")
             ELSE proc' = [proc EXCEPT ![p] = Idle]
       \/ Throws(p)
    /\ UNCHANGED <<orderVars, requestVars, jobVars, providerVars, boundVars>>

SettleVerified(p) ==
    /\ proc[p].pc = "settle"
    /\ Settle(proc[p].total)
    /\ Then(p, "close")
    /\ UNCHANGED <<spent, otherUsed, asked, approved, external, jobVars, refund, refundCents,
                   accepted, confirmed, boundVars>>

CloseRequest(p) ==
    /\ proc[p].pc = "close"
    /\ status' = [status EXCEPT ![proc[p].req] = "COMPLETED"]
    /\ IF proc[p].item # NoItem THEN Then(p, "complete") ELSE proc' = [proc EXCEPT ![p] = Idle]
    /\ UNCHANGED <<orderVars, asked, approved, external, jobVars, providerVars, boundVars>>

-----------------------------------------------------------------------------
(* EventRefundWorker.                                                      *)

\* discover.
Discover(i) ==
    /\ job[i] = "NONE"
    /\ orderStatus \in {"PAID", "PARTIALLY_REFUNDED"}
    /\ job' = [job EXCEPT ![i] = "QUEUED"]
    /\ UNCHANGED <<link, cents, noted, attempts, holder, due, orderVars, requestVars,
                   providerVars, proc, boundVars>>

\* Bug: a job that was completed is taken up again.
AnyButDecided == {"QUEUED", "PROCESSING", "WAITING_PROVIDER", "COMPLETED"}

Active == {"QUEUED", "PROCESSING", "WAITING_PROVIDER"}

\* Bug: an attempt is not counted.
SameAttempt(n) == n

\* attempts: all that counts beyond the limit is that it is beyond.
OneMoreAttempt(n) == IF n > RetryLimit THEN n ELSE n + 1

\* tick takes a job that is due, with a lease, and reads it.
TakeJob(p, i) ==
    /\ proc[p] = Idle
    /\ job[i] \in Active /\ due[i]
    /\ link[i] # NoRequest \/ \A r \in Requests : status[r] \notin Unsolved
    /\ job' = [job EXCEPT ![i] = "PROCESSING"]
    /\ holder' = [holder EXCEPT ![i] = p]
    /\ attempts' = [attempts EXCEPT ![i] = OneMoreAttempt(@)]
    /\ due' = [due EXCEPT ![i] = FALSE]
    /\ proc' = [proc EXCEPT ![p] =
                  [Idle EXCEPT !.pc = "job", !.item = i, !.req = link[i], !.amount = cents[i],
                               !.reasoned = noted[i]]]
    /\ UNCHANGED <<link, cents, noted, orderVars, requestVars, providerVars, boundVars>>

\* nextRunAt comes: of a job that waits, or of one whose lease ends, which a
\* worker that is not Slow does not live to see.
BecomesDue(i) ==
    /\ job[i] \in Active /\ ~ due[i]
    /\ holder[i] # NoProc /\ ~ Slow => proc[holder[i]].item # i
    /\ due' = [due EXCEPT ![i] = TRUE]
    /\ UNCHANGED <<job, link, cents, noted, attempts, holder, orderVars, requestVars,
                   providerVars, proc, boundVars>>

\* process: a job tried too often, or one that has its request.
BeginJob(p) ==
    LET i == proc[p].item IN
    /\ proc[p].pc = "job"
    /\ \/ /\ attempts[i] > RetryLimit
          /\ Finish(p, "MANUAL_REVIEW")
       \/ /\ attempts[i] <= RetryLimit
          /\ proc[p].req # NoRequest
          /\ Goto(p, "look")
    /\ UNCHANGED <<orderVars, requestVars, jobVars, providerVars, boundVars>>

\* The transaction that creates the request of a job, under the lock of the order.
LinkRequest(p) ==
    LET i          == proc[p].item
        n          == proc[p].amount
        reconcile  == \/ orderStatus \notin {"PAID", "PARTIALLY_REFUNDED"}
                      \/ n > Amount - refunded
        other      == \E r \in Requests : status[r] \in Unsolved
        manual     == ~ proc[p].reasoned /\ i \in spent
    IN
    /\ proc[p].pc = "job" /\ attempts[i] <= RetryLimit /\ proc[p].req = NoRequest
    /\ \/ /\ link[i] # NoRequest
          /\ proc' = [proc EXCEPT ![p].pc = "look", ![p].req = link[i]]
          /\ UNCHANGED <<status, asked, approved, link>>
       \/ /\ link[i] = NoRequest
          /\ reconcile \/ (~ other /\ manual)
          /\ Finish(p, "MANUAL_REVIEW")
          /\ UNCHANGED <<status, asked, approved, link>>
       \/ /\ link[i] = NoRequest /\ ~ reconcile /\ other
          /\ Finish(p, "QUEUED")
          /\ UNCHANGED <<status, asked, approved, link>>
       \/ /\ link[i] = NoRequest /\ ~ reconcile /\ ~ other /\ ~ manual
          /\ \E r \in Requests :
                /\ status[r] = "NONE"
                /\ status' = [status EXCEPT ![r] = "APPROVED"]
                /\ asked' = [asked EXCEPT ![r] = n]
                /\ approved' = [approved EXCEPT ![r] = n]
                /\ link' = [link EXCEPT ![i] = r]
                /\ proc' = [proc EXCEPT ![p].pc = "look", ![p].req = r]
    /\ UNCHANGED <<orderVars, external, job, cents, noted, attempts, holder, due, providerVars,
                   boundVars>>

\* What there is to do for the request: nothing, reconcile, or send.
LookAtRequest(p) ==
    LET r == proc[p].req IN
    /\ proc[p].pc = "look"
    /\ \/ status[r] = "COMPLETED" /\ Then(p, "complete")
       \/ status[r] # "COMPLETED" /\ external[r] /\ Then(p, "query")
       \/ /\ status[r] # "COMPLETED" /\ ~ external[r]
          /\ proc' = [proc EXCEPT ![p].pc = "read", ![p].reasoned = FALSE]
    /\ UNCHANGED <<orderVars, requestVars, jobVars, providerVars, boundVars>>

\* After processRefundRequest the worker reads the request again.
AfterSend(p) ==
    /\ proc[p].pc = "after"
    /\ IF status[proc[p].req] = "COMPLETED" THEN Then(p, "complete")
       ELSE Finish(p, "WAITING_PROVIDER")
    /\ UNCHANGED <<orderVars, requestVars, jobVars, providerVars, boundVars>>

\* complete, whoever holds the lease.
CompleteJob(p) ==
    /\ proc[p].pc = "complete"
    /\ job' = [job EXCEPT ![proc[p].item] = "COMPLETED"]
    /\ Finish(p, "COMPLETED")
    /\ UNCHANGED <<orderVars, requestVars, link, cents, noted, attempts, holder, due,
                   providerVars, boundVars>>

\* finish, if the lease is still its own.
FinishJob(p) ==
    LET i == proc[p].item IN
    /\ proc[p].pc = "finish"
    /\ \/ /\ holder[i] = p
          /\ job' = [job EXCEPT ![i] = proc[p].next]
          /\ holder' = [holder EXCEPT ![i] = NoProc]
          /\ due' = [due EXCEPT ![i] = FALSE]
       \/ /\ holder[i] # p
          /\ UNCHANGED <<job, holder, due>>
    /\ proc' = [proc EXCEPT ![p] = Idle]
    /\ UNCHANGED <<orderVars, requestVars, link, cents, noted, attempts, providerVars, boundVars>>

\* Bug: a job whose money was sent may be changed and rejected.
AnyReview(i, n, approve) == n <= Cost[i]

\* Bug: a job may give back more than its item cost.
AnyAmount(i, n, approve) == link[i] # NoRequest => n = cents[i] /\ approve

\* What has a request is not rejected and keeps its amount.
MayReview(i, n, approve) ==
    n <= Cost[i] /\ (link[i] # NoRequest => n = cents[i] /\ approve)

\* review.
Review(i, n, approve) ==
    /\ job[i] = "MANUAL_REVIEW"
    /\ MayReview(i, n, approve)
    /\ reviews < MaxReviews
    /\ job' = [job EXCEPT ![i] = IF approve THEN "QUEUED" ELSE "REJECTED"]
    /\ cents' = [cents EXCEPT ![i] = n]
    /\ noted' = [noted EXCEPT ![i] = TRUE]
    /\ attempts' = [attempts EXCEPT ![i] = 0]
    /\ due' = [due EXCEPT ![i] = TRUE]
    /\ reviews' = reviews + 1
    /\ UNCHANGED <<link, holder, orderVars, requestVars, providerVars, proc, panel, crashes>>

-----------------------------------------------------------------------------
(* The environment.                                                        *)

Crash(p) ==
    /\ proc[p] # Idle
    /\ crashes < MaxCrashes
    /\ crashes' = crashes + 1
    /\ proc' = [proc EXCEPT ![p] = Idle]
    /\ UNCHANGED <<orderVars, requestVars, jobVars, providerVars, reviews, panel>>

\* A statement of a worker fails, but of the worker's own catch or of the one that
\* ends in FAILED: whatever was done before, the job is to be queued again.
StatementFails(p) ==
    LET i == proc[p].item IN
    /\ proc[p].pc \notin {"idle", "send", "record"} /\ i # NoItem
    /\ proc[p].pc = "finish" =>
          \/ proc[p].next \in {"COMPLETED", "WAITING_PROVIDER"}
          \/ proc[p].next = "MANUAL_REVIEW" /\ attempts[i] > RetryLimit
    /\ crashes < MaxCrashes
    /\ crashes' = crashes + 1
    /\ Throws(p)
    /\ UNCHANGED <<orderVars, requestVars, jobVars, providerVars, reviews, panel>>

-----------------------------------------------------------------------------
\* What a process does next.
Step(p) ==
    \/ ReadRequest(p)  \/ ClaimRequest(p) \/ Send(p)         \/ RecordRefund(p)
    \/ FailRequest(p)  \/ QueryRefund(p)  \/ SettleVerified(p) \/ CloseRequest(p)
    \/ BeginJob(p)     \/ LinkRequest(p)  \/ LookAtRequest(p) \/ AfterSend(p)
    \/ CompleteJob(p)  \/ FinishJob(p)

Next ==
    \/ \E r \in Requests, n \in 1..Amount : RequestRefund(r, n)
    \/ UseRight
    \/ \E r \in Requests : ProviderApproves(r)
    \/ \E n \in 1..Amount : PanelRefund(n)
    \/ \E t \in 1..Amount : Webhook(t)
    \/ \E p \in Admins, r \in Requests, n \in 0..Amount, reasoned, recover \in BOOLEAN :
          AdminProcess(p, r, n, reasoned, recover)
    \/ \E p \in Admins, r \in Requests : AdminReconcile(p, r)
    \/ \E p \in Procs : Step(p)
    \/ \E i \in Items : Discover(i)
    \/ \E p \in Workers, i \in Items : TakeJob(p, i)
    \/ \E i \in Items : BecomesDue(i)
    \/ \E i \in Items, n \in 1..Amount, approve \in BOOLEAN : Review(i, n, approve)
    \/ \E p \in Procs : Crash(p)
    \/ \E p \in Workers : StatementFails(p)

Spec == Init /\ [][Next]_vars

\* The timer of every instance runs for ever, time passes, and a process that is
\* running goes on: its transactions end and its calls have a timeout.
Fairness ==
    /\ \A p \in Procs : WF_vars(Step(p))
    /\ \A i \in Items : WF_vars(BecomesDue(i)) /\ WF_vars(\E p \in Workers : TakeJob(p, i))

FairSpec == Spec /\ Fairness

-----------------------------------------------------------------------------
(* Properties.                                                             *)

\* Every variable has its type (the columns and enums of the schema).
RefundTypeOK ==
    /\ orderStatus \in OrderStatuses /\ refunded \in 0..Amount
    /\ spent \subseteq Items /\ otherUsed \in BOOLEAN
    /\ status \in [Requests -> RequestStatuses]
    /\ asked \in [Requests -> 0..Amount] /\ approved \in [Requests -> 0..Amount]
    /\ external \in [Requests -> BOOLEAN]
    /\ job \in [Items -> JobStatuses] /\ link \in [Items -> Requests \cup {NoRequest}]
    /\ cents \in [Items -> 1..Amount] /\ \A i \in Items : cents[i] \in 1..Cost[i]
    /\ noted \in [Items -> BOOLEAN] /\ attempts \in [Items -> 0..RetryLimit + 1]
    /\ holder \in [Items -> Workers \cup {NoProc}]
    /\ due \in [Items -> BOOLEAN]
    /\ refund \in [Requests -> Refunds] /\ refundCents \in [Requests -> 0..Amount]
    /\ accepted \in 0..Amount /\ confirmed \in 0..Amount /\ reports \subseteq 1..Amount
    /\ proc \in [Procs -> Processes]
    /\ reviews \in 0..MaxReviews /\ panel \in 0..MaxPanel /\ crashes \in 0..MaxCrashes

\* "Una solicitud activa por orden evita envíos duplicados"
\* (docs/15-mercado-pago-migration.md): two requests of the order are never being
\* sent at once, whatever failed, died or was retried before.
OneRefundInFlight ==
    \A q, r \in Requests : status[q] = "PROCESSING" /\ status[r] = "PROCESSING" => q = r

\* The provider returns for a request what was approved for it: no retry, by
\* whomever, sends another amount (processRefundRequest).
SentAsApproved ==
    \A r \in Requests : refund[r] # "NONE" => refundCents[r] = approved[r]

\* "No se puede modificar ni rechazar un envío de dinero existente" (review): a
\* job that was rejected has no request, as long as no worker outlives its lease.
RejectedIsNotSent == \A i \in Items : job[i] = "REJECTED" => link[i] = NoRequest

\* A job that was completed, and its buyer told so, is neither taken up nor
\* reviewed again, unless completing it succeeded and the update after it failed,
\* which queues it (process), as long as no worker outlives its lease.
CompletedIsFinal ==
    [][\A i \in Items :
          job[i] = "COMPLETED" /\ job'[i] # "COMPLETED" =>
              \E p \in Workers : /\ proc[p].pc = "finish" /\ proc[p].item = i
                                 /\ holder[i] = p /\ proc[p].next = "QUEUED"]_vars

\* The refund of a job is confirmed to the buyer only when the provider returned
\* the money (process, reconcileEventRefund, complete).
CompletedWasReturned ==
    \A i \in Items :
        job[i] = "COMPLETED" => link[i] # NoRequest /\ refund[link[i]] = "APPROVED"

\* The buyer of a completed job got back the amount that was last decided on: the
\* total of the item, or what a review made of it.
ReturnedAsDecided ==
    \A i \in Items : job[i] = "COMPLETED" => refundCents[link[i]] = cents[i]

-----------------------------------------------------------------------------
(* The inductive invariant of the proofs.                                  *)

\* What was approved, sent and recorded of a request agree.
RequestOK(r) ==
    /\ status[r] # "NONE" => asked[r] # 0
    /\ approved[r] = 0 <=> status[r] \in {"NONE", "REQUESTED", "UNDER_REVIEW"}
    /\ external[r] => approved[r] # 0
    /\ refund[r] # "NONE" => approved[r] # 0 /\ refundCents[r] = approved[r]

\* What a process knows stays true however long it waits.
ProcessOK(q) ==
    /\ q.pc \in {"job", "look", "read", "after", "complete", "finish"} => q.item # NoItem
    /\ q.pc \in {"look", "read", "claim", "send", "record", "fail", "after", "query",
                 "settle", "close", "complete"} => q.req # NoRequest
    /\ q.item # NoItem /\ q.req # NoRequest => link[q.item] = q.req
    /\ q.pc \in {"job", "look", "read", "claim", "send"} => q.amount # 0
    /\ q.pc = "claim" => q.was \in {"REQUESTED", "UNDER_REVIEW"} \/ approved[q.req] = q.amount
    /\ q.pc = "claim" => q.was # "NONE"
    /\ q.pc = "send" => approved[q.req] = q.amount
    /\ q.pc \in {"record", "fail", "query", "settle", "close"} => approved[q.req] # 0
    /\ q.pc \in {"settle", "close", "complete"} => refund[q.req] = "APPROVED"
    /\ q.pc = "finish" /\ q.next = "COMPLETED" =>
          link[q.item] # NoRequest /\ refund[link[q.item]] = "APPROVED"

\* The request of a job was approved, and completed only by the provider.
JobOK(i) ==
    /\ link[i] # NoRequest =>
          /\ approved[link[i]] # 0
          /\ status[link[i]] = "COMPLETED" => refund[link[i]] = "APPROVED"
    /\ job[i] = "COMPLETED" => link[i] # NoRequest /\ refund[link[i]] = "APPROVED"

\* Every type, what requests, processes and jobs know of each other, and that
\* one request at a time is being sent.
RefundInv ==
    /\ RefundTypeOK
    /\ OneRefundInFlight
    /\ \A r \in Requests : RequestOK(r)
    /\ \A p \in Procs : ProcessOK(proc[p])
    /\ \A i \in Items : JobOK(i)

-----------------------------------------------------------------------------
\* A job that has its request is decided, or handed over to a person, after
\* finitely many attempts: it neither gets lost with a worker nor runs for ever.
JobIsDecided ==
    \A i \in Items :
        link[i] # NoRequest ~> job[i] \in {"COMPLETED", "MANUAL_REVIEW", "REJECTED"}

=============================================================================
