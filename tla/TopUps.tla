-------------------------------- MODULE TopUps --------------------------------
(***************************************************************************)
(* Top-ups of the wallet through Mercado Pago: their creation, the         *)
(* callbacks of the provider, the queries that reconcile them, and the job *)
(* that expires them.  CommerceService.createWalletTopUp and               *)
(* processWalletTopUpEvent.                                                *)
(*                                                                         *)
(* A runner is a request that handles a callback, or a reconciliation of   *)
(* the job or of the customer who looks at the top-up.  It stops between   *)
(* its transactions, where it may wait or die.                             *)
(*                                                                         *)
(* A definition under "Bug:" is used by no other: it takes the place of    *)
(* the one after it to show that a property notices the bug.               *)
(***************************************************************************)
EXTENDS Integers, FiniteSets

CONSTANTS
    TopUps,         \* idempotency keys of top-ups
    Runners,
    NoTopUp,
    MaxDeaths       \* bound on runners that die

ASSUME TopUpsAssumption == NoTopUp \notin TopUps /\ MaxDeaths \in Nat

VARIABLES
    topUp,          \* status of the PaymentAttempt and of the WalletTopUp, NONE before it exists
    asked,          \* the provider knows of the top-up
    payment,        \* its status at the provider
    overdue,        \* the window of 30 minutes is over
    row,            \* PaymentProviderEvent of an outcome, NONE before it exists
    credits,        \* times the top-up was credited: lot, movement and ledger
    runner,         \* what a runner does, and the event it was told
    deaths          \* counter of the bound

topUpVars == <<topUp, asked, payment, overdue, row, credits, runner, deaths>>

-----------------------------------------------------------------------------
(* Types.                                                                  *)

PaymentOutcomes == {"PENDING", "APPROVED", "REJECTED", "EXPIRED"}
TopUpStatuses == {"NONE"} \cup PaymentOutcomes
RowStatuses == {"NONE", "RECEIVED", "PROCESSED", "IGNORED"}
RunnerPCs == {"idle", "query", "record", "apply", "finish", "expire"}

\* A runner: its top-up, the outcome of the event, and whether it expires the
\* top-up afterwards, as the job and the customer's look do.
NotHandling == [pc |-> "idle", of |-> NoTopUp, outcome |-> "NONE", expires |-> FALSE]

\* reconcileWalletTopUp, and the update that follows it.
Querying(t) == [pc |-> "query", of |-> t, outcome |-> "NONE", expires |-> TRUE]
Expiring(t) == [pc |-> "expire", of |-> t, outcome |-> "NONE", expires |-> FALSE]

\* Bug: what fails, or was processed before, ends the run of the job.
TopUpAborts(h) == runner' = [runner EXCEPT ![h] = NotHandling]

\* What follows when an event was processed, or failed: reconcileWalletTopUp
\* logs the error and goes on.
TopUpRests(h) == runner' = [runner EXCEPT ![h] =
                        IF runner[h].expires THEN Expiring(runner[h].of) ELSE NotHandling]
TopUpSteps(h, pc) == runner' = [runner EXCEPT ![h].pc = pc]

-----------------------------------------------------------------------------
TopUpInit ==
    /\ topUp = [t \in TopUps |-> "NONE"]
    /\ asked = {}
    /\ payment = [t \in TopUps |-> "PENDING"]
    /\ overdue = {}
    /\ row = [t \in TopUps |-> [o \in PaymentOutcomes |-> "NONE"]]
    /\ credits = [t \in TopUps |-> 0]
    /\ runner = [h \in Runners |-> NotHandling]
    /\ deaths = 0

\* createWalletTopUp: the top-up and its attempt are created first, the
\* provider is called afterwards and may not be reached.
CreateTopUp(t) ==
    /\ topUp[t] = "NONE"
    /\ topUp' = [topUp EXCEPT ![t] = "PENDING"]
    /\ \E reached \in {{}, {t}} : asked' = asked \cup reached
    /\ UNCHANGED <<payment, overdue, row, credits, runner, deaths>>

\* The customer pays, or does not, and may pay again what was rejected.
ProviderDecides(t) ==
    /\ t \in asked
    /\ payment[t] \in {"PENDING", "REJECTED"}
    /\ \E o \in PaymentOutcomes \ {"PENDING"} : payment' = [payment EXCEPT ![t] = o]
    /\ payment' # payment
    /\ UNCHANGED <<topUp, asked, overdue, row, credits, runner, deaths>>

Overdue(t) ==
    /\ topUp[t] # "NONE" /\ t \notin overdue
    /\ overdue' = overdue \cup {t}
    /\ UNCHANGED <<topUp, asked, payment, row, credits, runner, deaths>>

\* A callback: the payment is queried at the provider, so the event says what
\* its status is, not what the callback says.
Callback(h, t) ==
    /\ runner[h] = NotHandling
    /\ t \in asked
    /\ runner' = [runner EXCEPT ![h] = [pc |-> "record", of |-> t, outcome |-> payment[t],
                                        expires |-> FALSE]]
    /\ UNCHANGED <<topUp, asked, payment, overdue, row, credits, deaths>>

\* expirePendingWalletTopUps takes a top-up of its list.
TakeOverdue(h, t) ==
    /\ runner[h] = NotHandling
    /\ topUp[t] = "PENDING" /\ t \in overdue
    /\ runner' = [runner EXCEPT ![h] = Querying(t)]
    /\ UNCHANGED <<topUp, asked, payment, overdue, row, credits, deaths>>

\* getWalletTopUp of the customer.
Look(h, t) ==
    /\ runner[h] = NotHandling
    /\ topUp[t] \in {"PENDING", "EXPIRED"}
    /\ runner' = [runner EXCEPT ![h] = Querying(t)]
    /\ UNCHANGED <<topUp, asked, payment, overdue, row, credits, deaths>>

\* reconcileWalletTopUp: the query may find no payment, or fail.
Query(h) ==
    LET t == runner[h].of IN
    /\ runner[h].pc = "query"
    /\ \/ /\ t \in asked
          /\ runner' = [runner EXCEPT ![h].pc = "record", ![h].outcome = payment[t]]
       \/ TopUpRests(h)
    /\ UNCHANGED <<topUp, asked, payment, overdue, row, credits, deaths>>

\* The row of the event is unique: what was processed or ignored stops here,
\* what was received only is processed again.  A pending payment is no news.
RecordEvent(h) ==
    LET t == runner[h].of  o == runner[h].outcome IN
    /\ runner[h].pc = "record"
    /\ IF row[t][o] \in {"PROCESSED", "IGNORED"}
       THEN TopUpRests(h) /\ UNCHANGED row
       ELSE /\ row' = [row EXCEPT ![t][o] = IF @ = "NONE" THEN "RECEIVED" ELSE @]
            /\ TopUpSteps(h, IF o = "PENDING" THEN "finish" ELSE "apply")
    /\ UNCHANGED <<topUp, asked, payment, overdue, credits, deaths>>

\* Bug: an approval is taken whatever the attempt's status is.
TakesAny(t, o) == topUp[t] = "PENDING" \/ o = "APPROVED"

\* With the attempt locked: an attempt that waits takes any outcome, one that
\* has expired only an approval.
Takes(t, o) == topUp[t] = "PENDING" \/ (topUp[t] = "EXPIRED" /\ o = "APPROVED")

\* The transaction of processWalletTopUpEvent: the balance, the lot, the
\* movement and the ledger are written with the approval.
ApplyEvent(h) ==
    LET t == runner[h].of  o == runner[h].outcome IN
    /\ runner[h].pc = "apply"
    /\ IF Takes(t, o)
       THEN /\ topUp' = [topUp EXCEPT ![t] = o]
            /\ credits' = [credits EXCEPT ![t] = IF o = "APPROVED" THEN @ + 1 ELSE @]
       ELSE UNCHANGED <<topUp, credits>>
    /\ TopUpSteps(h, "finish")
    /\ UNCHANGED <<asked, payment, overdue, row, deaths>>

\* finishProviderEvent.
FinishEvent(h) ==
    LET t == runner[h].of  o == runner[h].outcome IN
    /\ runner[h].pc = "finish"
    /\ row' = [row EXCEPT ![t][o] = IF o = "PENDING" THEN "IGNORED" ELSE "PROCESSED"]
    /\ TopUpRests(h)
    /\ UNCHANGED <<topUp, asked, payment, overdue, credits, deaths>>

\* expireWalletTopUp: one conditional update of the attempt.
ExpireTopUp(h) ==
    LET t == runner[h].of IN
    /\ runner[h].pc = "expire"
    /\ topUp' = [topUp EXCEPT ![t] = IF @ = "PENDING" /\ t \in overdue THEN "EXPIRED" ELSE @]
    /\ runner' = [runner EXCEPT ![h] = NotHandling]
    /\ UNCHANGED <<asked, payment, overdue, row, credits, deaths>>

Die(h) ==
    /\ runner[h] # NotHandling /\ deaths < MaxDeaths
    /\ runner' = [runner EXCEPT ![h] = NotHandling]
    /\ deaths' = deaths + 1
    /\ UNCHANGED <<topUp, asked, payment, overdue, row, credits>>

RunnerStep(h) == Query(h) \/ RecordEvent(h) \/ ApplyEvent(h) \/ FinishEvent(h) \/ ExpireTopUp(h)

TopUpNext ==
    \/ \E t \in TopUps : CreateTopUp(t) \/ ProviderDecides(t) \/ Overdue(t)
    \/ \E h \in Runners : \/ \E t \in TopUps : Callback(h, t) \/ TakeOverdue(h, t) \/ Look(h, t)
                          \/ RunnerStep(h)
                          \/ Die(h)

\* The clock advances and the job, which runs every minute, takes what it finds.
TopUpFairness ==
    /\ \A t \in TopUps : WF_topUpVars(Overdue(t))
    /\ \A t \in TopUps : SF_topUpVars(\E h \in Runners : TakeOverdue(h, t))
    /\ \A h \in Runners : WF_topUpVars(RunnerStep(h))

TopUpSpec == TopUpInit /\ [][TopUpNext]_topUpVars /\ TopUpFairness

-----------------------------------------------------------------------------
(* Properties.                                                             *)

TopUpTypeOK ==
    /\ topUp \in [TopUps -> TopUpStatuses]
    /\ asked \subseteq TopUps /\ overdue \subseteq TopUps
    /\ payment \in [TopUps -> PaymentOutcomes]
    /\ row \in [TopUps -> [PaymentOutcomes -> RowStatuses]]
    /\ credits \in [TopUps -> Nat]
    /\ runner \in [Runners -> [pc : RunnerPCs, of : TopUps \cup {NoTopUp},
                               outcome : {"NONE"} \cup PaymentOutcomes, expires : BOOLEAN]]
    /\ deaths \in 0..MaxDeaths

\* However many callbacks, reconciliations and expiries overlap or die, a
\* top-up is credited once when it is approved and never otherwise, and only
\* if the provider approved its payment.
CreditedOnce ==
    \A t \in TopUps :
        /\ credits[t] = (IF topUp[t] = "APPROVED" THEN 1 ELSE 0)
        /\ credits[t] > 0 => payment[t] = "APPROVED"

\* An event counts as processed only when the attempt had its say: after an
\* approval was processed the top-up is approved or had been rejected before.
ProcessedIsApplied ==
    \A t \in TopUps : row[t]["APPROVED"] = "PROCESSED" => topUp[t] \in {"APPROVED", "REJECTED"}

\* Top-ups are credited once, when paid, however the handlers of their payments
\* overlap, fail or die.
TopUpInv == TopUpTypeOK /\ CreditedOnce /\ ProcessedIsApplied

\* A top-up does not wait forever: the job closes it though runners die and the
\* provider cannot be reached.
TopUpCloses == \A t \in TopUps : topUp[t] = "PENDING" ~> topUp[t] # "PENDING"
=============================================================================
