------------------------------ MODULE PushOutbox ------------------------------
(***************************************************************************)
(* One notification of an event and its push delivery: the outbox written  *)
(* with the change it tells of, the claim of the delivery by an instance   *)
(* for a minute, the batches sent to the devices, their checkpoints and    *)
(* the retries.  NotificationService and the channel of Firebase.          *)
(*                                                                         *)
(* A delivery has no lease token: who claimed it is told by "attempts",    *)
(* and the claim is lost when another instance raises it.                  *)
(*                                                                         *)
(* A definition under "Bug:" is used by no other: it takes the place of    *)
(* the one after it to show that a property notices the bug.               *)
(***************************************************************************)
EXTENDS Integers, FiniteSets

CONSTANTS
    Devices,        \* tokens of the devices of the user
    Batch,          \* MAX_PUSH_BATCH_SIZE
    Dispatchers,    \* instances of the server
    AttemptLimit,   \* attempts after which a delivery fails (5 in the code)
    MaxFaults,      \* bound on deaths, failed statements and lost answers
    MaxOverruns     \* bound on claims that end while their holder is alive

ASSUME PushAssumption ==
    /\ IsFiniteSet(Devices)
    /\ Batch \in Nat \ {0} /\ AttemptLimit \in Nat \ {0}
    /\ MaxFaults \in Nat /\ MaxOverruns \in Nat

VARIABLES
    outbox,         \* the Notification: not written, written, or with its deliveries
    wantsPush,      \* pushEnabled of the category
    enabled,        \* devices enabled for the user
    push,           \* NotificationDelivery.status of PUSH, NONE before it exists
    attempts, ripe, \* its attempts; nextAttemptAt has come
    snapshot,       \* providerData.pendingTokens was stored
    pending, sent,  \* pendingTokens and sentCount
    dispatcher,     \* what an instance does, and what it read or computed
    recipients,     \* devices of the first snapshot
    pushes,         \* how many times the provider pushed to a device
    faults, overruns    \* counters of the bounds

deliveryVars == <<push, attempts, ripe, snapshot, pending, sent>>
inboxVars    == <<outbox, wantsPush, enabled>>
pushVars == <<inboxVars, deliveryVars, dispatcher, recipients, pushes, faults, overruns>>

-----------------------------------------------------------------------------
(* Types and helper state formulae.                                        *)

DeliveryStatuses == {"NONE", "PENDING", "SENT", "FAILED", "SKIPPED"}
DispatcherPCs    == {"idle", "claim", "prepare", "send", "checkpoint", "end", "error"}

\* stored: it read pendingTokens; left: those of the attempt not sent to yet;
\* mine, count: its pendingTokens and sentCount; batch, retry, bad: of the last
\* answer.
Resting == [pc |-> "idle", attempt |-> 0, stored |-> FALSE, mine |-> {}, count |-> 0,
            left |-> {}, batch |-> {}, bad |-> {}]

\* Bug: any attempt may write.
ClaimedByAny(r) == push = "PENDING"

\* claimedWhere: the delivery is still of this attempt.
Claimed(r) == push = "PENDING" /\ attempts = dispatcher[r].attempt

Step(r, pc)   == dispatcher' = [dispatcher EXCEPT ![r].pc = pc]
Rest(r)       == dispatcher' = [dispatcher EXCEPT ![r] = Resting]

\* The status after an attempt.
EndStatus(attempt, rest, count) ==
    IF rest # {} THEN IF attempt >= AttemptLimit THEN "FAILED" ELSE "PENDING"
    ELSE IF count > 0 THEN "SENT" ELSE "SKIPPED"

\* Bug: the claim does not count it.
SameAttempt(attempt) == attempt

\* A claim is told from the ones before it by its attempt.
NextAttempt(attempt) == attempt + 1

PushInit ==
    /\ outbox = "none" /\ wantsPush \in BOOLEAN /\ enabled = Devices
    /\ push = "NONE" /\ attempts = 0 /\ ripe = TRUE
    /\ snapshot = FALSE /\ pending = {} /\ sent = 0
    /\ dispatcher = [r \in Dispatchers |-> Resting]
    /\ recipients = {} /\ pushes = [d \in Devices |-> 0]
    /\ faults = 0 /\ overruns = 0

-----------------------------------------------------------------------------
(* The user.                                                               *)

\* A transaction that writes the notification with the change it tells of.
WriteOutbox ==
    /\ outbox = "none"
    /\ outbox' = "written"
    /\ UNCHANGED <<wantsPush, enabled, deliveryVars, dispatcher, recipients, pushes,
                   faults, overruns>>

\* updatePreference counts when the deliveries are written.
UpdatePreference ==
    /\ outbox = "written"
    /\ wantsPush' = ~wantsPush
    /\ UNCHANGED <<outbox, enabled, deliveryVars, dispatcher, recipients, pushes,
                   faults, overruns>>

\* removeDevice; registerDevice of a token that was removed.
RemoveDevice(d) ==
    /\ d \in enabled
    /\ enabled' = enabled \ {d}
    /\ UNCHANGED <<outbox, wantsPush, deliveryVars, dispatcher, recipients, pushes,
                   faults, overruns>>

RegisterDevice(d) ==
    /\ d \notin enabled
    /\ enabled' = enabled \cup {d}
    /\ UNCHANGED <<outbox, wantsPush, deliveryVars, dispatcher, recipients, pushes,
                   faults, overruns>>

-----------------------------------------------------------------------------
(* dispatchPendingDeliveries of an instance.                               *)

\* The notification gets its deliveries; a second instance finds them there.
Enqueue ==
    /\ outbox = "written"
    /\ outbox' = "queued"
    /\ push' = IF wantsPush THEN "PENDING" ELSE "SKIPPED"
    /\ UNCHANGED <<wantsPush, enabled, attempts, ripe, snapshot, pending, sent,
                   dispatcher, recipients, pushes, faults, overruns>>

\* findMany; the loop comes to this delivery later, with what was read.
ReadDelivery(r) ==
    /\ dispatcher[r].pc = "idle"
    /\ push = "PENDING" /\ ripe
    /\ dispatcher' = [dispatcher EXCEPT ![r] =
                         [@ EXCEPT !.pc = "claim", !.attempt = attempts, !.stored = snapshot,
                                   !.mine = pending, !.count = sent]]
    /\ UNCHANGED <<inboxVars, deliveryVars, recipients, pushes, faults, overruns>>

ClaimDelivery(r) ==
    /\ dispatcher[r].pc = "claim"
    /\ IF Claimed(r) /\ ripe
       THEN /\ attempts' = NextAttempt(attempts) /\ ripe' = FALSE
            /\ dispatcher' = [dispatcher EXCEPT ![r].pc = "prepare", ![r].attempt = NextAttempt(@)]
       ELSE Rest(r) /\ UNCHANGED <<attempts, ripe>>
    /\ UNCHANGED <<inboxVars, push, snapshot, pending, sent, recipients, pushes, faults, overruns>>

\* Bug: every attempt takes the devices enabled now.
RecipientsNow(r) == enabled

\* The recipients are those stored by an earlier attempt that are still enabled.
Recipients(r) == IF dispatcher[r].stored THEN dispatcher[r].mine \cap enabled ELSE enabled

Prepare(r) ==
    LET mine == Recipients(r) IN
    /\ dispatcher[r].pc = "prepare"
    /\ IF Claimed(r)
       THEN /\ snapshot' = TRUE /\ pending' = mine /\ sent' = dispatcher[r].count /\ ripe' = FALSE
            /\ recipients' = IF snapshot THEN recipients ELSE mine
            /\ dispatcher' = [dispatcher EXCEPT ![r].mine = mine, ![r].left = mine,
                                                ![r].pc = IF mine = {} THEN "end" ELSE "send"]
       ELSE Rest(r) /\ UNCHANGED <<snapshot, pending, sent, ripe, recipients>>
    /\ UNCHANGED <<inboxVars, push, attempts, pushes, faults, overruns>>

\* sendPushBatch; what the answer says of each device: sent, bad, or to retry.
SendPushBatch(r) ==
    /\ dispatcher[r].pc = "send"
    /\ \E batch \in SUBSET dispatcher[r].left :
         /\ Cardinality(batch) = Batch \/ batch = dispatcher[r].left
         /\ Cardinality(batch) \in 1..Batch
         /\ \E ok \in SUBSET batch : \E bad \in SUBSET (batch \ ok) :
              /\ pushes' = [d \in Devices |-> IF d \in ok THEN pushes[d] + 1 ELSE pushes[d]]
              /\ dispatcher' = [dispatcher EXCEPT ![r].pc = "checkpoint",
                     ![r].mine = @ \ (ok \cup bad), ![r].count = @ + Cardinality(ok),
                     ![r].left = @ \ batch, ![r].batch = batch, ![r].bad = bad]
    /\ UNCHANGED <<inboxVars, deliveryVars, recipients, faults, overruns>>

\* The call throws; the provider may have pushed, if the answer was lost.
SendThrows(r) ==
    /\ dispatcher[r].pc = "send"
    /\ \/ UNCHANGED <<pushes, faults>>
       \/ /\ faults < MaxFaults
          /\ faults' = faults + 1
          /\ \E d \in dispatcher[r].left : pushes' = [pushes EXCEPT ![d] = @ + 1]
    /\ Step(r, "error")
    /\ UNCHANGED <<inboxVars, deliveryVars, recipients, overruns>>

\* Those reached and those invalid, in one transaction.
Checkpoint(r) ==
    /\ dispatcher[r].pc = "checkpoint"
    /\ IF Claimed(r)
       THEN /\ pending' = dispatcher[r].mine /\ sent' = dispatcher[r].count /\ ripe' = FALSE
            /\ enabled' = enabled \ dispatcher[r].bad
            /\ dispatcher' = [dispatcher EXCEPT ![r].pc = IF dispatcher[r].left = {} THEN "end" ELSE "send",
                                                ![r].batch = {}, ![r].bad = {}]
       ELSE Rest(r) /\ UNCHANGED <<pending, sent, ripe, enabled>>
    /\ UNCHANGED <<outbox, wantsPush, push, attempts, snapshot, recipients, pushes,
                   faults, overruns>>

\* The end of an attempt, or its catch.
EndAttempt(r) ==
    LET d == dispatcher[r] IN
    /\ d.pc \in {"end", "error"}
    /\ push' = IF ~Claimed(r) THEN push
               ELSE IF d.pc = "end" THEN EndStatus(d.attempt, d.mine, d.count)
               ELSE IF d.attempt >= AttemptLimit THEN "FAILED" ELSE "PENDING"
    /\ Rest(r)
    /\ UNCHANGED <<inboxVars, attempts, ripe, snapshot, pending, sent, recipients, pushes,
                   faults, overruns>>

\* nextAttemptAt comes: nobody holds the delivery, or its holder is stuck for
\* so long that it does not renew its claim.
Working(r) == dispatcher[r].pc \notin {"idle", "claim"} /\ dispatcher[r].attempt = attempts

Ripens ==
    /\ push = "PENDING" /\ ~ripe
    /\ ripe' = TRUE
    /\ IF \E r \in Dispatchers : Working(r)
       THEN overruns < MaxOverruns /\ overruns' = overruns + 1
       ELSE UNCHANGED overruns
    /\ UNCHANGED <<inboxVars, push, attempts, snapshot, pending, sent, dispatcher, recipients,
                   pushes, faults>>

\* An instance dies, or one of its statements fails.
DispatcherDies(r) ==
    /\ dispatcher[r].pc # "idle" /\ faults < MaxFaults
    /\ faults' = faults + 1
    /\ Rest(r)
    /\ UNCHANGED <<inboxVars, deliveryVars, recipients, pushes, overruns>>

DispatcherStep(r) == \/ ReadDelivery(r)
                     \/ ClaimDelivery(r)
                     \/ Prepare(r)
                     \/ SendPushBatch(r)
                     \/ SendThrows(r)
                     \/ Checkpoint(r)
                     \/ EndAttempt(r)

PushNext ==
    \/ WriteOutbox
    \/ UpdatePreference
    \/ \E d \in Devices : RemoveDevice(d) \/ RegisterDevice(d)
    \/ Enqueue
    \/ \E r \in Dispatchers : DispatcherStep(r) \/ DispatcherDies(r)
    \/ Ripens

\* Every instance dispatches every five seconds, and time passes.
PushFairness == /\ WF_pushVars(Enqueue)
                /\ \A r \in Dispatchers : WF_pushVars(DispatcherStep(r))
                /\ WF_pushVars(Ripens)

PushSpec == PushInit /\ [][PushNext]_pushVars /\ PushFairness

-----------------------------------------------------------------------------
(* Properties.                                                             *)

PushTypeOK ==
    /\ outbox \in {"none", "written", "queued"} /\ wantsPush \in BOOLEAN
    /\ push \in DeliveryStatuses /\ attempts \in Nat /\ ripe \in BOOLEAN /\ snapshot \in BOOLEAN
    /\ pending \cup recipients \cup enabled \subseteq Devices /\ sent \in Nat
    /\ pushes \in [Devices -> Nat]
    /\ \A r \in Dispatchers : dispatcher[r].pc \in DispatcherPCs

\* "Retries never add new devices": only those of the first snapshot are pushed
\* to, whatever is registered meanwhile and whoever dies.  What an instance read
\* before its claim is old if the claim it took over had not really ended: then
\* it may add some.
OnlyFirstRecipients == overruns = 0 => \A d \in Devices : pushes[d] > 0 => d \in recipients

\* The checkpoints: as long as no claim ended with its holder at work, what was
\* counted as sent and what is still to send are different devices, and without
\* faults a device is pushed to once.
CheckpointsHold ==
    overruns = 0 =>
        /\ sent + Cardinality(pending) <= Cardinality(recipients)
        /\ faults = 0 => \A d \in Devices : pushes[d] <= 1

\* A delivery keeps to its first recipients and to its checkpoints, though its
\* workers die, stall beyond their claims and take over from each other.
PushInv == PushTypeOK /\ OnlyFirstRecipients /\ CheckpointsHold

\* A delivery ends, sent, skipped or failed, whatever its instances go through.
DeliveryEnds == outbox = "written" ~> push \notin {"NONE", "PENDING"}
=============================================================================
