-------------------------------- MODULE Wallet --------------------------------
(***************************************************************************)
(* The Beerry wallet: lots of credit that come from top-ups, from rewards  *)
(* for referred buyers and from transfers, what spends them and what gives *)
(* them back.  ReferralsService, and processWalletRefund of                *)
(* CommerceService.                                                        *)
(*                                                                         *)
(* A database transaction that reads lots and then writes the remainders   *)
(* it computed is two steps, Begin and its commit: whatever does not hold  *)
(* a lock in common may commit in between (READ COMMITTED).  The refund of *)
(* a purchase is SERIALIZABLE and fails when a row it writes has changed,  *)
(* so it is one step.  Of time the model keeps whether a reward is due and *)
(* whether it has expired; all transfers are made on one day.              *)
(*                                                                         *)
(* A payment at the gateway writes movements too, with its approval and    *)
(* with its return in full, and leaves the balance alone.  Such payments   *)
(* are those of the orders rewards are for, and what is left of an order   *)
(* to which its buyer has applied credit (only the simulator takes these). *)
(*                                                                         *)
(* A definition under "Bug:" is used by no other: it takes the place of    *)
(* the one after it to show that a property notices the bug.               *)
(***************************************************************************)
EXTENDS Integers, FiniteSets, FiniteSetsExt, SequencesExt

CONSTANTS
    Clients,        \* users with a wallet
    Funds,          \* approved top-ups, each of them a lot
    FundCents,
    Rewards,        \* orders of referred buyers, each with its reward and lot
    BaseCents,      \* customerFundedCents of these orders, all paid at the gateway
    RewardBps, PlatformBps, MarginBps,      \* program settings, in parts of Whole
    Whole,          \* 10 000 in the code
    Transfers,      \* idempotency keys of transfers
    SendCents,
    DailyLimit,     \* maxDailyTransferCents
    Buys,           \* orders paid with the wallet, or partly with its credit
    BuyCents,       \* what a purchase takes from the wallet
    RestCents,      \* amountCents of the payment of what credit does not cover
    OwnerOf,        \* the user of a top-up, a reward, a transfer, a purchase
    BuyerOf,        \* the user who placed the order of a reward
    Receiver,       \* the user a transfer goes to
    Txs             \* transactions that can be open at once

\* What the platform keeps when it has paid a reward, checked by updateSettings.
MarginProtected(reward, commission, margin) == reward <= commission - margin

ASSUME WalletAssumption ==
    /\ FundCents \in Nat \ {0} /\ BaseCents \in Nat /\ SendCents \in Nat \ {0}
    /\ BuyCents \in Nat \ {0} /\ RestCents \in Nat
    /\ DailyLimit \in Nat /\ Whole \in Nat \ {0}
    /\ RewardBps \in 0..Whole /\ PlatformBps \in 0..Whole /\ MarginBps \in 0..Whole
    /\ MarginProtected(RewardBps, PlatformBps, MarginBps)
    /\ IsFiniteSet(Funds \cup Rewards \cup Transfers \cup Buys)
    /\ OwnerOf \in [Funds \cup Rewards \cup Transfers \cup Buys -> Clients]
    /\ BuyerOf \in [Rewards -> Clients] /\ Rewards \cap Buys = {}
    /\ Receiver \in [Transfers -> Clients]
    /\ \A x \in Transfers : Receiver[x] # OwnerOf[x]

VARIABLES
    balance,        \* Wallet.balanceCents
    moved,          \* sum of the amounts of a wallet's movements of credit of each type
    outside,        \* the same of those that stand for payments at the gateway
    left,           \* remainingAmountCents of a lot
    lotStatus,      \* WalletCreditLot.status, NONE before it exists
    worth,          \* originalAmountCents of a lot
    expired,        \* rewards whose expiresAt has passed
    reward,         \* ReferralReward.status, NONE before it exists
    source,         \* status of the order a reward is for
    referred,       \* the orders whose buyer is associated with the beneficiary
    booked,         \* LedgerTransactions of a reward: its posting, its reversal
    split,          \* purchases paid partly with credit: promotionalCreditUsedCents > 0
    approved,       \* payments at the gateway with an approvedAt
    partly,         \* refundedAmountCents of the order of a reward before its return in full
    bought,         \* Order.status of a purchase, NONE before it exists
    taken,          \* WalletCreditConsumption.amountCents, of a purchase and a lot
    restored,       \* its restoredCents
    rows,           \* the lots of a purchase by the id of the consumption
    refunded,       \* refundedAmountCents of the payment of a purchase
    sent,           \* completed transfers
    txn             \* open transactions

gatewayVars == <<outside, split, approved, partly>>

walletVars == <<balance, moved, left, lotStatus, worth, expired, reward, source, referred, booked,
                bought, taken, restored, rows, refunded, sent, txn, gatewayVars>>

-----------------------------------------------------------------------------
(* Types and helper state formulae.                                        *)

Copies == Transfers \X Rewards     \* the lot a transfer makes of a reward's lot
Lots   == Funds \cup Rewards \cup Copies

MovementTypes == {"TOP_UP", "PURCHASE", "REFUND", "TRANSFER_IN", "TRANSFER_OUT",
                  "REFERRAL_REWARD", "REFERRAL_REVERSAL", "CREDIT_EXPIRATION"}
OutsideTypes   == {"PURCHASE", "REFUND"}
LotStatuses    == {"NONE", "AVAILABLE", "PARTIALLY_USED", "USED", "EXPIRED", "REVERSED"}
RewardStatuses == {"NONE", "PENDING", "AVAILABLE", "PARTIALLY_USED", "USED", "EXPIRED", "REVERSED"}

\* The wallet of a lot, and when it expires: with the reward it comes from.
Holder(l)  == IF l \in Copies THEN Receiver[l[1]] ELSE OwnerOf[l]
Origin(l)  == IF l \in Copies THEN l[2] ELSE l
Expired(l) == Origin(l) \in expired

Usable(l)  == lotStatus[l] \in {"AVAILABLE", "PARTIALLY_USED"} /\ left[l] > 0 /\ ~Expired(l)
UsableOf(u) == {l \in Lots : Holder(l) = u /\ Usable(l)}

Total(f, S) == MapThenSumSet(LAMBDA l : f[l], S)

\* An open transaction: what it does, for which purchase, transfer, reward or
\* lot, and the remainders, the reversed lots and the status of the reward it
\* has read.
Idle == [kind |-> "idle", of |-> "", seen |-> [l \in Lots |-> 0], dead |-> {}, was |-> "NONE"]
Dead == {l \in Lots : lotStatus[l] = "REVERSED"}
Open(kind) == {t \in Txs : txn[t].kind = kind}

\* The advisory locks customer-wallet:<user> and wallet-transfer:<wallet>.
PurchaseLocked(u) == \E t \in Open("buy") \cup Open("restore") : OwnerOf[txn[t].of] = u
TransferLocked(U) == \E t \in Open("send") : {OwnerOf[txn[t].of], Receiver[txn[t].of]} \cap U # {}

Smaller(m, n) == IF m < n THEN m ELSE n
Larger(m, n)  == IF m > n THEN m ELSE n

\* The ways to take an amount from the lots that were read: lots that expire
\* come first, and each is emptied before the next one is touched.
Uses(seen, S, cents) ==
    {use \in [S -> 0..cents] :
        /\ \A l \in S : use[l] <= seen[l]
        /\ Total(use, S) = cents
        /\ Cardinality({l \in S : use[l] \in 1..(seen[l] - 1)}) <= 1
        /\ (\E l \in S \cap Funds : use[l] > 0) => \A l \in S \ Funds : use[l] = seen[l]}

AfterUse(n)  == IF n = 0 THEN "USED" ELSE "PARTIALLY_USED"
AfterGive(l, n) == IF n >= worth[l] THEN "AVAILABLE" ELSE "PARTIALLY_USED"

\* A wallet changes together with a movement of the same amount.
Move(u, type, cents) ==
    /\ balance' = [balance EXCEPT ![u] = @ + cents]
    /\ moved' = [moved EXCEPT ![u][type] = @ + cents]

\* A payment at the gateway writes a movement and moves no credit.
MoveOutside(u, type, cents) == outside' = [outside EXCEPT ![u][type] = @ + cents]

End(t) == txn' = [txn EXCEPT ![t] = Idle]

-----------------------------------------------------------------------------
\* Approved top-ups are lots of their owners; the rest is still to come.
WalletInit ==
    LET funds(u) == FundCents * Cardinality({f \in Funds : OwnerOf[f] = u}) IN
    /\ balance = [u \in Clients |-> funds(u)]
    /\ moved = [u \in Clients |-> [m \in MovementTypes |-> IF m = "TOP_UP" THEN funds(u) ELSE 0]]
    /\ left = [l \in Lots |-> IF l \in Funds THEN FundCents ELSE 0]
    /\ lotStatus = [l \in Lots |-> IF l \in Funds THEN "AVAILABLE" ELSE "NONE"]
    /\ worth = left
    /\ expired = {}
    /\ reward = [r \in Rewards |-> "NONE"]
    /\ source = [r \in Rewards |-> "NONE"]
    /\ referred = {}
    /\ outside = [u \in Clients |-> [m \in OutsideTypes |-> 0]]
    /\ split = {}
    /\ approved = {}
    /\ partly = [r \in Rewards |-> 0]
    /\ booked = [r \in Rewards |-> {}]
    /\ bought = [b \in Buys |-> "NONE"]
    /\ taken = [b \in Buys |-> [l \in Lots |-> 0]]
    /\ restored = taken
    /\ rows = [b \in Buys |-> <<>>]
    /\ refunded = [b \in Buys |-> 0]
    /\ sent = {}
    /\ txn = [t \in Txs |-> Idle]

\* associate: a buyer without orders names who referred them.
Associate(r) ==
    /\ r \notin referred
    /\ source[r] = "NONE"
    /\ referred' = referred \cup {r}
    /\ UNCHANGED <<balance, moved, left, lotStatus, worth, expired, reward, source, booked,
                   bought, taken, restored, rows, refunded, sent, txn, gatewayVars>>

\* createRewardForPaidOrder, in the transaction that settles the order, unless
\* its stock is gone: a share of what the buyer paid themselves, if it is any.
RewardCents == (BaseCents * RewardBps) \div Whole

PaySource(r, fulfilled) ==
    /\ source[r] = "NONE"
    /\ source' = [source EXCEPT ![r] = "PAID"]
    /\ reward' = [reward EXCEPT ![r] =
                    IF fulfilled /\ r \in referred /\ RewardCents > 0 THEN "PENDING" ELSE @]
    /\ approved' = approved \cup {r}
    /\ MoveOutside(BuyerOf[r], "PURCHASE", -BaseCents)
    /\ UNCHANGED <<balance, moved, left, lotStatus, worth, expired, referred, booked,
                   bought, taken, restored, rows, refunded, sent, txn, split, partly>>

\* PARTIALLY_REFUNDED: of the wallet only totalSpentCents changes.  It may be
\* heard before the approval, which then comes too late to be applied.
ReturnSome(r, sum) ==
    /\ source[r] \in {"NONE", "PAID"}
    /\ \A t \in Open("reverse") : txn[t].of # r
    /\ partly[r] < sum /\ sum < BaseCents
    /\ source' = [source EXCEPT ![r] = "PAID"]
    /\ partly' = [partly EXCEPT ![r] = sum]
    /\ UNCHANGED <<balance, moved, left, lotStatus, worth, expired, reward, referred, booked,
                   bought, taken, restored, rows, refunded, sent, txn, outside, split, approved>>

\* processDueRewards, its first loop: the claim is one conditional update, the
\* wallet, the lot, the movement and the posting of the ledger follow it.
Release(r) ==
    /\ reward[r] = "PENDING"
    /\ reward' = [reward EXCEPT ![r] = "AVAILABLE"]
    /\ Move(OwnerOf[r], "REFERRAL_REWARD", RewardCents)
    /\ left' = [left EXCEPT ![r] = RewardCents]
    /\ worth' = [worth EXCEPT ![r] = RewardCents]
    /\ lotStatus' = [lotStatus EXCEPT ![r] = "AVAILABLE"]
    /\ booked' = [booked EXCEPT ![r] = @ \cup {"REFERRAL_REWARD"}]
    /\ UNCHANGED <<expired, source, referred, bought, taken, restored, rows, refunded, sent, txn,
                   gatewayVars>>

\* The expiry of a reward, and of what was transferred of it, passes.
Lapse(r) ==
    /\ reward[r] # "NONE" /\ r \notin expired
    /\ expired' = expired \cup {r}
    /\ UNCHANGED <<balance, moved, left, lotStatus, worth, reward, source, referred, booked,
                   bought, taken, restored, rows, refunded, sent, txn, gatewayVars>>

-----------------------------------------------------------------------------
(* Transactions that write what they computed from the lots they read.     *)

Begin(t, kind, id, seen, was) ==
    /\ txn[t] = Idle
    /\ txn' = [txn EXCEPT ![t] = [kind |-> kind, of |-> id, was |-> was, dead |-> Dead \cap seen,
                                  seen |-> [l \in Lots |-> IF l \in seen THEN left[l] ELSE 0]]]
    /\ UNCHANGED <<balance, moved, left, lotStatus, worth, expired, reward, source, referred,
                   booked, bought, taken, restored, rows, refunded, sent, gatewayVars>>

\* consumeWalletBalance and consumeCredits, under the lock of the customer's
\* wallet: the balance and the lots are read.
BeginBuy(t, b) ==
    LET u == OwnerOf[b] IN
    /\ bought[b] = "NONE"
    /\ ~PurchaseLocked(u)
    /\ balance[u] >= BuyCents
    /\ Begin(t, "buy", b, UsableOf(u), "NONE")

\* The lots, the rewards of those that have one, the consumptions in the order
\* of their ids, and the balance.  What the credit does not cover is paid at the
\* gateway.  Without lots enough there is no way to do so: the transaction
\* fails, see Abort.
CommitBuy(t) ==
    LET b == txn[t].of  u == OwnerOf[b]  seen == txn[t].seen
        S == {l \in Lots : seen[l] > 0}
    IN
    /\ txn[t].kind = "buy"
    /\ \E use \in Uses(seen, S, BuyCents) :
        LET T == {l \in S : use[l] > 0} IN
        /\ left' = [l \in Lots |-> IF l \in T THEN seen[l] - use[l] ELSE left[l]]
        /\ lotStatus' = [l \in Lots |-> IF l \in T THEN AfterUse(seen[l] - use[l])
                                        ELSE lotStatus[l]]
        /\ reward' = [r \in Rewards |-> IF r \in T THEN AfterUse(seen[r] - use[r])
                                        ELSE reward[r]]
        /\ taken' = [taken EXCEPT ![b] = [l \in Lots |-> IF l \in T THEN use[l] ELSE 0]]
        /\ \E q \in SetToSeqs(T) : rows' = [rows EXCEPT ![b] = q]
    /\ Move(u, "PURCHASE", -BuyCents)
    /\ bought' = [bought EXCEPT ![b] = "PENDING"]
    /\ split' \in {split, split \cup {b}}
    /\ End(t)
    /\ UNCHANGED <<worth, expired, source, referred, booked, restored, refunded, sent,
                   outside, approved, partly>>

\* transfer: the locks of both wallets, the sum of the day, then the lots.
BeginSend(t, x) ==
    LET u == OwnerOf[x] IN
    /\ x \notin sent
    /\ ~TransferLocked({u, Receiver[x]})
    /\ SendCents * Cardinality({y \in sent : OwnerOf[y] = u}) + SendCents <= DailyLimit
    /\ Begin(t, "send", x, UsableOf(u) \cap Rewards, "NONE")

\* Each lot that gives makes one of the same expiry for who receives; a key
\* that was used meanwhile fails as it is unique.
CommitSend(t) ==
    LET x == txn[t].of  u == OwnerOf[x]  v == Receiver[x]  seen == txn[t].seen
        S == {l \in Lots : seen[l] > 0}
    IN
    /\ txn[t].kind = "send"
    /\ x \notin sent
    /\ \E use \in Uses(seen, S, SendCents) :
        LET T == {l \in S : use[l] > 0}  copied == {x} \X T IN
        /\ left' = [l \in Lots |-> IF l \in T THEN seen[l] - use[l]
                                   ELSE IF l \in copied THEN use[l[2]] ELSE left[l]]
        /\ lotStatus' = [l \in Lots |-> IF l \in T THEN AfterUse(seen[l] - use[l])
                                        ELSE IF l \in copied THEN "AVAILABLE"
                                        ELSE lotStatus[l]]
        /\ worth' = [l \in Lots |-> IF l \in copied THEN use[l[2]] ELSE worth[l]]
    /\ balance' = [balance EXCEPT ![u] = @ - SendCents, ![v] = @ + SendCents]
    /\ moved' = [moved EXCEPT ![u]["TRANSFER_OUT"] = @ - SendCents,
                              ![v]["TRANSFER_IN"] = @ + SendCents]
    /\ sent' = sent \cup {x}
    /\ End(t)
    /\ UNCHANGED <<expired, reward, source, referred, booked, bought, taken, restored, rows,
                   refunded, gatewayVars>>

\* processDueRewards, its second loop: a lot is read again without a lock.
BeginExpire(t, l) ==
    /\ Expired(l) /\ left[l] > 0 /\ lotStatus[l] \in {"AVAILABLE", "PARTIALLY_USED"}
    /\ Begin(t, "expire", l, {l}, "NONE")

CommitExpire(t) ==
    LET l == txn[t].of IN
    /\ txn[t].kind = "expire"
    /\ left' = [left EXCEPT ![l] = 0]
    /\ lotStatus' = [lotStatus EXCEPT ![l] = "EXPIRED"]
    /\ Move(Holder(l), "CREDIT_EXPIRATION", -txn[t].seen[l])
    /\ reward' = IF l \in Rewards THEN [reward EXCEPT ![l] = "EXPIRED"] ELSE reward
    /\ End(t)
    /\ UNCHANGED <<worth, expired, source, referred, booked, bought, taken, restored, rows,
                   refunded, sent, gatewayVars>>

\* REFUNDED or CHARGEBACK of the order of a buyer, which is locked, and in its
\* transaction reverseOrderEffects: the reward and its lot are read without a
\* lock of the wallet.
BeginReverse(t, r) ==
    /\ source[r] = "PAID"
    /\ \A o \in Open("reverse") : txn[o].of # r
    /\ Begin(t, "reverse", r, {r}, reward[r])

\* Bug: what came back in parts is shown again.
ToReturnWhole(r) == BaseCents

ToReturn(r) == BaseCents - partly[r]

\* The whole reward is taken back if any of it remains, none of it otherwise.
\* The buyer's wallet, which is locked by restoreOrderCredits though no credit
\* paid for the order, shows what came back last.
CommitReverse(t) ==
    LET r == txn[t].of  was == txn[t].was  remains == txn[t].seen[r] > 0 IN
    /\ txn[t].kind = "reverse"
    /\ ~PurchaseLocked(BuyerOf[r])
    /\ source' = [source EXCEPT ![r] = "REFUNDED"]
    /\ IF was \notin {"NONE", "REVERSED"} /\ remains
       THEN /\ left' = [left EXCEPT ![r] = 0]
            /\ lotStatus' = [lotStatus EXCEPT ![r] = "REVERSED"]
            /\ Move(OwnerOf[r], "REFERRAL_REVERSAL", -RewardCents)
       ELSE UNCHANGED <<left, lotStatus, balance, moved>>
    /\ IF was \notin {"NONE", "REVERSED"}
       THEN /\ reward' = [reward EXCEPT ![r] = "REVERSED"]
            /\ booked' = [booked EXCEPT ![r] =
                            IF "REFERRAL_REWARD" \in @ THEN @ \cup {"REFERRAL_REWARD_REVERSAL"}
                            ELSE @]
       ELSE UNCHANGED <<reward, booked>>
    /\ MoveOutside(BuyerOf[r], "REFUND", ToReturn(r))
    /\ End(t)
    /\ UNCHANGED <<worth, expired, referred, bought, taken, restored, rows, refunded, sent,
                   split, approved, partly>>

\* A transaction rolls back: too little credit, a deadlock, a lost connection.
Abort(t) ==
    /\ txn[t] # Idle
    /\ End(t)
    /\ UNCHANGED <<balance, moved, left, lotStatus, worth, expired, reward, source, referred,
                   booked, bought, taken, restored, rows, refunded, sent, gatewayVars>>

-----------------------------------------------------------------------------
(* A purchase after its checkout.                                          *)

\* checkout confirms the purchase after the transaction that took the credit,
\* the gateway the rest of one that is split; one that neither confirms expires,
\* and may be confirmed late.
Settle(b, status) ==
    /\ \/ bought[b] = "PENDING"
       \/ bought[b] = "EXPIRED" /\ status = "PAID"
    /\ bought' = [bought EXCEPT ![b] = status]
    /\ IF b \in split /\ status = "PAID"
       THEN /\ approved' = approved \cup {b}
            /\ MoveOutside(OwnerOf[b], "PURCHASE", -RestCents)
       ELSE UNCHANGED <<approved, outside>>
    /\ UNCHANGED <<balance, moved, left, lotStatus, worth, expired, reward, source, referred,
                   booked, taken, restored, rows, refunded, sent, txn, split, partly>>

\* Bug: the shares are rounded one by one.
TargetRounded(q, amounts, cents, i) ==
    (amounts[q[i]] * cents) \div Total(amounts, ToSet(q))

\* What the consumptions of a purchase give back once `cents` of it are
\* refunded: shares of the sum, rounded so that they add up to it.
Target(q, amounts, cents, i) ==
    LET sum(n) == (Total(amounts, {q[j] : j \in 1..n}) * cents) \div Total(amounts, ToSet(q)) IN
    sum(i) - sum(i - 1)

\* restoreOrderCredits, of the remainders and reversed lots it read: lots that
\* were reversed or have expired get nothing, though the consumption counts as
\* restored.
Restore(b, cents, seen, dead) ==
    LET q == rows[b]  u == OwnerOf[b]
        target == [l \in Lots |-> IF l \in ToSet(q)
                                  THEN Target(q, taken[b], cents, CHOOSE i \in DOMAIN q : q[i] = l)
                                  ELSE 0]
        T == {l \in ToSet(q) : target[l] > restored[b][l]}
        R == {l \in T : l \notin dead /\ ~Expired(l)}
        given == [l \in Lots |-> target[l] - restored[b][l]]
        now(l) == seen[l] + given[l]
    IN
    /\ restored' = [restored EXCEPT ![b] = [l \in Lots |-> IF l \in T THEN target[l] ELSE @[l]]]
    /\ left' = [l \in Lots |-> IF l \in R THEN now(l) ELSE left[l]]
    /\ lotStatus' = [l \in Lots |-> IF l \in R THEN AfterGive(l, now(l)) ELSE lotStatus[l]]
    /\ reward' = [r \in Rewards |-> IF r \in R /\ reward[r] # "REVERSED"
                                    THEN AfterGive(r, now(r)) ELSE reward[r]]
    /\ Move(u, "REFUND", Total(given, R))

\* processWalletRefund: all of the purchase, or the line of a cancelled event.
RefundBuy(b, cents) ==
    LET sum == refunded[b] + cents IN
    /\ b \notin split
    /\ bought[b] \in {"PAID", "PARTIALLY_REFUNDED"}
    /\ cents > 0 /\ sum <= BuyCents
    /\ ~PurchaseLocked(OwnerOf[b])
    /\ Restore(b, sum, left, Dead)
    /\ refunded' = [refunded EXCEPT ![b] = sum]
    /\ bought' = [bought EXCEPT ![b] = IF sum = BuyCents THEN "REFUNDED" ELSE "PARTIALLY_REFUNDED"]
    /\ UNCHANGED <<worth, expired, source, referred, booked, taken, rows, sent, txn, gatewayVars>>

\* REFUNDED or CHARGEBACK of a split purchase: restoreOrderCredits locks the
\* wallet and reads what the credit took and the lots it took it from.
BeginRestore(t, b) ==
    /\ b \in split
    /\ bought[b] = "PAID"
    /\ ~PurchaseLocked(OwnerOf[b])
    /\ Begin(t, "restore", b, ToSet(rows[b]), "NONE")

\* All of the credit is given back, and the wallet shows what the gateway
\* returned next to it.
CommitRestore(t) ==
    LET b == txn[t].of IN
    /\ txn[t].kind = "restore"
    /\ Restore(b, BuyCents, txn[t].seen, txn[t].dead)
    /\ MoveOutside(OwnerOf[b], "REFUND", RestCents)
    /\ refunded' = [refunded EXCEPT ![b] = BuyCents]
    /\ bought' = [bought EXCEPT ![b] = "REFUNDED"]
    /\ End(t)
    /\ UNCHANGED <<worth, expired, source, referred, booked, taken, rows, sent,
                   split, approved, partly>>

-----------------------------------------------------------------------------
WalletNext ==
    \/ \E r \in Rewards : \/ Associate(r) \/ Release(r) \/ Lapse(r)
                          \/ \E fulfilled \in BOOLEAN : PaySource(r, fulfilled)
                          \/ \E sum \in 1..BaseCents : ReturnSome(r, sum)
    \/ \E t \in Txs : \/ \E b \in Buys : BeginBuy(t, b) \/ BeginRestore(t, b)
                      \/ \E x \in Transfers : BeginSend(t, x)
                      \/ \E l \in Lots : BeginExpire(t, l)
                      \/ \E r \in Rewards : BeginReverse(t, r)
                      \/ CommitBuy(t)
                      \/ CommitSend(t)
                      \/ CommitExpire(t)
                      \/ CommitReverse(t)
                      \/ CommitRestore(t)
                      \/ Abort(t)
    \/ \E b \in Buys, status \in {"PAID", "EXPIRED"} : Settle(b, status)
    \/ \E b \in Buys, cents \in 1..BuyCents : RefundBuy(b, cents)

WalletSpec == WalletInit /\ [][WalletNext]_walletVars

-----------------------------------------------------------------------------
(* Properties.                                                             *)

WalletTypeOK ==
    /\ balance \in [Clients -> Int]
    /\ moved \in [Clients -> [MovementTypes -> Int]]
    /\ left \in [Lots -> Nat] /\ worth \in [Lots -> Nat]
    /\ lotStatus \in [Lots -> LotStatuses] /\ reward \in [Rewards -> RewardStatuses]
    /\ source \in [Rewards -> {"NONE", "PAID", "REFUNDED"}]
    /\ expired \subseteq Rewards /\ referred \subseteq Rewards /\ sent \subseteq Transfers
    /\ taken \in [Buys -> [Lots -> Nat]] /\ restored \in [Buys -> [Lots -> Nat]]
    /\ outside \in [Clients -> [OutsideTypes -> Int]] /\ split \subseteq Buys
    /\ approved \subseteq Rewards \cup Buys /\ partly \in [Rewards -> Nat]

Amount(u, types) == MapThenSumSet(LAMBDA m : moved[u][m], types)

\* The user who paid at the gateway, and what the movement of a type of that
\* payment says: all of it once approved, all that was left once returned.
PayerOf(g) == IF g \in Rewards THEN BuyerOf[g] ELSE OwnerOf[g]

SaysOutside(type, g) ==
    IF type = "PURCHASE"
    THEN IF g \notin approved THEN 0 ELSE IF g \in Rewards THEN -BaseCents ELSE -RestCents
    ELSE IF g \in Rewards
         THEN IF source[g] = "REFUNDED" THEN BaseCents - partly[g] ELSE 0
         ELSE IF g \in split /\ bought[g] = "REFUNDED" THEN RestCents ELSE 0

\* A balance is the sum of the movements of credit of its wallet, and these say
\* what was bought, sent, received and rewarded, each once, though transactions
\* overlap and any of them may fail.  The other movements are of what was paid
\* at the gateway, which the balance leaves out: each payment once when it was
\* approved and once when it was returned, less what came back in parts, so
\* they do not cancel out (commerce.service.ts, processPaymentEvent).
BalanceIsCredit ==
    \A u \in Clients :
        LET mine(S) == {s \in S : OwnerOf[s] = u} IN
        /\ balance[u] = Amount(u, MovementTypes)
        /\ moved[u]["PURCHASE"] = -BuyCents * Cardinality({b \in mine(Buys) : bought[b] # "NONE"})
        /\ moved[u]["TRANSFER_OUT"] = -SendCents * Cardinality(mine(sent))
        /\ moved[u]["TRANSFER_IN"] = SendCents * Cardinality({x \in sent : Receiver[x] = u})
        /\ moved[u]["REFERRAL_REWARD"] =
                RewardCents * Cardinality({r \in mine(Rewards) : booked[r] # {}})
        /\ \A type \in OutsideTypes :
               outside[u][type] = Total([g \in Rewards \cup Buys |-> SaysOutside(type, g)],
                                        {g \in Rewards \cup Buys : PayerOf(g) = u})

\* A purchase took from lots exactly what it cost, and a refund gives back no
\* less than the refunded share and no more than was taken; all of it is back
\* when all is refunded.
RefundFollowsPurchase ==
    \A b \in Buys : bought[b] # "NONE" =>
        LET back == Total(restored[b], Lots) IN
        /\ Total(taken[b], Lots) = BuyCents
        /\ refunded[b] <= back
        /\ \A l \in Lots : restored[b][l] <= taken[b][l]
        /\ bought[b] = "REFUNDED" <=> refunded[b] = BuyCents

WalletInv == WalletTypeOK /\ BalanceIsCredit /\ RefundFollowsPurchase

\* No user sends more in a day than the limit, whoever else sends at the time.
TransfersWithinLimit ==
    \A u \in Clients : SendCents * Cardinality({x \in sent : OwnerOf[x] = u}) <= DailyLimit

\* Credit of a reward that was revoked does not return to the balance
\* (docs/event-cancellation-flow.md: "vencidas o revocadas no vuelven").
RevokedNeverReturns ==
    [][\A r \in Rewards : reward[r] = "REVERSED" => left'[r] <= left[r]]_walletVars
=============================================================================
