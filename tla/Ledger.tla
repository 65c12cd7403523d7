--------------------------------- MODULE Ledger ---------------------------------
(***************************************************************************)
(* The books of the platform: what the sales to one customer by one club,  *)
(* their refunds, the customer's top-ups and rewards post to the accounts. *)
(* LedgerService, and postRewardLedger and reverseRewardLedger of          *)
(* ReferralsService.  moveClubFunds is in Withdrawals.                     *)
(*                                                                         *)
(* A posting looks for its reference and then creates it, in the           *)
(* transaction of its caller; the reference is unique, so a transaction    *)
(* that comes second rolls back.  Refunds of a payment hold its order      *)
(* locked: each is one step.                                               *)
(***************************************************************************)
EXTENDS Integers, FiniteSets, FiniteSetsExt

CONSTANTS
    Attempts,       \* payment attempts
    ProviderOf,     \* the provider of an attempt
    TotalCents,     \* Order.totalCents
    PaidCents,      \* PaymentAttempt.amountCents: without promotional credit
    FeeCentsOf,     \* PaymentAttempt.marketplaceFeeCents, 0 for none
    DefaultBps,     \* commissionBps, for an attempt without a fee
    CostBps,        \* PAYMENT_PROVIDER_COST_BPS
    Recharges,      \* top-ups of the customer
    Bonuses,        \* referral rewards of the customer
    RechargeCents, BonusCents,
    Bookers,        \* transactions being served
    NoReference

Providers == {"mercado_pago", "beerry_wallet", "simulated"}

ASSUME LedgerAssumption ==
    /\ ProviderOf \in [Attempts -> Providers]
    /\ TotalCents \in [Attempts -> Nat] /\ PaidCents \in [Attempts -> Nat \ {0}]
    /\ FeeCentsOf \in [Attempts -> Nat]
    /\ \A a \in Attempts : /\ FeeCentsOf[a] <= PaidCents[a] /\ PaidCents[a] <= TotalCents[a]
                           /\ ProviderOf[a] = "simulated" => FeeCentsOf[a] = 0
    /\ DefaultBps \in 0..10000 /\ CostBps \in Nat
    /\ RechargeCents \in Nat /\ BonusCents \in Nat
    /\ IsFiniteSet(Attempts)

VARIABLES
    balances,       \* the balance of a FinancialAccount
    entered,        \* references of LedgerTransactions
    position,       \* what the transactions of an attempt left in each account
    returned,       \* PaymentAttempt.refundedAmountCents
    whole,          \* attempts that were returned in one piece
    booker          \* the reference a transaction did not find

ledgerVars == <<balances, entered, position, returned, whole, booker>>

Accounts == {"CUSTOMER", "CLUB", "CLUB_EXTERNAL", "PLATFORM", "PROVIDER"}

Ref(kind, of) == [kind |-> kind, of |-> of]
LedgerReferences ==
    [kind : {"SALE"}, of : Attempts] \cup [kind : {"WALLET_TOP_UP"}, of : Recharges]
        \cup [kind : {"REFERRAL_REWARD", "REFERRAL_REWARD_REVERSAL"}, of : Bonuses]

-----------------------------------------------------------------------------
(* Amounts and entries: an account gains its credits less its debits.      *)

Rounded(n, d) == (2 * n + d) \div (2 * d)
Entries(customer, club, external, platform, provider) ==
    [CUSTOMER |-> customer, CLUB |-> club, CLUB_EXTERNAL |-> external,
     PLATFORM |-> platform, PROVIDER |-> provider]
Nothing == Entries(0, 0, 0, 0, 0)
Plus(f, g) == [x \in Accounts |-> f[x] + g[x]]
Negative(f) == [x \in Accounts |-> 0 - f[x]]

\* What the customer pays is the club's, to be settled by the provider of a
\* split payment and by Beerry otherwise, less the commission.
ClubEntry(a, customer, club, platform, provider) ==
    IF ProviderOf[a] = "mercado_pago" THEN Entries(customer, 0, club, platform, provider)
                                      ELSE Entries(customer, club, 0, platform, provider)

Commission(a) == IF ProviderOf[a] = "simulated" THEN Rounded(TotalCents[a] * DefaultBps, 10000)
                                                ELSE FeeCentsOf[a]
Cost(a) == IF ProviderOf[a] = "simulated" THEN Rounded(TotalCents[a] * CostBps, 10000) ELSE 0

SaleEntries(a) ==
    ClubEntry(a, 0 - TotalCents[a], TotalCents[a] - Commission(a), Commission(a) - Cost(a), Cost(a))

\* reverseSalePartial.
PartEntries(a, cents, fee) == ClubEntry(a, cents, 0 - (cents - fee), 0 - fee, 0)

\* The fee of the first "cents" that are returned, as its callers compute it.
FeeShareOf(a, cents) == Rounded(cents * FeeCentsOf[a], PaidCents[a])

RechargeEntries == Entries(RechargeCents, 0, 0, 0, 0 - RechargeCents)
BonusEntries    == Entries(BonusCents, 0, 0, 0 - BonusCents, 0)

EntriesOf(ref) ==
    CASE ref.kind = "SALE" -> SaleEntries(ref.of)
      [] ref.kind = "WALLET_TOP_UP" -> RechargeEntries
      [] ref.kind = "REFERRAL_REWARD" -> BonusEntries
      [] ref.kind = "REFERRAL_REWARD_REVERSAL" -> Negative(BonusEntries)

-----------------------------------------------------------------------------
LedgerInit ==
    /\ balances = Nothing
    /\ entered = {}
    /\ position = [a \in Attempts |-> Nothing]
    /\ returned = [a \in Attempts |-> 0]
    /\ whole = {}
    /\ booker = [h \in Bookers |-> NoReference]

\* A posting whose reference exists is returned as it is.  A reward that was
\* never posted has nothing to reverse.
FindReference(h, ref) ==
    /\ booker[h] = NoReference
    /\ ref \notin entered
    /\ ref.kind = "REFERRAL_REWARD_REVERSAL" => Ref("REFERRAL_REWARD", ref.of) \in entered
    /\ booker' = [booker EXCEPT ![h] = ref]
    /\ UNCHANGED <<balances, entered, position, returned, whole>>

\* The transaction commits, unless another one created the reference.
Post(h) ==
    LET ref == booker[h] IN
    /\ ref # NoReference
    /\ IF ref \in entered
       THEN UNCHANGED <<balances, entered, position>>
       ELSE /\ entered' = entered \cup {ref}
            /\ balances' = Plus(balances, EntriesOf(ref))
            /\ position' = IF ref.kind = "SALE" THEN [position EXCEPT ![ref.of] = EntriesOf(ref)]
                           ELSE position
    /\ booker' = [booker EXCEPT ![h] = NoReference]
    /\ UNCHANGED <<returned, whole>>

\* The caller fails after the posting: nothing of its transaction stays.
RollBack(h) ==
    /\ booker[h] # NoReference
    /\ booker' = [booker EXCEPT ![h] = NoReference]
    /\ UNCHANGED <<balances, entered, position, returned, whole>>

Return(a, cents, entries) ==
    /\ balances' = Plus(balances, entries)
    /\ position' = [position EXCEPT ![a] = Plus(@, entries)]
    /\ returned' = [returned EXCEPT ![a] = @ + cents]
    /\ UNCHANGED <<entered, booker>>

\* A part of the payment is returned, and of its fee what makes their share.
ReturnPart(a, cents) ==
    /\ Ref("SALE", a) \in entered
    /\ cents > 0 /\ returned[a] + cents <= PaidCents[a]
    /\ cents < PaidCents[a]
    /\ Return(a, cents,
              PartEntries(a, cents, FeeShareOf(a, returned[a] + cents) - FeeShareOf(a, returned[a])))
    /\ UNCHANGED whole

\* The payment is returned or charged back in one piece: reverseSale posts the
\* opposite of every entry of the sale.
ReturnWhole(a) ==
    /\ Ref("SALE", a) \in entered
    /\ returned[a] = 0
    /\ Return(a, PaidCents[a], Negative(SaleEntries(a)))
    /\ whole' = whole \cup {a}

LedgerNext ==
    \/ \E h \in Bookers :
           \/ \E ref \in LedgerReferences : FindReference(h, ref)
           \/ Post(h) \/ RollBack(h)
    \/ \E a \in Attempts :
           \/ \E cents \in 1..PaidCents[a] : ReturnPart(a, cents)
           \/ ReturnWhole(a)

LedgerSpec == LedgerInit /\ [][LedgerNext]_ledgerVars

-----------------------------------------------------------------------------
(* Properties.                                                             *)

LedgerTypeOK ==
    /\ balances \in [Accounts -> Int]
    /\ entered \subseteq LedgerReferences
    /\ position \in [Attempts -> [Accounts -> Int]]
    /\ \A a \in Attempts : returned[a] \in 0..PaidCents[a]
    /\ whole \subseteq Attempts
    /\ booker \in [Bookers -> LedgerReferences \cup {NoReference}]

Balance(f) == f["CUSTOMER"] + f["CLUB"] + f["CLUB_EXTERNAL"] + f["PLATFORM"] + f["PROVIDER"]

\* reconcileOrder: the debits of an order are its credits.
Reconciles(a) == Balance(position[a]) = 0

\* The books balance, of the platform and of each order, however postings
\* overlap, are repeated or roll back and however refunds round the fee
\* (postSale, reverseSale, reverseSalePartial, postWalletTopUp).
BooksBalance == Balance(balances) = 0 /\ \A a \in Attempts : Reconciles(a)

\* Of a payment with a fee, the platform keeps the share of what was not
\* returned and the club the rest: no refund in parts takes more from either
\* than the sale gave it, and the last one returns the whole fee; what is
\* returned in one piece leaves nothing (reverseSalePartial, reverseSale).
SharesAreKept ==
    \A a \in Attempts :
        ProviderOf[a] # "simulated" =>
            LET p == position[a]
                club == IF ProviderOf[a] = "mercado_pago" THEN "CLUB_EXTERNAL" ELSE "CLUB" IN
            /\ p[club] >= 0 /\ p["PLATFORM"] >= 0 /\ p["CUSTOMER"] <= 0
            /\ a \in whole => p = Nothing
            /\ Ref("SALE", a) \in entered /\ a \notin whole =>
                   /\ p["CUSTOMER"] = returned[a] - TotalCents[a]
                   /\ p["PLATFORM"] = FeeCentsOf[a] - FeeShareOf(a, returned[a])
            /\ returned[a] = PaidCents[a] => p["PLATFORM"] = 0

\* An account has what the transactions left in it, and each of them was
\* posted once (the unique reference of LedgerTransaction).
AccountsAreEntries ==
    \A x \in Accounts :
        balances[x] = MapThenSumSet(LAMBDA a : position[a][x], Attempts)
                     + MapThenSumSet(LAMBDA ref : EntriesOf(ref)[x],
                                     {ref \in entered : ref.kind # "SALE"})

LedgerInv == LedgerTypeOK /\ BooksBalance /\ SharesAreKept
=============================================================================
