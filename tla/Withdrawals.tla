----------------------------- MODULE Withdrawals ------------------------------
(***************************************************************************)
(* Withdrawals of a club: the request, which holds the money, its review   *)
(* and its payment by the platform.  WithdrawalsService, and moveClubFunds *)
(* of LedgerService.                                                       *)
(*                                                                         *)
(* A decision reads the request without a lock and updates it whatever its *)
(* status has become, so it is two steps.  Nothing in the code moves what  *)
(* a club sold from PENDING to AVAILABLE: the available funds are given,   *)
(* as the integration test of the withdrawals gives them.                  *)
(*                                                                         *)
(* A definition under "Bug:" is used by no other: it takes the place of    *)
(* the one after it to show that a property notices the bug.               *)
(***************************************************************************)
EXTENDS Integers, FiniteSets, FiniteSetsExt

CONSTANTS
    Withdrawals,    \* WithdrawalRequest rows that may be created
    Cents,          \* amountCents of a request
    Minimum,        \* WITHDRAWAL_MIN_CENTS
    Settled,        \* availableCents of the club at first
    Deciders,       \* requests of the platform's administrators being served
    NoWithdrawal

ASSUME WithdrawalAssumption ==
    /\ Cents \in [Withdrawals -> Nat \ {0}] /\ Minimum \in Nat /\ Settled \in Nat
    /\ IsFiniteSet(Withdrawals) /\ NoWithdrawal \notin Withdrawals

VARIABLES
    withdrawal,     \* WithdrawalRequest.status, NONE before it exists
    funds,          \* buckets of the club's FinancialAccount
    posted,         \* LedgerTransactions that name the request
    profile,        \* the club has a financial profile
    decider,        \* the decision being taken: on what, which, and the status it read
    contested       \* requests decided on while another decision was open

withdrawalVars == <<withdrawal, funds, posted, profile, decider, contested>>

-----------------------------------------------------------------------------
(* Types and helper state formulae.                                        *)

WithdrawalStatuses == {"NONE", "REQUESTED", "UNDER_REVIEW", "APPROVED", "REJECTED",
                       "PROCESSING", "PAID", "FAILED"}
Buckets   == {"AVAILABLE", "HELD", "WITHDRAWN"}
Decisions == {"approve", "reject", "process", "pay", "fail"}
References == {"WITHDRAWAL_HOLD", "WITHDRAWAL_RELEASE", "WITHDRAWAL_PAID",
               "WITHDRAWAL_FAILED_RELEASE"}

Undecided == [of |-> NoWithdrawal, what |-> "approve", was |-> "NONE"]

\* Bug: what failed may be paid after all.
AllowedAgain(what) == CASE what \in {"approve", "reject"} -> {"REQUESTED", "UNDER_REVIEW"}
                        [] what = "pay"                   -> {"APPROVED", "PROCESSING", "FAILED"}
                        [] what = "fail"                  -> {"APPROVED", "PROCESSING"}
                        [] what = "process"               -> {"APPROVED"}

\* The statuses a decision may be taken in, and the one it leads to.
Allowed(what) == CASE what \in {"approve", "reject"} -> {"REQUESTED", "UNDER_REVIEW"}
                   [] what \in {"pay", "fail"}       -> {"APPROVED", "PROCESSING"}
                   [] what = "process"               -> {"APPROVED"}

Outcome(what) == CASE what = "approve" -> "APPROVED"
                   [] what = "reject"  -> "REJECTED"
                   [] what = "process" -> "PROCESSING"
                   [] what = "pay"     -> "PAID"
                   [] what = "fail"    -> "FAILED"

\* The posting of a decision and where it moves the money from HELD.
Posting(what) == CASE what = "reject" -> {"WITHDRAWAL_RELEASE"}
                   [] what = "pay"    -> {"WITHDRAWAL_PAID"}
                   [] what = "fail"   -> {"WITHDRAWAL_FAILED_RELEASE"}
                   [] OTHER           -> {}
MovesTo(what) == IF what = "pay" THEN "WITHDRAWN" ELSE "AVAILABLE"

\* moveClubFunds: once for a reference, and only what the bucket holds.  Two
\* of one reference that overlap are told apart by its unique index.
MoveClubFunds(w, reference, from, to) ==
    IF reference \subseteq posted[w]
    THEN UNCHANGED <<funds, posted>>
    ELSE /\ funds[from] >= Cents[w]
         /\ funds' = [funds EXCEPT ![from] = @ - Cents[w], ![to] = @ + Cents[w]]
         /\ posted' = [posted EXCEPT ![w] = @ \cup reference]

-----------------------------------------------------------------------------
WithdrawalInit ==
    /\ withdrawal = [w \in Withdrawals |-> "NONE"]
    /\ funds = [b \in Buckets |-> IF b = "AVAILABLE" THEN Settled ELSE 0]
    /\ posted = [w \in Withdrawals |-> {}]
    /\ profile = FALSE
    /\ decider = [d \in Deciders |-> Undecided]
    /\ contested = {}

UpsertProfile ==
    /\ ~profile
    /\ profile' = TRUE
    /\ UNCHANGED <<withdrawal, funds, posted, decider, contested>>

\* request: the row and the hold in one transaction; without funds, neither.
RequestWithdrawal(w) ==
    /\ withdrawal[w] = "NONE"
    /\ profile
    /\ Cents[w] >= Minimum
    /\ MoveClubFunds(w, {"WITHDRAWAL_HOLD"}, "AVAILABLE", "HELD")
    /\ withdrawal' = [withdrawal EXCEPT ![w] = "REQUESTED"]
    /\ UNCHANGED <<profile, decider, contested>>

\* review, markProcessing, markPaid and markFailed read the request.
ReadWithdrawal(d, w, what) ==
    /\ decider[d] = Undecided
    /\ withdrawal[w] \in Allowed(what)
    /\ decider' = [decider EXCEPT ![d] = [of |-> w, what |-> what, was |-> withdrawal[w]]]
    /\ UNCHANGED <<withdrawal, funds, posted, profile, contested>>

\* They move the money if the decision does, and write the status.
Decide(d) ==
    LET w == decider[d].of  what == decider[d].what IN
    /\ decider[d] # Undecided
    /\ MoveClubFunds(w, Posting(what), "HELD", MovesTo(what))
    /\ withdrawal' = [withdrawal EXCEPT ![w] = Outcome(what)]
    /\ contested' = IF withdrawal[w] = decider[d].was THEN contested ELSE contested \cup {w}
    /\ decider' = [decider EXCEPT ![d] = Undecided]
    /\ UNCHANGED profile

\* The transaction rolls back: the bucket is short, the instance dies.
GiveUp(d) ==
    /\ decider[d] # Undecided
    /\ decider' = [decider EXCEPT ![d] = Undecided]
    /\ UNCHANGED <<withdrawal, funds, posted, profile, contested>>

WithdrawalNext ==
    \/ UpsertProfile
    \/ \E w \in Withdrawals : RequestWithdrawal(w)
    \/ \E d \in Deciders : \/ \E w \in Withdrawals, what \in Decisions : ReadWithdrawal(d, w, what)
                           \/ Decide(d)
                           \/ GiveUp(d)

WithdrawalSpec == WithdrawalInit /\ [][WithdrawalNext]_withdrawalVars

-----------------------------------------------------------------------------
(* Properties.                                                             *)

WithdrawalTypeOK ==
    /\ withdrawal \in [Withdrawals -> WithdrawalStatuses]
    /\ funds \in [Buckets -> Nat]
    /\ posted \in [Withdrawals -> SUBSET References]
    /\ profile \in BOOLEAN /\ contested \subseteq Withdrawals
    /\ decider \in [Deciders -> [of : Withdrawals \cup {NoWithdrawal}, what : Decisions,
                                 was : WithdrawalStatuses]]

CentsOf(S) == MapThenSumSet(LAMBDA w : Cents[w], S)
PostedOf(reference) == {w \in Withdrawals : reference \in posted[w]}

\* The buckets are what the postings say, whatever decisions overlap: no money
\* appears or is lost, none is taken that is not there, and what a request
\* says to have paid was withdrawn.
FundsFollowPostings ==
    /\ funds["AVAILABLE"] + funds["HELD"] + funds["WITHDRAWN"] = Settled
    /\ funds["WITHDRAWN"] = CentsOf(PostedOf("WITHDRAWAL_PAID"))
    /\ funds["HELD"] = CentsOf(PostedOf("WITHDRAWAL_HOLD"))
                       - CentsOf(PostedOf("WITHDRAWAL_RELEASE"))
                       - CentsOf(PostedOf("WITHDRAWAL_PAID"))
                       - CentsOf(PostedOf("WITHDRAWAL_FAILED_RELEASE"))
    /\ \A w \in Withdrawals : withdrawal[w] = "PAID" => "WITHDRAWAL_PAID" \in posted[w]

WithdrawalInv == WithdrawalTypeOK /\ FundsFollowPostings

\* "Los retiros deben ... reservar saldo": unless two decisions on one request
\* overlapped, every open request holds its money and no request has let go
\* of it twice.
OpenIsReserved ==
    contested = {} =>
        /\ funds["HELD"] = CentsOf({w \in Withdrawals : withdrawal[w] \in
                                    {"REQUESTED", "UNDER_REVIEW", "APPROVED", "PROCESSING"}})
        /\ \A w \in Withdrawals : Cardinality(posted[w]) <= 2
=============================================================================
