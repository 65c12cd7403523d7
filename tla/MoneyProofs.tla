---------------------------- MODULE MoneyProofs -----------------------------
(***************************************************************************)
(* The invariants of the parts that hold money, withdrawals, the entries   *)
(* of the ledger and the Beerry wallet, for any accounts and amounts.      *)
(***************************************************************************)
EXTENDS MCPlatform, SumTheorems

-----------------------------------------------------------------------------
(***************************************************************************)
(* Withdrawals                                                             *)
(***************************************************************************)
\* The requests whose postings p hold a reference.
HoldersOf(p, reference) == {w \in Withdrawals : reference \in p[w]}

\* Buckets f that are what the postings p say.
Follow(f, p) ==
    /\ f["AVAILABLE"] + f["HELD"] + f["WITHDRAWN"] = Settled
    /\ f["WITHDRAWN"] = SumOver(Cents, HoldersOf(p, "WITHDRAWAL_PAID"))
    /\ f["HELD"] = SumOver(Cents, HoldersOf(p, "WITHDRAWAL_HOLD"))
                   - SumOver(Cents, HoldersOf(p, "WITHDRAWAL_RELEASE"))
                   - SumOver(Cents, HoldersOf(p, "WITHDRAWAL_PAID"))
                   - SumOver(Cents, HoldersOf(p, "WITHDRAWAL_FAILED_RELEASE"))

\* The statuses of a request whose money is held, the requests in one of them
\* by the statuses s, and what a request that nobody contested has posted.
OpenStatuses == {"REQUESTED", "UNDER_REVIEW", "APPROVED", "PROCESSING"}
OpenOnes(s) == {w \in Withdrawals : s[w] \in OpenStatuses}
PostingsOf(status) ==
    IF status = "NONE" THEN {}
    ELSE IF status = "REJECTED" THEN {"WITHDRAWAL_HOLD", "WITHDRAWAL_RELEASE"}
    ELSE IF status = "PAID" THEN {"WITHDRAWAL_HOLD", "WITHDRAWAL_PAID"}
    ELSE IF status = "FAILED" THEN {"WITHDRAWAL_HOLD", "WITHDRAWAL_FAILED_RELEASE"}
    ELSE {"WITHDRAWAL_HOLD"}

\* Held is what the open requests ask, and each posted what its status says.
Reserved(s, f, p) ==
    /\ f["HELD"] = SumOver(Cents, OpenOnes(s))
    /\ \A w \in Withdrawals : p[w] = PostingsOf(s[w])

\* The decision being taken is on a request that existed, allowed by the
\* status that was read.
DecidersKnow ==
    \A d \in Deciders :
        decider[d] # Undecided =>
            /\ decider[d].of \in Withdrawals /\ withdrawal[decider[d].of] # "NONE"
            /\ decider[d].was \in Allowed(decider[d].what)

\* The inductive invariant: what is asked of the buckets, and why a posting is
\* the first of its kind when no decision was contested.
WithdrawalIInv ==
    /\ WithdrawalTypeOK
    /\ DecidersKnow
    /\ \A w \in Withdrawals : withdrawal[w] = "PAID" => "WITHDRAWAL_PAID" \in posted[w]
    /\ \A w \in Withdrawals : withdrawal[w] = "NONE" => posted[w] = {}
    /\ Follow(funds, posted)
    /\ contested = {} => Reserved(withdrawal, funds, posted)

\* Between which buckets a posting moves the money.
MovesBetween(r, from, to) ==
    \/ r = "WITHDRAWAL_HOLD" /\ from = "AVAILABLE" /\ to = "HELD"
    \/ r = "WITHDRAWAL_PAID" /\ from = "HELD" /\ to = "WITHDRAWN"
    \/ r \in {"WITHDRAWAL_RELEASE", "WITHDRAWAL_FAILED_RELEASE"} /\ from = "HELD"
       /\ to = "AVAILABLE"

\* A first posting moves the money of the request and adds it to the sum.
LEMMA PostingMoves ==
    ASSUME NEW f \in [Buckets -> Nat], NEW p \in [Withdrawals -> SUBSET References], Follow(f, p),
           NEW w \in Withdrawals, NEW r \in References, r \notin p[w], NEW from, NEW to,
           MovesBetween(r, from, to), f[from] >= Cents[w],
           NEW g, g = [f EXCEPT ![from] = @ - Cents[w], ![to] = @ + Cents[w]],
           NEW q, q = [p EXCEPT ![w] = @ \cup {r}]
    PROVE  g \in [Buckets -> Nat] /\ q \in [Withdrawals -> SUBSET References] /\ Follow(g, q)
<1>0. Cents \in [Withdrawals -> Nat \ {0}]
    BY WithdrawalAssumption
<1>1. /\ Cents[w] \in Nat /\ Cents[w] \in Int
      /\ \A y \in Withdrawals : Cents[y] \in Int
      /\ IsFiniteSet(Withdrawals) /\ Settled \in Nat
    <2>1. Cents[w] \in Nat
        BY <1>0
    <2>2. ASSUME NEW y \in Withdrawals PROVE Cents[y] \in Int
        <3>1. Cents[y] \in Nat \ {0}
            BY <1>0
        <3> QED BY <3>1
    <2> QED
        BY <2>1, <2>2, WithdrawalAssumption
<1>2. q \in [Withdrawals -> SUBSET References] /\ q[w] = p[w] \cup {r}
      /\ \A y \in Withdrawals : y # w => q[y] = p[y]
    OBVIOUS
<1> USE DEF MovesBetween
<1>3. /\ g \in [Buckets -> Nat] /\ g[from] = f[from] - Cents[w] /\ g[to] = f[to] + Cents[w]
      /\ \A b \in Buckets : b \notin {from, to} => g[b] = f[b]
    BY <1>1 DEF Buckets
<1>4. ASSUME NEW x \in References \ {r} PROVE HoldersOf(q, x) = HoldersOf(p, x)
    BY <1>2 DEF HoldersOf
<1>5. SumOver(Cents, HoldersOf(q, r)) = Cents[w] + SumOver(Cents, HoldersOf(p, r))
    <2> DEFINE S == HoldersOf(p, r)
    <2>1. HoldersOf(q, r) = S \cup {w} /\ w \notin S /\ S \subseteq Withdrawals
        BY <1>2 DEF HoldersOf
    <2> HIDE DEF S
    <2>2. IsFiniteSet(S)
        BY <1>1, <2>1, FS_Subset
    <2>3. \A y \in S : Cents[y] \in Int
        BY <1>1, <2>1
    <2>4. Cents[w] \in Int
        BY <1>1
    <2>5. SumOver(Cents, S \cup {w}) = Cents[w] + SumOver(Cents, S)
        BY <2>1, <2>2, <2>3, <2>4, SumWith
    <2> QED
        BY <2>1, <2>5 DEF S
<1>6. ASSUME NEW x \in References
      PROVE  SumOver(Cents, HoldersOf(p, x)) \in Int
    <2>1. HoldersOf(p, x) \subseteq Withdrawals
        BY DEF HoldersOf
    <2>2. IsFiniteSet(HoldersOf(p, x))
        BY <1>1, <2>1, FS_Subset
    <2>3. \A y \in HoldersOf(p, x) : Cents[y] \in Int
        BY <1>1, <2>1
    <2> QED
        BY <2>2, <2>3, SumIsInt
<1> DEFINE T(x) == SumOver(Cents, HoldersOf(p, x))
           U(x) == SumOver(Cents, HoldersOf(q, x))
<1>7. /\ \A x \in References : T(x) \in Int
      /\ \A x \in References : x # r => U(x) = T(x)
      /\ U(r) = Cents[w] + T(r)
    BY <1>4, <1>5, <1>6
<1>8. /\ f["AVAILABLE"] + f["HELD"] + f["WITHDRAWN"] = Settled
      /\ f["WITHDRAWN"] = T("WITHDRAWAL_PAID")
      /\ f["HELD"] = T("WITHDRAWAL_HOLD") - T("WITHDRAWAL_RELEASE") - T("WITHDRAWAL_PAID")
                     - T("WITHDRAWAL_FAILED_RELEASE")
    BY DEF Follow
<1>9. SUFFICES
      /\ g["AVAILABLE"] + g["HELD"] + g["WITHDRAWN"] = Settled
      /\ g["WITHDRAWN"] = U("WITHDRAWAL_PAID")
      /\ g["HELD"] = U("WITHDRAWAL_HOLD") - U("WITHDRAWAL_RELEASE") - U("WITHDRAWAL_PAID")
                     - U("WITHDRAWAL_FAILED_RELEASE")
    BY <1>2, <1>3 DEF Follow
<1>10. f["AVAILABLE"] \in Nat /\ f["HELD"] \in Nat /\ f["WITHDRAWN"] \in Nat
    BY DEF Buckets
<1> HIDE DEF T, U
<1>11. /\ U("WITHDRAWAL_HOLD") = IF r = "WITHDRAWAL_HOLD" THEN Cents[w] + T("WITHDRAWAL_HOLD")
                                 ELSE T("WITHDRAWAL_HOLD")
       /\ U("WITHDRAWAL_PAID") = IF r = "WITHDRAWAL_PAID" THEN Cents[w] + T("WITHDRAWAL_PAID")
                                 ELSE T("WITHDRAWAL_PAID")
       /\ U("WITHDRAWAL_RELEASE") = IF r = "WITHDRAWAL_RELEASE"
                                    THEN Cents[w] + T("WITHDRAWAL_RELEASE")
                                    ELSE T("WITHDRAWAL_RELEASE")
       /\ U("WITHDRAWAL_FAILED_RELEASE") = IF r = "WITHDRAWAL_FAILED_RELEASE"
                                           THEN Cents[w] + T("WITHDRAWAL_FAILED_RELEASE")
                                           ELSE T("WITHDRAWAL_FAILED_RELEASE")
    BY <1>7 DEF References
<1>12. /\ T("WITHDRAWAL_HOLD") \in Int /\ T("WITHDRAWAL_PAID") \in Int
       /\ T("WITHDRAWAL_RELEASE") \in Int /\ T("WITHDRAWAL_FAILED_RELEASE") \in Int
    BY <1>7 DEF References
<1>13. CASE r = "WITHDRAWAL_HOLD" /\ from = "AVAILABLE" /\ to = "HELD"
    BY <1>1, <1>3, <1>8, <1>10, <1>11, <1>12, <1>13 DEF Buckets
<1>14. CASE r = "WITHDRAWAL_PAID" /\ from = "HELD" /\ to = "WITHDRAWN"
    BY <1>1, <1>3, <1>8, <1>10, <1>11, <1>12, <1>14 DEF Buckets
<1>15. CASE r \in {"WITHDRAWAL_RELEASE", "WITHDRAWAL_FAILED_RELEASE"} /\ from = "HELD"
            /\ to = "AVAILABLE"
    BY <1>1, <1>3, <1>8, <1>10, <1>11, <1>12, <1>15 DEF Buckets
<1> QED
    BY <1>13, <1>14, <1>15

\* What the open requests ask by the statuses s and t, which differ for w.
OpenFollows(s, t, w) ==
    /\ s[w] \notin OpenStatuses /\ t[w] \in OpenStatuses
       => SumOver(Cents, OpenOnes(t)) = Cents[w] + SumOver(Cents, OpenOnes(s))
    /\ s[w] \in OpenStatuses /\ t[w] \notin OpenStatuses
       => SumOver(Cents, OpenOnes(s)) = Cents[w] + SumOver(Cents, OpenOnes(t))
    /\ s[w] \in OpenStatuses /\ t[w] \in OpenStatuses
       => SumOver(Cents, OpenOnes(t)) = SumOver(Cents, OpenOnes(s))
    /\ SumOver(Cents, OpenOnes(s)) \in Int /\ SumOver(Cents, OpenOnes(t)) \in Int

\* What the open requests ask, when one more is open and when one less is.
LEMMA OpenChanges ==
    ASSUME NEW s \in [Withdrawals -> WithdrawalStatuses], NEW w \in Withdrawals,
           NEW status \in WithdrawalStatuses, NEW t, t = [s EXCEPT ![w] = status]
    PROVE  OpenFollows(s, t, w)
<1>0. Cents \in [Withdrawals -> Nat \ {0}]
    BY WithdrawalAssumption
<1>1. /\ Cents[w] \in Int /\ IsFiniteSet(Withdrawals)
      /\ \A y \in Withdrawals : Cents[y] \in Int
    <2>1. ASSUME NEW y \in Withdrawals PROVE Cents[y] \in Int
        <3>1. Cents[y] \in Nat \ {0}
            BY <1>0
        <3> QED BY <3>1
    <2> QED
        BY <2>1, WithdrawalAssumption
<1>2. t \in [Withdrawals -> WithdrawalStatuses] /\ t[w] = status
      /\ \A y \in Withdrawals : y # w => t[y] = s[y]
    OBVIOUS
<1>3. ASSUME NEW S, S \subseteq Withdrawals
      PROVE  IsFiniteSet(S) /\ \A y \in S : Cents[y] \in Int
    BY <1>1, <1>3, FS_Subset
<1>4. OpenOnes(s) \subseteq Withdrawals /\ OpenOnes(t) \subseteq Withdrawals
    BY DEF OpenOnes
<1>5. SumOver(Cents, OpenOnes(s)) \in Int
    BY <1>3, <1>4, SumIsInt
<1>6. SumOver(Cents, OpenOnes(t)) \in Int
    BY <1>3, <1>4, SumIsInt
<1>7. CASE s[w] \notin OpenStatuses /\ status \in OpenStatuses
    <2>1. OpenOnes(t) = OpenOnes(s) \cup {w} /\ w \notin OpenOnes(s)
        BY <1>2, <1>7 DEF OpenOnes
    <2>2. SumOver(Cents, OpenOnes(s) \cup {w}) = Cents[w] + SumOver(Cents, OpenOnes(s))
        BY <1>1, <1>3, <1>4, <2>1, SumWith
    <2> QED
        BY <1>2, <1>5, <1>6, <1>7, <2>1, <2>2 DEF OpenFollows
<1>8. CASE s[w] \in OpenStatuses /\ status \notin OpenStatuses
    <2>1. OpenOnes(s) = OpenOnes(t) \cup {w} /\ w \notin OpenOnes(t)
        BY <1>2, <1>8 DEF OpenOnes
    <2>2. SumOver(Cents, OpenOnes(t) \cup {w}) = Cents[w] + SumOver(Cents, OpenOnes(t))
        BY <1>1, <1>3, <1>4, <2>1, SumWith
    <2> QED
        BY <1>2, <1>5, <1>6, <1>8, <2>1, <2>2 DEF OpenFollows
<1>9. CASE s[w] \in OpenStatuses /\ status \in OpenStatuses
    <2>1. OpenOnes(t) = OpenOnes(s)
        BY <1>2, <1>9 DEF OpenOnes
    <2> QED
        BY <1>2, <1>5, <1>6, <1>9, <2>1 DEF OpenFollows
<1> QED
    BY <1>2, <1>5, <1>6, <1>7, <1>8, <1>9 DEF OpenFollows

\* Nothing is requested at first.
LEMMA InitWithdrawals == WithdrawalInit => WithdrawalIInv
<1> SUFFICES ASSUME WithdrawalInit PROVE WithdrawalIInv
    OBVIOUS
<1>1. Settled \in Nat /\ NoWithdrawal \notin Withdrawals
    BY WithdrawalAssumption
<1>2. Undecided \in [of : Withdrawals \cup {NoWithdrawal}, what : Decisions, was : WithdrawalStatuses]
    BY DEF Undecided, Decisions, WithdrawalStatuses
<1>3. WithdrawalTypeOK
    BY <1>1, <1>2 DEF WithdrawalInit, WithdrawalTypeOK, WithdrawalStatuses, Buckets
<1>4. DecidersKnow
    BY DEF WithdrawalInit, DecidersKnow
<1>5. \A r : HoldersOf(posted, r) = {}
    BY DEF WithdrawalInit, HoldersOf
<1>6. OpenOnes(withdrawal) = {}
    BY DEF WithdrawalInit, OpenOnes, OpenStatuses
<1>7. funds["AVAILABLE"] = Settled /\ funds["HELD"] = 0 /\ funds["WITHDRAWN"] = 0
    BY DEF WithdrawalInit, Buckets
<1>8. SumOver(Cents, {}) = 0
    BY SumOfEmpty
<1>9. Follow(funds, posted)
    <2>1. \A r : SumOver(Cents, HoldersOf(posted, r)) = 0
        BY <1>5, <1>8
    <2> QED
        BY <1>1, <1>7, <2>1 DEF Follow
<1>10. \A w \in Withdrawals : withdrawal[w] = "NONE" /\ posted[w] = {}
    BY DEF WithdrawalInit
<1>11. Reserved(withdrawal, funds, posted)
    BY <1>6, <1>7, <1>8, <1>10 DEF Reserved, PostingsOf
<1> QED
    BY <1>3, <1>4, <1>9, <1>10, <1>11 DEF WithdrawalIInv

\* The request takes the status REQUESTED and its money is held.
LEMMA RequestHolds ==
    ASSUME WithdrawalIInv, NEW w \in Withdrawals, RequestWithdrawal(w)
    PROVE  WithdrawalIInv'
<1> USE DEF WithdrawalIInv
<1>1. /\ withdrawal \in [Withdrawals -> WithdrawalStatuses] /\ funds \in [Buckets -> Nat]
      /\ posted \in [Withdrawals -> SUBSET References]
    BY DEF WithdrawalTypeOK
<1>2. /\ withdrawal[w] = "NONE" /\ withdrawal' = [withdrawal EXCEPT ![w] = "REQUESTED"]
      /\ UNCHANGED <<profile, decider, contested>> /\ posted[w] = {}
    BY DEF RequestWithdrawal
<1>3. /\ funds["AVAILABLE"] >= Cents[w]
      /\ funds' = [funds EXCEPT !["AVAILABLE"] = @ - Cents[w], !["HELD"] = @ + Cents[w]]
      /\ posted' = [posted EXCEPT ![w] = @ \cup {"WITHDRAWAL_HOLD"}]
    BY <1>2 DEF RequestWithdrawal, MoveClubFunds
<1>4. "WITHDRAWAL_HOLD" \in References /\ "WITHDRAWAL_HOLD" \notin posted[w]
    BY <1>2 DEF References
<1>5. funds' \in [Buckets -> Nat] /\ posted' \in [Withdrawals -> SUBSET References]
      /\ Follow(funds', posted')
    <2>1. MovesBetween("WITHDRAWAL_HOLD", "AVAILABLE", "HELD") /\ Follow(funds, posted)
        BY DEF MovesBetween
    <2>2. "WITHDRAWAL_HOLD" \notin posted[w] /\ funds["AVAILABLE"] >= Cents[w]
        BY <1>3, <1>4
    <2> HIDE DEF WithdrawalIInv
    <2> QED
        BY <1>1, <1>3, <1>4, <2>1, <2>2, PostingMoves
<1>6. withdrawal' \in [Withdrawals -> WithdrawalStatuses] /\ "REQUESTED" \in WithdrawalStatuses
    BY <1>1, <1>2 DEF WithdrawalStatuses
<1>7. WithdrawalTypeOK'
    BY <1>2, <1>5, <1>6 DEF WithdrawalTypeOK
<1>8. \A y \in Withdrawals : IF y = w THEN withdrawal'[y] = "REQUESTED" /\ posted'[y] = {"WITHDRAWAL_HOLD"}
                             ELSE withdrawal'[y] = withdrawal[y] /\ posted'[y] = posted[y]
    BY <1>1, <1>2, <1>3
<1>9. DecidersKnow'
    BY <1>2, <1>8 DEF DecidersKnow
<1>10. ASSUME contested' = {} PROVE Reserved(withdrawal', funds', posted')
    <2>1. Reserved(withdrawal, funds, posted)
        BY <1>2, <1>10
    <2>2. SumOver(Cents, OpenOnes(withdrawal')) = Cents[w] + SumOver(Cents, OpenOnes(withdrawal))
        <3> DEFINE t == withdrawal'
        <3>1. t = [withdrawal EXCEPT ![w] = "REQUESTED"]
            BY <1>2
        <3> HIDE DEF t, WithdrawalIInv
        <3>2. OpenFollows(withdrawal, t, w)
            BY <1>1, <1>6, <3>1, OpenChanges
        <3>3. t[w] = "REQUESTED"
            BY <1>1, <3>1
        <3> QED
            BY <1>2, <3>2, <3>3 DEF t, OpenFollows, OpenStatuses
    <2>3. funds'["HELD"] = funds["HELD"] + Cents[w] /\ funds["HELD"] \in Nat /\ Cents[w] \in Nat
        BY <1>1, <1>3, WithdrawalAssumption DEF Buckets
    <2>4. funds'["HELD"] = SumOver(Cents, OpenOnes(withdrawal'))
        BY <2>1, <2>2, <2>3 DEF Reserved
    <2>5. \A y \in Withdrawals : posted'[y] = PostingsOf(withdrawal'[y])
        BY <1>8, <2>1 DEF Reserved, PostingsOf
    <2> QED
        BY <2>4, <2>5 DEF Reserved
<1> QED
    BY <1>5, <1>7, <1>8, <1>9, <1>10

\* A decision writes its status, and moves the money if nobody did for the
\* same reason.
LEMMA DecisionHolds ==
    ASSUME WithdrawalIInv, NEW d \in Deciders, Decide(d)
    PROVE  WithdrawalIInv'
<1> USE DEF WithdrawalIInv
<1>1. /\ withdrawal \in [Withdrawals -> WithdrawalStatuses] /\ funds \in [Buckets -> Nat]
      /\ posted \in [Withdrawals -> SUBSET References] /\ contested \subseteq Withdrawals
      /\ decider[d] \in [of : Withdrawals \cup {NoWithdrawal}, what : Decisions,
                         was : WithdrawalStatuses]
    BY DEF WithdrawalTypeOK
<1>2. PICK w \in Withdrawals, what \in Decisions, was \in WithdrawalStatuses :
          decider[d].of = w /\ decider[d].what = what /\ decider[d].was = was
    BY <1>1 DEF Decide, DecidersKnow
<1>3. withdrawal[w] # "NONE" /\ was \in Allowed(what)
    BY <1>2 DEF Decide, DecidersKnow
<1>4. /\ MoveClubFunds(w, Posting(what), "HELD", MovesTo(what))
      /\ withdrawal' = [withdrawal EXCEPT ![w] = Outcome(what)]
      /\ contested' = IF withdrawal[w] = was THEN contested ELSE contested \cup {w}
      /\ decider' = [decider EXCEPT ![d] = Undecided] /\ profile' = profile
    BY <1>2 DEF Decide
<1>5. \/ what = "approve" /\ Posting(what) = {} /\ Outcome(what) = "APPROVED"
      \/ what = "process" /\ Posting(what) = {} /\ Outcome(what) = "PROCESSING"
      \/ /\ what = "reject" /\ Posting(what) = {"WITHDRAWAL_RELEASE"} /\ Outcome(what) = "REJECTED"
         /\ MovesTo(what) = "AVAILABLE"
      \/ /\ what = "pay" /\ Posting(what) = {"WITHDRAWAL_PAID"} /\ Outcome(what) = "PAID"
         /\ MovesTo(what) = "WITHDRAWN"
      \/ /\ what = "fail" /\ Posting(what) = {"WITHDRAWAL_FAILED_RELEASE"}
         /\ Outcome(what) = "FAILED" /\ MovesTo(what) = "AVAILABLE"
    BY DEF Decisions, Posting, Outcome, MovesTo
<1>6. /\ funds' \in [Buckets -> Nat] /\ posted' \in [Withdrawals -> SUBSET References]
      /\ Follow(funds', posted')
    <2>1. CASE Posting(what) \subseteq posted[w]
        BY <1>1, <1>4, <2>1 DEF MoveClubFunds
    <2>2. CASE ~(Posting(what) \subseteq posted[w])
        <3>1. PICK r \in References : Posting(what) = {r} /\ r \notin posted[w]
            BY <1>5, <2>2 DEF References
        <3>2. /\ funds["HELD"] >= Cents[w]
              /\ funds' = [funds EXCEPT !["HELD"] = @ - Cents[w], ![MovesTo(what)] = @ + Cents[w]]
              /\ posted' = [posted EXCEPT ![w] = @ \cup {r}]
            BY <1>4, <2>2, <3>1 DEF MoveClubFunds
        <3>3. MovesBetween(r, "HELD", MovesTo(what)) /\ Follow(funds, posted)
            BY <1>5, <3>1 DEF MovesBetween
        <3>4. r \notin posted[w] /\ funds["HELD"] >= Cents[w]
            BY <3>1, <3>2
        <3> HIDE DEF WithdrawalIInv
        <3> QED
            BY <1>1, <3>1, <3>2, <3>3, <3>4, PostingMoves
    <2> QED
        BY <2>1, <2>2
<1>7. \A y \in Withdrawals : y # w => withdrawal'[y] = withdrawal[y] /\ posted'[y] = posted[y]
    BY <1>1, <1>4 DEF MoveClubFunds
<1>8. withdrawal'[w] = Outcome(what) /\ posted'[w] = posted[w] \cup Posting(what)
    BY <1>1, <1>4 DEF MoveClubFunds
<1>9. Outcome(what) \in WithdrawalStatuses /\ Outcome(what) # "NONE"
    BY <1>5 DEF WithdrawalStatuses
<1>10. WithdrawalTypeOK'
    <2>1. withdrawal' \in [Withdrawals -> WithdrawalStatuses]
        BY <1>1, <1>4, <1>9
    <2>2. Undecided \in [of : Withdrawals \cup {NoWithdrawal}, what : Decisions,
                         was : WithdrawalStatuses]
        BY DEF Undecided, Decisions, WithdrawalStatuses
    <2>3. contested' \subseteq Withdrawals
        BY <1>1, <1>4
    <2> QED
        BY <1>4, <1>6, <2>1, <2>2, <2>3 DEF WithdrawalTypeOK
<1>11. DecidersKnow'
    <2>1. \A e \in Deciders : decider'[e] = IF e = d THEN Undecided ELSE decider[e]
        BY <1>4 DEF WithdrawalTypeOK
    <2>2. \A y \in Withdrawals : withdrawal[y] # "NONE" => withdrawal'[y] # "NONE"
        BY <1>7, <1>8, <1>9
    <2> QED
        BY <2>1, <2>2 DEF DecidersKnow
<1>12. \A y \in Withdrawals : withdrawal'[y] = "PAID" => "WITHDRAWAL_PAID" \in posted'[y]
    BY <1>5, <1>7, <1>8
<1>13. \A y \in Withdrawals : withdrawal'[y] = "NONE" => posted'[y] = {}
    BY <1>7, <1>8, <1>9
<1>14. ASSUME contested' = {} PROVE Reserved(withdrawal', funds', posted')
    <2>1. contested = {} /\ withdrawal[w] = was
        BY <1>4, <1>14
    <2>2. Reserved(withdrawal, funds, posted) /\ withdrawal[w] \in OpenStatuses
        BY <1>3, <1>5, <2>1 DEF Allowed, OpenStatuses
    <2>3. posted[w] = {"WITHDRAWAL_HOLD"}
        BY <2>2 DEF Reserved, PostingsOf, OpenStatuses
    <2>4. posted'[w] = PostingsOf(withdrawal'[w])
        BY <1>5, <1>8, <2>3 DEF PostingsOf
    <2>5. funds["HELD"] \in Nat /\ Cents[w] \in Nat
        BY <1>1, WithdrawalAssumption DEF Buckets
    <2>6. /\ Outcome(what) \notin OpenStatuses
             => SumOver(Cents, OpenOnes(withdrawal)) = Cents[w] + SumOver(Cents, OpenOnes(withdrawal'))
          /\ Outcome(what) \in OpenStatuses
             => SumOver(Cents, OpenOnes(withdrawal')) = SumOver(Cents, OpenOnes(withdrawal))
          /\ SumOver(Cents, OpenOnes(withdrawal')) \in Int
        <3>1. Outcome(what) \in WithdrawalStatuses /\ withdrawal[w] \in OpenStatuses
            BY <1>9, <2>2
        <3> DEFINE status == Outcome(what)
        <3>2. status \in WithdrawalStatuses /\ withdrawal' = [withdrawal EXCEPT ![w] = status]
            BY <1>4, <3>1
        <3>3. withdrawal \in [Withdrawals -> WithdrawalStatuses]
            BY <1>1
        <3> HIDE DEF status, WithdrawalIInv
        <3>4. /\ status \notin OpenStatuses
                 => SumOver(Cents, OpenOnes(withdrawal)) = Cents[w] + SumOver(Cents, OpenOnes(withdrawal'))
              /\ status \in OpenStatuses
                 => SumOver(Cents, OpenOnes(withdrawal')) = SumOver(Cents, OpenOnes(withdrawal))
              /\ SumOver(Cents, OpenOnes(withdrawal')) \in Int
            <4> DEFINE t == withdrawal'
            <4>1. t = [withdrawal EXCEPT ![w] = status]
                BY <3>2
            <4>2. withdrawal[w] \in OpenStatuses /\ status \in WithdrawalStatuses
                BY <3>1, <3>2
            <4> HIDE DEF t
            <4>3. OpenFollows(withdrawal, t, w)
                BY <3>3, <4>1, <4>2, OpenChanges
            <4>4. t[w] = status
                BY <3>3, <4>1
            <4> QED
                BY <4>2, <4>3, <4>4 DEF t, OpenFollows
        <3> QED
            BY <3>4 DEF status
    <2>7. funds'["HELD"] = SumOver(Cents, OpenOnes(withdrawal'))
        <3>1. CASE Posting(what) = {}
            <4>1. funds' = funds /\ Outcome(what) \in OpenStatuses
                BY <1>4, <1>5, <3>1 DEF MoveClubFunds, OpenStatuses
            <4> QED
                BY <2>2, <2>6, <4>1 DEF Reserved
        <3>2. CASE Posting(what) # {}
            <4>1. ~(Posting(what) \subseteq posted[w]) /\ Outcome(what) \notin OpenStatuses
                  /\ MovesTo(what) \in {"AVAILABLE", "WITHDRAWN"}
                BY <1>5, <2>3, <3>2 DEF OpenStatuses
            <4>2. funds'["HELD"] = funds["HELD"] - Cents[w]
                BY <1>1, <1>4, <4>1 DEF MoveClubFunds, Buckets
            <4> QED
                BY <2>2, <2>5, <2>6, <4>1, <4>2 DEF Reserved
        <3> QED
            BY <3>1, <3>2
    <2> QED
        BY <1>7, <2>2, <2>4, <2>7 DEF Reserved
<1> QED
    BY <1>6, <1>10, <1>11, <1>12, <1>13, <1>14

\* Every step of the withdrawals keeps the invariant.
LEMMA WithdrawalStep ==
    ASSUME WithdrawalIInv, [WithdrawalNext]_withdrawalVars
    PROVE  WithdrawalIInv'
<1>1. CASE UNCHANGED withdrawalVars
    BY <1>1 DEF withdrawalVars, WithdrawalIInv, WithdrawalTypeOK, DecidersKnow
<1>2. CASE UpsertProfile
    BY <1>2 DEF UpsertProfile, WithdrawalIInv, WithdrawalTypeOK, DecidersKnow
<1>3. ASSUME NEW w \in Withdrawals, RequestWithdrawal(w) PROVE WithdrawalIInv'
    BY <1>3, RequestHolds
<1>4. ASSUME NEW d \in Deciders, NEW w \in Withdrawals, NEW what \in Decisions,
             ReadWithdrawal(d, w, what)
      PROVE  WithdrawalIInv'
    <2> DEFINE x == [of |-> w, what |-> what, was |-> withdrawal[w]]
    <2>1. /\ decider' = [decider EXCEPT ![d] = x] /\ withdrawal[w] \in Allowed(what)
          /\ UNCHANGED <<withdrawal, funds, posted, profile, contested>>
        BY <1>4 DEF ReadWithdrawal
    <2>2. withdrawal[w] # "NONE"
        BY <2>1 DEF Allowed, Decisions
    <2>3. WithdrawalTypeOK'
        <3>1. x \in [of : Withdrawals \cup {NoWithdrawal}, what : Decisions,
                     was : WithdrawalStatuses]
            BY DEF WithdrawalIInv, WithdrawalTypeOK
        <3> HIDE DEF x
        <3> QED
            BY <2>1, <3>1 DEF WithdrawalIInv, WithdrawalTypeOK
    <2>4. DecidersKnow'
        <3>1. \A e \in Deciders : decider'[e] = IF e = d THEN x ELSE decider[e]
            BY <2>1 DEF WithdrawalIInv, WithdrawalTypeOK
        <3> QED
            BY <2>1, <2>2, <3>1 DEF WithdrawalIInv, DecidersKnow
    <2> QED
        BY <2>1, <2>3, <2>4 DEF WithdrawalIInv
<1>5. ASSUME NEW d \in Deciders, Decide(d) PROVE WithdrawalIInv'
    BY <1>5, DecisionHolds
<1>6. ASSUME NEW d \in Deciders, GiveUp(d) PROVE WithdrawalIInv'
    <2>1. /\ decider' = [decider EXCEPT ![d] = Undecided]
          /\ UNCHANGED <<withdrawal, funds, posted, profile, contested>>
        BY <1>6 DEF GiveUp
    <2>2. Undecided \in [of : Withdrawals \cup {NoWithdrawal}, what : Decisions,
                         was : WithdrawalStatuses]
        BY DEF Undecided, Decisions, WithdrawalStatuses
    <2>3. \A e \in Deciders : decider'[e] = IF e = d THEN Undecided ELSE decider[e]
        BY <2>1 DEF WithdrawalIInv, WithdrawalTypeOK
    <2>4. WithdrawalTypeOK'
        BY <2>1, <2>2 DEF WithdrawalIInv, WithdrawalTypeOK
    <2>5. DecidersKnow'
        BY <2>1, <2>3 DEF WithdrawalIInv, DecidersKnow
    <2> QED
        BY <2>1, <2>4, <2>5 DEF WithdrawalIInv
<1> QED
    BY <1>1, <1>2, <1>3, <1>4, <1>5, <1>6 DEF WithdrawalNext

\* The invariant is what is asked of the withdrawals.
LEMMA WithdrawalShown ==
    ASSUME WithdrawalIInv
    PROVE  WithdrawalInv /\ OpenIsReserved
<1>1. \A S : CentsOf(S) = SumOver(Cents, S)
    BY DEF CentsOf, SumOver
<1>2. \A r : PostedOf(r) = HoldersOf(posted, r)
    BY DEF PostedOf, HoldersOf
<1>3. FundsFollowPostings
    BY <1>1, <1>2 DEF WithdrawalIInv, Follow, FundsFollowPostings
<1>4. ASSUME contested = {} PROVE OpenIsReserved
    <2>1. Reserved(withdrawal, funds, posted)
        BY <1>4 DEF WithdrawalIInv
    <2>2. funds["HELD"] = CentsOf({w \in Withdrawals : withdrawal[w] \in
                                   {"REQUESTED", "UNDER_REVIEW", "APPROVED", "PROCESSING"}})
        BY <1>1, <2>1 DEF Reserved, OpenOnes, OpenStatuses
    <2>3. ASSUME NEW a, NEW b PROVE Cardinality({a, b}) <= 2
        <3>1. IsFiniteSet({a}) /\ Cardinality({a}) = 1
            BY FS_Singleton
        <3>2. IsFiniteSet({a} \cup {b}) /\ Cardinality({a} \cup {b}) <= 2
            BY <3>1, FS_AddElement
        <3>3. {a} \cup {b} = {a, b}
            OBVIOUS
        <3> QED BY <3>2, <3>3
    <2>4. ASSUME NEW w \in Withdrawals PROVE Cardinality(posted[w]) <= 2
        <3>1. posted[w] = PostingsOf(withdrawal[w])
            BY <2>1 DEF Reserved
        <3>2. Cardinality({}) = 0
            BY FS_EmptySet
        <3>3. Cardinality({"WITHDRAWAL_HOLD"}) = 1
            BY FS_Singleton
        <3>4. \/ posted[w] = {} \/ posted[w] = {"WITHDRAWAL_HOLD"}
              \/ \E a, b : posted[w] = {a, b}
            BY <3>1 DEF PostingsOf
        <3>5. CASE posted[w] = {}
            BY <3>2, <3>5
        <3>6. CASE posted[w] = {"WITHDRAWAL_HOLD"}
            BY <3>3, <3>6
        <3>7. CASE \E a, b : posted[w] = {a, b}
            BY <2>3, <3>7
        <3> QED
            BY <3>4, <3>5, <3>6, <3>7
    <2> QED
        BY <2>2, <2>4 DEF OpenIsReserved
<1>5. contested # {} => OpenIsReserved
    BY DEF OpenIsReserved
<1> QED
    BY <1>3, <1>4, <1>5 DEF WithdrawalIInv, WithdrawalInv

\* The buckets of a club are what the postings say, and what is open is held
\* unless two decisions on one request overlapped (withdrawals.service.ts).
THEOREM WithdrawalInvariance == WithdrawalSpec => [](WithdrawalInv /\ OpenIsReserved)
<1>1. WithdrawalIInv /\ [WithdrawalNext]_withdrawalVars => WithdrawalIInv'
    BY WithdrawalStep
<1> QED
    BY <1>1, InitWithdrawals, WithdrawalShown, PTL DEF WithdrawalSpec

-----------------------------------------------------------------------------
(***************************************************************************)
(* Ledger                                                                  *)
(***************************************************************************)
\* The column of an account, the entries of a reference in it, and the
\* references that are of no sale.
ColumnOf(p, x) == [a \in Attempts |-> p[a][x]]
EntryIn(x) == [ref \in LedgerReferences |-> EntriesOf(ref)[x]]
Others(refs) == {ref \in refs : ref.kind # "SALE"}

\* What refunds in parts leave of a sale, when r was returned.
LeftOf(a, r) ==
    ClubEntry(a, r - TotalCents[a], (TotalCents[a] - FeeCentsOf[a]) - (r - FeeShareOf(a, r)),
              FeeCentsOf[a] - FeeShareOf(a, r), 0)

\* The position p of an attempt of which r was returned, whose sale was posted
\* or not, and that was returned in one piece or not.
PositionFits(a, p, r, sold, once) ==
    /\ p \in [Accounts -> Int] /\ Balance(p) = 0 /\ r \in 0..PaidCents[a]
    /\ ~sold => p = Nothing /\ r = 0 /\ ~once
    /\ sold /\ r = 0 => p = SaleEntries(a) /\ ~once
    /\ once => p = Nothing /\ r = PaidCents[a]
    /\ sold /\ ~once /\ ProviderOf[a] # "simulated" => p = LeftOf(a, r)

\* Balances b are what the positions p and the other references add up to.
AddUp(b, p, refs) ==
    \A x \in Accounts : b[x] = SumOver(ColumnOf(p, x), Attempts) + SumOver(EntryIn(x), Others(refs))

\* The inductive invariant.
LedgerIInv ==
    /\ balances \in [Accounts -> Int] /\ Balance(balances) = 0
    /\ entered \subseteq LedgerReferences /\ IsFiniteSet(entered)
    /\ position \in [Attempts -> [Accounts -> Int]]
    /\ returned \in [Attempts -> Nat]
    /\ whole \subseteq Attempts
    /\ booker \in [Bookers -> LedgerReferences \cup {NoReference}]
    /\ \A a \in Attempts :
           PositionFits(a, position[a], returned[a], Ref("SALE", a) \in entered, a \in whole)
    /\ AddUp(balances, position, entered)

-----------------------------------------------------------------------------
(* Amounts.                                                                *)

\* The amounts of an attempt.
LEMMA AmountsOf ==
    ASSUME NEW a \in Attempts
    PROVE  /\ TotalCents[a] \in Nat /\ PaidCents[a] \in Nat \ {0} /\ FeeCentsOf[a] \in Nat
           /\ FeeCentsOf[a] <= PaidCents[a] /\ PaidCents[a] <= TotalCents[a]
           /\ ProviderOf[a] = "simulated" => FeeCentsOf[a] = 0
<1>1. TotalCents[a] \in Nat /\ FeeCentsOf[a] \in Nat /\ PaidCents[a] \in Nat \ {0}
    BY LedgerAssumption
<1> QED
    BY <1>1, LedgerAssumption

\* The fee of what was returned is within the fee, what is kept of it within
\* what is kept, and all of it when everything was returned.
LEMMA FeeShareBounds ==
    ASSUME NEW a \in Attempts, NEW r \in 0..PaidCents[a]
    PROVE  /\ FeeShareOf(a, r) \in 0..FeeCentsOf[a]
           /\ FeeCentsOf[a] - FeeShareOf(a, r) <= PaidCents[a] - r
           /\ r = 0 => FeeShareOf(a, r) = 0
           /\ r = PaidCents[a] => FeeShareOf(a, r) = FeeCentsOf[a]
<1> DEFINE p == PaidCents[a]
           f == FeeCentsOf[a]
           n == 2 * (r * f) + p
           d == 2 * p
           s == FeeShareOf(a, r)
<1>1. p \in Nat /\ p > 0 /\ f \in Nat /\ f <= p /\ r \in 0..p
    BY AmountsOf
<1>2. s = n \div d
    BY DEF FeeShareOf, Rounded
<1> HIDE DEF p, f, s
<1>3. r * f \in Nat /\ p * f \in Nat
    BY <1>1
<1>4. n \in Int /\ d \in Nat \ {0}
    BY <1>1, <1>3
<1>5. n \div d \in Int
    BY <1>4
<1>6. r * f <= p * f
    <2> DEFINE k == p - r
    <2>1. k \in Nat /\ p = r + k
        BY <1>1
    <2> HIDE DEF k
    <2>2. p * f = r * f + k * f /\ k * f \in Nat
        BY <1>1, <2>1
    <2> QED BY <1>3, <2>2
<1>7. 0 <= n \div d
    <2>1. d * 0 <= n
        BY <1>1, <1>3
    <2> HIDE DEF n, d
    <2> QED BY <1>4, <2>1, DivisionAtLeast
<1>8. n \div d <= f
    <2>1. d * f = 2 * (p * f)
        BY <1>1
    <2>2. n < d * f + d
        BY <1>1, <1>3, <1>6, <2>1
    <2> HIDE DEF n, d
    <2> QED BY <1>1, <1>4, <2>2, DivisionAtMost
<1>9. f - (p - r) <= n \div d
    <2> DEFINE k == p - r
               m == p - f
               q == f - k
    <2>1. k \in Nat /\ m \in Nat /\ r = p - k /\ f = p - m /\ q \in Int
        BY <1>1
    <2>2. k * m \in Nat
        BY <2>1
    <2>3. r * f = p * f - k * f /\ k * f = k * p - k * m /\ k * p = p * k
          /\ k * f \in Int /\ k * p \in Int
        <3> HIDE DEF k, m
        <3>1. r * f = p * f - k * f
            BY <1>1, <2>1
        <3>2. k * f = k * p - k * m
            BY <1>1, <2>1
        <3> QED BY <1>1, <2>1, <3>1, <3>2
    <2>4. p * q = p * f - p * k
        <3> HIDE DEF k
        <3> QED BY <1>1, <2>1
    <2>5. p * q <= r * f /\ p * q \in Int
        <3>1. r * f = p * f - (p * k - k * m)
            BY <2>3
        <3> HIDE DEF k, m, q
        <3>2. p * k \in Int /\ p * q \in Int
            BY <1>1, <2>1
        <3> QED BY <1>3, <2>2, <2>4, <3>1, <3>2
    <2>6. d * q = 2 * (p * q)
        <3> HIDE DEF k, q
        <3> QED BY <1>1, <2>1
    <2>7. d * q <= n
        <3> HIDE DEF k, m, q
        <3> QED BY <1>1, <1>3, <2>5, <2>6
    <2>8. q <= n \div d
        <3> HIDE DEF n, d, k, m, q
        <3> QED BY <1>4, <2>1, <2>7, DivisionAtLeast
    <2> QED BY <2>8
<1>10. r = 0 => n \div d <= 0
    <2>1. SUFFICES ASSUME r = 0 PROVE n \div d <= 0
        OBVIOUS
    <2>2. r * f = 0
        BY <1>1, <2>1
    <2>3. n < d * 0 + d
        BY <1>1, <2>2
    <2> HIDE DEF n, d
    <2> QED BY <1>4, <2>3, DivisionAtMost
<1> HIDE DEF n, d
<1>11. s \in 0..f /\ f - s <= p - r /\ (r = 0 => s = 0) /\ (r = p => s = f)
    BY <1>1, <1>2, <1>5, <1>7, <1>8, <1>9, <1>10
<1> QED
    BY <1>11 DEF s, p, f

\* A sum of entries, and what it leaves in balance.
LEMMA EntriesAre ==
    ASSUME NEW c \in Int, NEW k \in Int, NEW e \in Int, NEW m \in Int, NEW p \in Int
    PROVE  /\ Entries(c, k, e, m, p) \in [Accounts -> Int]
           /\ Balance(Entries(c, k, e, m, p)) = c + k + e + m + p
           /\ Entries(c, k, e, m, p)["CUSTOMER"] = c /\ Entries(c, k, e, m, p)["CLUB"] = k
           /\ Entries(c, k, e, m, p)["CLUB_EXTERNAL"] = e /\ Entries(c, k, e, m, p)["PLATFORM"] = m
           /\ Entries(c, k, e, m, p)["PROVIDER"] = p
BY DEF Entries, Accounts, Balance

\* Adding entries adds what they leave.
LEMMA PlusIs ==
    ASSUME NEW f \in [Accounts -> Int], NEW g \in [Accounts -> Int]
    PROVE  /\ Plus(f, g) \in [Accounts -> Int] /\ Balance(Plus(f, g)) = Balance(f) + Balance(g)
           /\ \A x \in Accounts : Plus(f, g)[x] = f[x] + g[x]
<1>1. Plus(f, g) \in [Accounts -> Int] /\ \A x \in Accounts : Plus(f, g)[x] = f[x] + g[x]
    BY DEF Plus
<1>2. \A x \in {"CUSTOMER", "CLUB", "CLUB_EXTERNAL", "PLATFORM", "PROVIDER"} :
          x \in Accounts /\ f[x] \in Int /\ g[x] \in Int
    BY DEF Accounts
<1> QED
    BY <1>1, <1>2 DEF Balance

\* The opposite of entries undoes them.
LEMMA NegativeIs ==
    ASSUME NEW f \in [Accounts -> Int]
    PROVE  /\ Negative(f) \in [Accounts -> Int] /\ Balance(Negative(f)) = 0 - Balance(f)
           /\ Plus(f, Negative(f)) = Nothing
<1>1. Negative(f) \in [Accounts -> Int] /\ \A x \in Accounts : Negative(f)[x] = 0 - f[x]
    BY DEF Negative
<1>2. \A x \in {"CUSTOMER", "CLUB", "CLUB_EXTERNAL", "PLATFORM", "PROVIDER"} :
          x \in Accounts /\ f[x] \in Int
    BY DEF Accounts
<1>3. Balance(Negative(f)) = 0 - Balance(f)
    BY <1>1, <1>2 DEF Balance
<1>4. Nothing \in [Accounts -> Int] /\ \A x \in Accounts : Nothing[x] = 0
    BY DEF Nothing, Entries, Accounts
<1>5. Plus(f, Negative(f)) \in [Accounts -> Int]
      /\ \A x \in Accounts : Plus(f, Negative(f))[x] = 0
    BY <1>1, PlusIs
<1>6. Plus(f, Negative(f)) = Nothing
    BY <1>4, <1>5
<1> QED
    BY <1>1, <1>3, <1>6

\* Nothing is in balance and adds nothing.
LEMMA NothingIs ==
    /\ Nothing \in [Accounts -> Int] /\ Balance(Nothing) = 0 /\ \A x \in Accounts : Nothing[x] = 0
    /\ \A f \in [Accounts -> Int] : Plus(Nothing, f) = f
<1>1. Nothing \in [Accounts -> Int] /\ \A x \in Accounts : Nothing[x] = 0
    BY DEF Nothing, Entries, Accounts
<1>2. Balance(Nothing) = 0
    BY EntriesAre DEF Nothing
<1>3. ASSUME NEW f \in [Accounts -> Int] PROVE Plus(Nothing, f) = f
    <2>1. Plus(Nothing, f) \in [Accounts -> Int] /\ \A x \in Accounts : Plus(Nothing, f)[x] = f[x]
        BY <1>1, PlusIs
    <2> QED BY <2>1
<1> QED
    BY <1>1, <1>2, <1>3

\* The entries of every posting are in balance.
LEMMA ClubEntryIs ==
    ASSUME NEW a \in Attempts, NEW c \in Int, NEW k \in Int, NEW m \in Int, NEW p \in Int
    PROVE  /\ ClubEntry(a, c, k, m, p) \in [Accounts -> Int]
           /\ Balance(ClubEntry(a, c, k, m, p)) = c + k + m + p
           /\ ClubEntry(a, c, k, m, p)["CUSTOMER"] = c /\ ClubEntry(a, c, k, m, p)["PLATFORM"] = m
           /\ ClubEntry(a, c, k, m, p)[IF ProviderOf[a] = "mercado_pago" THEN "CLUB_EXTERNAL"
                                       ELSE "CLUB"] = k
<1>0. 0 \in Int /\ c + 0 + k + m + p = c + k + m + p /\ c + k + 0 + m + p = c + k + m + p
    OBVIOUS
<1>1. CASE ProviderOf[a] = "mercado_pago"
    <2>1. ClubEntry(a, c, k, m, p) = Entries(c, 0, k, m, p)
        BY <1>1 DEF ClubEntry
    <2>2. Balance(Entries(c, 0, k, m, p)) = c + 0 + k + m + p
        BY <1>0, EntriesAre
    <2>3. /\ Entries(c, 0, k, m, p) \in [Accounts -> Int]
          /\ Entries(c, 0, k, m, p)["CUSTOMER"] = c /\ Entries(c, 0, k, m, p)["PLATFORM"] = m
          /\ Entries(c, 0, k, m, p)["CLUB_EXTERNAL"] = k
        BY DEF Entries, Accounts
    <2> QED
        BY <1>0, <1>1, <2>1, <2>2, <2>3
<1>2. CASE ProviderOf[a] # "mercado_pago"
    <2>1. ClubEntry(a, c, k, m, p) = Entries(c, k, 0, m, p)
        BY <1>2 DEF ClubEntry
    <2>2. Balance(Entries(c, k, 0, m, p)) = c + k + 0 + m + p
        BY <1>0, EntriesAre
    <2>3. /\ Entries(c, k, 0, m, p) \in [Accounts -> Int]
          /\ Entries(c, k, 0, m, p)["CUSTOMER"] = c /\ Entries(c, k, 0, m, p)["PLATFORM"] = m
          /\ Entries(c, k, 0, m, p)["CLUB"] = k
        BY DEF Entries, Accounts
    <2> QED
        BY <1>0, <1>2, <2>1, <2>2, <2>3
<1> QED
    BY <1>1, <1>2

\* What a refund returns, less the fee the platform gives back of it, is in balance.
LEMMA RefundBalances ==
    ASSUME NEW a \in Attempts, NEW c \in Nat, NEW fee \in Int
    PROVE  /\ ClubEntry(a, c, 0 - (c - fee), 0 - fee, 0) \in [Accounts -> Int]
           /\ Balance(ClubEntry(a, c, 0 - (c - fee), 0 - fee, 0)) = 0
<1>1. ASSUME NEW k \in Int, NEW m \in Int, c + k + m + 0 = 0
      PROVE  /\ ClubEntry(a, c, k, m, 0) \in [Accounts -> Int]
             /\ Balance(ClubEntry(a, c, k, m, 0)) = 0
    <2>1. c \in Int /\ 0 \in Int
        OBVIOUS
    <2>2. /\ ClubEntry(a, c, k, m, 0) \in [Accounts -> Int]
          /\ Balance(ClubEntry(a, c, k, m, 0)) = c + k + m + 0
        BY <2>1, ClubEntryIs
    <2> QED BY <1>1, <2>2
<1>2. 0 - (c - fee) \in Int /\ 0 - fee \in Int /\ c + (0 - (c - fee)) + (0 - fee) + 0 = 0
    OBVIOUS
<1> QED
    BY <1>1, <1>2

\* A sale is in balance, and is what is left of it before any refund.
LEMMA SaleIs ==
    ASSUME NEW a \in Attempts
    PROVE  /\ SaleEntries(a) \in [Accounts -> Int] /\ Balance(SaleEntries(a)) = 0
           /\ ProviderOf[a] # "simulated" => SaleEntries(a) = LeftOf(a, 0)
<1>1. TotalCents[a] \in Nat /\ FeeCentsOf[a] \in Nat /\ PaidCents[a] \in Nat
    BY AmountsOf
<1>2. \A n \in Int : Rounded(n, 10000) \in Int
    BY DEF Rounded
<1>3. DefaultBps \in Int /\ CostBps \in Int
    BY LedgerAssumption
<1>4. TotalCents[a] * DefaultBps \in Int /\ TotalCents[a] * CostBps \in Int
    BY <1>1, <1>3
<1>5. Commission(a) \in Int /\ Cost(a) \in Int
    BY <1>1, <1>2, <1>4 DEF Commission, Cost
<1> DEFINE t == TotalCents[a]
           c == Commission(a)
           k == Cost(a)
<1>6. t \in Int /\ c \in Int /\ k \in Int
    BY <1>1, <1>5
<1> HIDE DEF t, c, k
<1>7. /\ 0 - t \in Int /\ t - c \in Int /\ c - k \in Int
      /\ (0 - t) + (t - c) + (c - k) + k = 0
    BY <1>6
<1>8. ClubEntry(a, 0 - t, t - c, c - k, k) \in [Accounts -> Int]
      /\ Balance(ClubEntry(a, 0 - t, t - c, c - k, k)) = 0
    BY <1>6, <1>7, ClubEntryIs
<1>9. SaleEntries(a) = ClubEntry(a, 0 - t, t - c, c - k, k)
    BY DEF SaleEntries, t, c, k
<1>10. ASSUME ProviderOf[a] # "simulated" PROVE SaleEntries(a) = LeftOf(a, 0)
    <2>1. c = FeeCentsOf[a] /\ k = 0
        BY <1>10 DEF Commission, Cost, c, k
    <2>2. FeeShareOf(a, 0) = 0
        BY <1>1, FeeShareBounds
    <2>3. (t - FeeCentsOf[a]) - (0 - 0) = t - c /\ FeeCentsOf[a] - 0 = c - k
        BY <1>1, <1>6, <2>1
    <2>4. LeftOf(a, 0) = ClubEntry(a, 0 - t, (t - FeeCentsOf[a]) - (0 - 0), FeeCentsOf[a] - 0, 0)
        BY <2>2 DEF LeftOf, t
    <2> QED BY <1>9, <2>1, <2>3, <2>4
<1> QED
    BY <1>8, <1>9, <1>10

\* So is every reference, and that of a sale is of its attempt.
LEMMA EntriesOfIs ==
    ASSUME NEW ref \in LedgerReferences
    PROVE  /\ EntriesOf(ref) \in [Accounts -> Int] /\ Balance(EntriesOf(ref)) = 0
           /\ ref.kind = "SALE" => ref.of \in Attempts /\ ref = Ref("SALE", ref.of)
                                   /\ EntriesOf(ref) = SaleEntries(ref.of)
<1>1. RechargeCents \in Int /\ BonusCents \in Int
    BY LedgerAssumption
<1>2. 0 - RechargeCents \in Int /\ 0 - BonusCents \in Int
    BY <1>1
<1>3. /\ RechargeEntries \in [Accounts -> Int] /\ Balance(RechargeEntries) = 0
      /\ BonusEntries \in [Accounts -> Int] /\ Balance(BonusEntries) = 0
    <2>1. /\ RechargeEntries \in [Accounts -> Int]
          /\ Balance(RechargeEntries) = RechargeCents + 0 + 0 + 0 + (0 - RechargeCents)
        BY <1>1, <1>2 DEF RechargeEntries, Entries, Accounts, Balance
    <2>2. /\ BonusEntries \in [Accounts -> Int]
          /\ Balance(BonusEntries) = BonusCents + 0 + 0 + (0 - BonusCents) + 0
        BY <1>1, <1>2 DEF BonusEntries, Entries, Accounts, Balance
    <2>3. /\ RechargeCents + 0 + 0 + 0 + (0 - RechargeCents) = 0
          /\ BonusCents + 0 + 0 + (0 - BonusCents) + 0 = 0
        BY <1>1
    <2> QED BY <2>1, <2>2, <2>3
<1>4. Negative(BonusEntries) \in [Accounts -> Int] /\ Balance(Negative(BonusEntries)) = 0
    BY <1>3, NegativeIs
<1>5. CASE ref.kind = "SALE"
    <2>1. ref.of \in Attempts /\ ref = Ref("SALE", ref.of)
        BY <1>5 DEF LedgerReferences, Ref
    <2>2. EntriesOf(ref) = SaleEntries(ref.of)
        BY <1>5 DEF EntriesOf
    <2> QED BY <2>1, <2>2, SaleIs
<1>6. CASE ref.kind = "WALLET_TOP_UP"
    BY <1>3, <1>6 DEF EntriesOf
<1>7. CASE ref.kind = "REFERRAL_REWARD"
    BY <1>3, <1>7 DEF EntriesOf
<1>8. CASE ref.kind = "REFERRAL_REWARD_REVERSAL"
    BY <1>4, <1>8 DEF EntriesOf
<1> QED
    BY <1>5, <1>6, <1>7, <1>8 DEF LedgerReferences

-----------------------------------------------------------------------------
(* What is added to a position and to a balance.                           *)

\* Entries that are added to a balance and to the position of an attempt.
LEMMA PositionGrows ==
    ASSUME NEW b \in [Accounts -> Int], NEW p \in [Attempts -> [Accounts -> Int]], NEW refs,
           AddUp(b, p, refs), refs \subseteq LedgerReferences, IsFiniteSet(refs),
           NEW a \in Attempts, NEW e \in [Accounts -> Int],
           NEW q \in [Attempts -> [Accounts -> Int]],
           \A y \in Attempts : q[y] = IF y = a THEN Plus(p[a], e) ELSE p[y]
    PROVE  AddUp(Plus(b, e), q, refs)
<1> SUFFICES ASSUME NEW x \in Accounts
             PROVE  Plus(b, e)[x] = SumOver(ColumnOf(q, x), Attempts) + SumOver(EntryIn(x), Others(refs))
    BY DEF AddUp
<1> DEFINE f == ColumnOf(p, x)
           g == ColumnOf(q, x)
<1>1. IsFiniteSet(Attempts)
    BY LedgerAssumption
<1>2. \A y \in Attempts : f[y] \in Int
    BY DEF ColumnOf
<1>3. g[a] = f[a] + e[x] /\ f[a] \in Int /\ e[x] \in Int
    <2>1. p[a] \in [Accounts -> Int] /\ q[a] = Plus(p[a], e)
        OBVIOUS
    <2>2. q[a][x] = p[a][x] + e[x]
        BY <2>1, PlusIs
    <2> QED BY <2>1, <2>2 DEF ColumnOf
<1>4. \A y \in Attempts : y # a => g[y] = f[y]
    BY DEF ColumnOf
<1>5. b[x] = SumOver(f, Attempts) + SumOver(EntryIn(x), Others(refs))
    BY DEF AddUp
<1>6. Plus(b, e)[x] = b[x] + e[x]
    BY PlusIs
<1>7. SumOver(EntryIn(x), Others(refs)) \in Int
    <2>1. Others(refs) \subseteq refs /\ Others(refs) \subseteq LedgerReferences
        BY DEF Others
    <2>2. IsFiniteSet(Others(refs))
        BY <2>1, FS_Subset
    <2>3. \A ref \in Others(refs) : EntryIn(x)[ref] \in Int
        BY <2>1, EntriesOfIs DEF EntryIn
    <2> QED BY <2>2, <2>3, SumIsInt
<1> HIDE DEF f, g
<1>8. g[a] \in Int
    BY <1>3
<1>9. SumOver(g, Attempts) = SumOver(f, Attempts) - f[a] + g[a]
    BY <1>1, <1>2, <1>4, <1>8, SumUpdated
<1>10. SumOver(f, Attempts) \in Int
    BY <1>1, <1>2, SumIsInt
<1>11. Plus(b, e)[x] = SumOver(g, Attempts) + SumOver(EntryIn(x), Others(refs))
    BY <1>3, <1>5, <1>6, <1>7, <1>9, <1>10
<1> QED
    BY <1>11 DEF g

\* Entries that are added to a balance with a reference that is of no sale.
LEMMA OtherGrows ==
    ASSUME NEW b \in [Accounts -> Int], NEW p \in [Attempts -> [Accounts -> Int]], NEW refs,
           AddUp(b, p, refs), refs \subseteq LedgerReferences, IsFiniteSet(refs),
           NEW ref \in LedgerReferences, ref \notin refs, ref.kind # "SALE"
    PROVE  AddUp(Plus(b, EntriesOf(ref)), p, refs \cup {ref})
<1> SUFFICES ASSUME NEW x \in Accounts
             PROVE  Plus(b, EntriesOf(ref))[x] = SumOver(ColumnOf(p, x), Attempts)
                                                 + SumOver(EntryIn(x), Others(refs \cup {ref}))
    BY DEF AddUp
<1> DEFINE S == Others(refs)
           f == EntryIn(x)
<1>1. Others(refs \cup {ref}) = S \cup {ref} /\ ref \notin S /\ S \subseteq refs
    BY DEF Others
<1>2. IsFiniteSet(S) /\ S \subseteq LedgerReferences
    BY <1>1, FS_Subset
<1>3. \A y \in LedgerReferences : f[y] \in Int
    BY EntriesOfIs DEF EntryIn
<1>4. f[ref] = EntriesOf(ref)[x]
    BY DEF EntryIn
<1>5. b[x] = SumOver(ColumnOf(p, x), Attempts) + SumOver(f, S)
    BY DEF AddUp
<1>6. Plus(b, EntriesOf(ref))[x] = b[x] + f[ref]
    BY <1>4, EntriesOfIs, PlusIs
<1>7. SumOver(ColumnOf(p, x), Attempts) \in Int
    <2>1. IsFiniteSet(Attempts)
        BY LedgerAssumption
    <2>2. \A y \in Attempts : ColumnOf(p, x)[y] \in Int
        BY DEF ColumnOf
    <2> QED BY <2>1, <2>2, SumIsInt
<1> HIDE DEF S, f
<1>8. \A y \in S : f[y] \in Int
    BY <1>2, <1>3
<1>9. SumOver(f, S \cup {ref}) = f[ref] + SumOver(f, S)
    BY <1>1, <1>2, <1>3, <1>8, SumWith
<1>10. SumOver(f, S) \in Int
    BY <1>2, <1>8, SumIsInt
<1>11. Plus(b, EntriesOf(ref))[x] = SumOver(ColumnOf(p, x), Attempts) + SumOver(f, S \cup {ref})
    BY <1>3, <1>5, <1>6, <1>7, <1>9, <1>10
<1> QED
    BY <1>1, <1>11 DEF f

\* Entries of one attempt are added in each account.
LEMMA ClubEntriesAdd ==
    ASSUME NEW a \in Attempts, NEW c \in Int, NEW k \in Int, NEW m \in Int,
           NEW d \in Int, NEW l \in Int, NEW n \in Int
    PROVE  Plus(ClubEntry(a, c, k, m, 0), ClubEntry(a, d, l, n, 0)) = ClubEntry(a, c + d, k + l, m + n, 0)
<1>1. CASE ProviderOf[a] = "mercado_pago"
    <2> DEFINE f == Entries(c, 0, k, m, 0)
               g == Entries(d, 0, l, n, 0)
               h == Entries(c + d, 0, k + l, m + n, 0)
    <2>1. f \in [Accounts -> Int] /\ g \in [Accounts -> Int] /\ h \in [Accounts -> Int]
          /\ \A x \in Accounts : h[x] = f[x] + g[x]
        BY DEF Entries, Accounts
    <2>2. /\ ClubEntry(a, c, k, m, 0) = f /\ ClubEntry(a, d, l, n, 0) = g
          /\ ClubEntry(a, c + d, k + l, m + n, 0) = h
        BY <1>1 DEF ClubEntry
    <2> HIDE DEF f, g, h
    <2>3. Plus(f, g) = h
        BY <2>1, PlusIs
    <2> QED BY <2>2, <2>3
<1>2. CASE ProviderOf[a] # "mercado_pago"
    <2> DEFINE f == Entries(c, k, 0, m, 0)
               g == Entries(d, l, 0, n, 0)
               h == Entries(c + d, k + l, 0, m + n, 0)
    <2>1. f \in [Accounts -> Int] /\ g \in [Accounts -> Int] /\ h \in [Accounts -> Int]
          /\ \A x \in Accounts : h[x] = f[x] + g[x]
        BY DEF Entries, Accounts
    <2>2. /\ ClubEntry(a, c, k, m, 0) = f /\ ClubEntry(a, d, l, n, 0) = g
          /\ ClubEntry(a, c + d, k + l, m + n, 0) = h
        BY <1>2 DEF ClubEntry
    <2> HIDE DEF f, g, h
    <2>3. Plus(f, g) = h
        BY <2>1, PlusIs
    <2> QED BY <2>2, <2>3
<1> QED
    BY <1>1, <1>2

-----------------------------------------------------------------------------
\* The books are empty at first.
LEMMA InitLedger == LedgerInit => LedgerIInv
<1> SUFFICES ASSUME LedgerInit PROVE LedgerIInv
    OBVIOUS
<1>1. balances = Nothing /\ entered = {} /\ position = [a \in Attempts |-> Nothing]
      /\ returned = [a \in Attempts |-> 0] /\ whole = {} /\ booker = [h \in Bookers |-> NoReference]
    BY DEF LedgerInit
<1>2. ASSUME NEW a \in Attempts
      PROVE  PositionFits(a, position[a], returned[a], Ref("SALE", a) \in entered, a \in whole)
    <2>1. 0 \in 0..PaidCents[a]
        BY AmountsOf
    <2> QED
        BY <1>1, <2>1, NothingIs DEF PositionFits
<1>3. AddUp(balances, position, entered)
    <2> SUFFICES ASSUME NEW x \in Accounts
                 PROVE  balances[x] = SumOver(ColumnOf(position, x), Attempts)
                                      + SumOver(EntryIn(x), Others(entered))
        BY DEF AddUp
    <2>1. Others(entered) = {}
        BY <1>1 DEF Others
    <2>2. SumOver(EntryIn(x), {}) = 0
        BY SumOfEmpty
    <2> DEFINE zero == [a \in Attempts |-> 0]
    <2>3. ColumnOf(position, x) = zero
        BY <1>1, NothingIs DEF ColumnOf
    <2>4. SumOver(zero, Attempts) = 0
        <3>1. IsFiniteSet(Attempts)
            BY LedgerAssumption
        <3> QED BY <3>1, SumOfZeros
    <2>5. balances[x] = 0
        BY <1>1, NothingIs
    <2> HIDE DEF zero
    <2> QED
        BY <2>1, <2>2, <2>3, <2>4, <2>5
<1>4. IsFiniteSet(entered)
    BY <1>1, FS_EmptySet
<1> QED
    BY <1>1, <1>2, <1>3, <1>4, NothingIs DEF LedgerIInv

\* The posting of a sale is its position; any other is of no sale.
LEMMA PostHolds ==
    ASSUME LedgerIInv, NEW h \in Bookers, Post(h)
    PROVE  LedgerIInv'
<1>1. PICK ref \in LedgerReferences : booker[h] = ref
    BY DEF Post, LedgerIInv
<1>2. /\ booker' = [booker EXCEPT ![h] = NoReference] /\ UNCHANGED <<returned, whole>>
      /\ booker' \in [Bookers -> LedgerReferences \cup {NoReference}]
    BY DEF Post, LedgerIInv
<1>3. CASE ref \in entered
    <2>1. UNCHANGED <<balances, entered, position>>
        BY <1>1, <1>3 DEF Post
    <2> QED
        BY <1>2, <2>1 DEF LedgerIInv
<1>4. CASE ref \notin entered
    <2>1. /\ entered' = entered \cup {ref} /\ balances' = Plus(balances, EntriesOf(ref))
          /\ position' = IF ref.kind = "SALE" THEN [position EXCEPT ![ref.of] = EntriesOf(ref)]
                         ELSE position
        BY <1>1, <1>4 DEF Post
    <2>2. /\ balances \in [Accounts -> Int] /\ Balance(balances) = 0
          /\ entered \subseteq LedgerReferences /\ IsFiniteSet(entered)
          /\ position \in [Attempts -> [Accounts -> Int]]
          /\ AddUp(balances, position, entered)
        BY DEF LedgerIInv
    <2>3. EntriesOf(ref) \in [Accounts -> Int] /\ Balance(EntriesOf(ref)) = 0
        BY EntriesOfIs
    <2>4. balances' \in [Accounts -> Int] /\ Balance(balances') = 0
        <3>1. Plus(balances, EntriesOf(ref)) \in [Accounts -> Int]
              /\ Balance(Plus(balances, EntriesOf(ref))) = Balance(balances) + Balance(EntriesOf(ref))
            BY <2>2, <2>3, PlusIs
        <3> QED BY <2>1, <2>2, <2>3, <3>1
    <2>5. entered' \subseteq LedgerReferences /\ IsFiniteSet(entered')
        BY <2>1, <2>2, FS_AddElement
    <2>6. CASE ref.kind = "SALE"
        <3>1. PICK a \in Attempts : ref.of = a /\ ref = Ref("SALE", a)
                                    /\ EntriesOf(ref) = SaleEntries(a)
            BY <2>6, EntriesOfIs
        <3>2. PositionFits(a, position[a], returned[a], FALSE, a \in whole)
            <4>1. PositionFits(a, position[a], returned[a], Ref("SALE", a) \in entered, a \in whole)
                BY DEF LedgerIInv
            <4>2. ~(Ref("SALE", a) \in entered)
                BY <1>4, <3>1
            <4> QED
                BY <4>1, <4>2 DEF PositionFits
        <3>3. position[a] = Nothing /\ returned[a] = 0 /\ a \notin whole
            BY <3>2 DEF PositionFits
        <3>4. \A y \in Attempts : position'[y] = IF y = a THEN SaleEntries(a) ELSE position[y]
            BY <2>1, <2>2, <2>6, <3>1
        <3>5. position' \in [Attempts -> [Accounts -> Int]]
            BY <2>1, <2>2, <2>3, <2>6, <3>1
        <3>6. AddUp(balances', position', entered')
            <4> DEFINE e == EntriesOf(ref)
                       q == position'
            <4>1. Plus(position[a], e) = e
                BY <2>3, <3>3, NothingIs
            <4>2. e \in [Accounts -> Int] /\ q \in [Attempts -> [Accounts -> Int]]
                BY <2>3, <3>5
            <4>3. \A y \in Attempts : q[y] = IF y = a THEN Plus(position[a], e) ELSE position[y]
                BY <3>1, <3>4, <4>1
            <4> HIDE DEF e, q
            <4>4. AddUp(Plus(balances, e), q, entered)
                BY <2>2, <4>2, <4>3, PositionGrows
            <4>5. Others(entered') = Others(entered)
                BY <2>1, <2>6 DEF Others
            <4> QED
                BY <2>1, <4>4, <4>5 DEF AddUp, e, q
        <3>7. ASSUME NEW y \in Attempts
              PROVE  PositionFits(y, position'[y], returned'[y], Ref("SALE", y) \in entered', y \in whole')
            <4>1. CASE y = a
                <5>1. Ref("SALE", y) \in entered'
                    BY <2>1, <3>1, <4>1
                <5>2. PositionFits(a, SaleEntries(a), 0, TRUE, FALSE)
                    <6>1. 0 \in 0..PaidCents[a]
                        BY AmountsOf
                    <6> QED BY <6>1, SaleIs DEF PositionFits
                <5>3. position'[y] = SaleEntries(a) /\ returned'[y] = 0 /\ ~(y \in whole')
                    BY <1>2, <3>3, <3>4, <4>1
                <5> QED BY <4>1, <5>1, <5>2, <5>3 DEF PositionFits
            <4>2. CASE y # a
                <5>1. Ref("SALE", y) \in entered' <=> Ref("SALE", y) \in entered
                    BY <2>1, <3>1, <4>2 DEF Ref
                <5>2. PositionFits(y, position[y], returned[y], Ref("SALE", y) \in entered, y \in whole)
                    BY DEF LedgerIInv
                <5> QED BY <1>2, <3>4, <4>2, <5>1, <5>2 DEF PositionFits
            <4> QED BY <4>1, <4>2
        <3> QED
            BY <1>2, <2>4, <2>5, <3>5, <3>6, <3>7 DEF LedgerIInv
    <2>7. CASE ref.kind # "SALE"
        <3>1. position' = position
            BY <2>1, <2>7
        <3>2. AddUp(balances', position', entered')
            BY <1>4, <2>1, <2>2, <2>7, <3>1, OtherGrows
        <3>3. ASSUME NEW y \in Attempts
              PROVE  PositionFits(y, position'[y], returned'[y], Ref("SALE", y) \in entered', y \in whole')
            <4>1. Ref("SALE", y) \in entered' <=> Ref("SALE", y) \in entered
                BY <2>1, <2>7 DEF Ref
            <4>2. PositionFits(y, position[y], returned[y], Ref("SALE", y) \in entered, y \in whole)
                BY DEF LedgerIInv
            <4> QED BY <1>2, <3>1, <4>1, <4>2 DEF PositionFits
        <3> QED
            BY <1>2, <2>2, <2>4, <2>5, <3>1, <3>2, <3>3 DEF LedgerIInv
    <2> QED
        BY <2>6, <2>7
<1> QED
    BY <1>3, <1>4

\* A refund adds entries that are in balance to the position of its attempt.
LEMMA ReturnHolds ==
    ASSUME LedgerIInv, NEW a \in Attempts, NEW cents \in Nat, NEW e \in [Accounts -> Int],
           Balance(e) = 0, Return(a, cents, e), whole' \subseteq Attempts,
           whole \ {a} = whole' \ {a},
           PositionFits(a, Plus(position[a], e), returned[a] + cents, Ref("SALE", a) \in entered,
                        a \in whole')
    PROVE  LedgerIInv'
<1>1. /\ balances' = Plus(balances, e) /\ position' = [position EXCEPT ![a] = Plus(@, e)]
      /\ returned' = [returned EXCEPT ![a] = @ + cents] /\ UNCHANGED <<entered, booker>>
    BY DEF Return
<1>2. /\ balances \in [Accounts -> Int] /\ Balance(balances) = 0
      /\ entered \subseteq LedgerReferences /\ IsFiniteSet(entered)
      /\ position \in [Attempts -> [Accounts -> Int]] /\ returned \in [Attempts -> Nat]
      /\ AddUp(balances, position, entered)
    BY DEF LedgerIInv
<1>3. balances' \in [Accounts -> Int] /\ Balance(balances') = 0
    <2>1. Plus(balances, e) \in [Accounts -> Int]
          /\ Balance(Plus(balances, e)) = Balance(balances) + Balance(e)
        BY <1>2, PlusIs
    <2> QED BY <1>1, <1>2, <2>1
<1>4. position' \in [Attempts -> [Accounts -> Int]] /\ returned' \in [Attempts -> Nat]
    <2>1. Plus(position[a], e) \in [Accounts -> Int]
        BY <1>2, PlusIs
    <2>2. returned[a] + cents \in Nat
        BY <1>2
    <2> QED BY <1>1, <1>2, <2>1, <2>2
<1>5. \A y \in Attempts : /\ position'[y] = IF y = a THEN Plus(position[a], e) ELSE position[y]
                          /\ returned'[y] = IF y = a THEN returned[a] + cents ELSE returned[y]
    BY <1>1, <1>2
<1>6. AddUp(balances', position', entered')
    <2> DEFINE q == position'
    <2>1. q \in [Attempts -> [Accounts -> Int]]
          /\ \A y \in Attempts : q[y] = IF y = a THEN Plus(position[a], e) ELSE position[y]
        BY <1>4, <1>5
    <2> HIDE DEF q
    <2>2. AddUp(Plus(balances, e), q, entered)
        BY <1>2, <2>1, PositionGrows
    <2> QED
        BY <1>1, <2>2 DEF q
<1>7. ASSUME NEW y \in Attempts
      PROVE  PositionFits(y, position'[y], returned'[y], Ref("SALE", y) \in entered', y \in whole')
    <2>1. CASE y = a
        BY <1>1, <1>5, <2>1
    <2>2. CASE y # a
        <3>1. PositionFits(y, position[y], returned[y], Ref("SALE", y) \in entered, y \in whole)
            BY DEF LedgerIInv
        <3>2. y \in whole' <=> y \in whole
            BY <2>2
        <3> QED BY <1>1, <1>5, <2>2, <3>1, <3>2 DEF PositionFits
    <2> QED BY <2>1, <2>2
<1> QED
    BY <1>1, <1>2, <1>3, <1>4, <1>6, <1>7 DEF LedgerIInv

\* A part that is returned leaves the share of what is kept.
LEMMA PartHolds ==
    ASSUME LedgerIInv, NEW a \in Attempts, NEW cents \in 1..PaidCents[a], ReturnPart(a, cents)
    PROVE  LedgerIInv'
<1> DEFINE r == returned[a]
           s == r + cents
           t == TotalCents[a]
           f == FeeCentsOf[a]
           fr == FeeShareOf(a, r)
           fs == FeeShareOf(a, s)
           fee == fs - fr
           e == PartEntries(a, cents, fee)
<1>1. /\ Ref("SALE", a) \in entered /\ cents > 0 /\ s <= PaidCents[a] /\ Return(a, cents, e)
      /\ whole' = whole
    BY DEF ReturnPart
<1>2. PositionFits(a, position[a], r, TRUE, a \in whole) /\ whole \subseteq Attempts
    BY <1>1 DEF LedgerIInv
<1>3. position[a] \in [Accounts -> Int] /\ Balance(position[a]) = 0 /\ r \in 0..PaidCents[a]
    BY <1>2 DEF PositionFits
<1>4. t \in Nat /\ f \in Nat /\ PaidCents[a] \in Nat
    BY AmountsOf
<1>5. s \in 0..PaidCents[a] /\ r # PaidCents[a] /\ s # 0 /\ r \in Nat /\ cents \in Nat
    BY <1>1, <1>3, <1>4
<1>6. fr \in Int /\ fs \in Int
    <2>1. fr \in 0..f
        BY <1>3, FeeShareBounds
    <2> HIDE DEF s
    <2>2. fs \in 0..f
        BY <1>5, FeeShareBounds
    <2> QED BY <1>4, <2>1, <2>2
<1>7. a \notin whole
    BY <1>2, <1>5 DEF PositionFits
<1> HIDE DEF s, t, f, fr, fs, r
<1>8. fee \in Int /\ 0 - (cents - fee) \in Int /\ 0 - fee \in Int /\ 0 \in Int /\ cents \in Int
      /\ cents + (0 - (cents - fee)) + (0 - fee) + 0 = 0
    BY <1>5, <1>6
<1> HIDE DEF fee
<1>9. e \in [Accounts -> Int] /\ Balance(e) = 0
    <2>1. e = ClubEntry(a, cents, 0 - (cents - fee), 0 - fee, 0)
        BY DEF PartEntries
    <2> HIDE DEF e
    <2>2. ClubEntry(a, cents, 0 - (cents - fee), 0 - fee, 0) \in [Accounts -> Int]
          /\ Balance(ClubEntry(a, cents, 0 - (cents - fee), 0 - fee, 0)) = 0
        BY <1>5, <1>8, RefundBalances
    <2> QED BY <2>1, <2>2
<1>10. Plus(position[a], e) \in [Accounts -> Int] /\ Balance(Plus(position[a], e)) = 0
    <2> HIDE DEF e
    <2>1. Plus(position[a], e) \in [Accounts -> Int]
          /\ Balance(Plus(position[a], e)) = Balance(position[a]) + Balance(e)
        BY <1>3, <1>9, PlusIs
    <2> QED BY <1>3, <1>9, <2>1
<1>11. ASSUME ProviderOf[a] # "simulated" PROVE Plus(position[a], e) = LeftOf(a, s)
    <2>1. position[a] = ClubEntry(a, r - t, (t - f) - (r - fr), f - fr, 0)
        BY <1>2, <1>7, <1>11 DEF PositionFits, LeftOf, fr, f, t
    <2>2. LeftOf(a, s) = ClubEntry(a, s - t, (t - f) - (s - fs), f - fs, 0)
        BY DEF LeftOf, fs, f, t
    <2>3. e = ClubEntry(a, cents, 0 - (cents - fee), 0 - fee, 0)
        BY DEF PartEntries
    <2>4. /\ (r - t) + cents = s - t
          /\ ((t - f) - (r - fr)) + (0 - (cents - fee)) = (t - f) - (s - fs)
          /\ (f - fr) + (0 - fee) = f - fs
        BY <1>4, <1>5, <1>6 DEF s, fee
    <2> HIDE DEF e
    <2> QED
        <3> DEFINE c == r - t
                   k == (t - f) - (r - fr)
                   m == f - fr
                   l == 0 - (cents - fee)
                   n == 0 - fee
        <3>1. c \in Int /\ k \in Int /\ m \in Int /\ cents \in Int /\ l \in Int /\ n \in Int
            BY <1>4, <1>5, <1>6, <1>8
        <3>2. /\ position[a] = ClubEntry(a, c, k, m, 0) /\ e = ClubEntry(a, cents, l, n, 0)
              /\ c + cents = s - t /\ k + l = (t - f) - (s - fs) /\ m + n = f - fs
            BY <2>1, <2>3, <2>4
        <3> HIDE DEF c, k, m, l, n
        <3>3. Plus(ClubEntry(a, c, k, m, 0), ClubEntry(a, cents, l, n, 0))
              = ClubEntry(a, c + cents, k + l, m + n, 0)
            BY <3>1, ClubEntriesAdd
        <3> QED
            BY <2>2, <3>2, <3>3
<1>12. PositionFits(a, Plus(position[a], e), s, TRUE, FALSE)
    <2> HIDE DEF e
    <2> QED BY <1>5, <1>10, <1>11 DEF PositionFits
<1> HIDE DEF e
<1>13. PositionFits(a, Plus(position[a], e), returned[a] + cents, Ref("SALE", a) \in entered, a \in whole')
    <2>1. returned[a] + cents = s /\ ~(a \in whole')
        BY <1>1, <1>7 DEF r, s
    <2> HIDE DEF s
    <2> QED
        BY <1>1, <1>12, <2>1 DEF PositionFits
<1> QED
    BY <1>1, <1>2, <1>5, <1>9, <1>13, ReturnHolds

\* What is returned in one piece undoes the sale.
LEMMA WholeHolds ==
    ASSUME LedgerIInv, NEW a \in Attempts, ReturnWhole(a)
    PROVE  LedgerIInv'
<1> DEFINE e == Negative(SaleEntries(a))
           cents == PaidCents[a]
<1>1. /\ Ref("SALE", a) \in entered /\ returned[a] = 0 /\ Return(a, cents, e)
      /\ whole' = whole \cup {a}
    BY DEF ReturnWhole
<1>2. PositionFits(a, position[a], 0, TRUE, a \in whole) /\ whole \subseteq Attempts
    BY <1>1 DEF LedgerIInv
<1>3. position[a] = SaleEntries(a)
    BY <1>2 DEF PositionFits
<1>4. cents \in Nat /\ cents > 0 /\ 0 + cents = cents
    BY AmountsOf
<1>5. e \in [Accounts -> Int] /\ Balance(e) = 0 /\ Plus(position[a], e) = Nothing
    <2>1. SaleEntries(a) \in [Accounts -> Int] /\ Balance(SaleEntries(a)) = 0
        BY SaleIs
    <2> QED BY <1>3, <2>1, NegativeIs
<1>6. PositionFits(a, Nothing, cents, TRUE, TRUE)
    <2>1. cents \in 0..PaidCents[a] /\ cents # 0
        BY <1>4
    <2> QED BY <2>1, NothingIs DEF PositionFits
<1> HIDE DEF e, cents
<1>7. PositionFits(a, Plus(position[a], e), returned[a] + cents, Ref("SALE", a) \in entered, a \in whole')
    BY <1>1, <1>4, <1>5, <1>6
<1>8. whole' \subseteq Attempts /\ whole \ {a} = whole' \ {a}
    BY <1>1, <1>2
<1> QED
    BY <1>1, <1>4, <1>5, <1>7, <1>8, ReturnHolds

\* Every step of the ledger keeps the invariant.
LEMMA LedgerStep ==
    ASSUME LedgerIInv, [LedgerNext]_ledgerVars
    PROVE  LedgerIInv'
<1>1. CASE UNCHANGED ledgerVars
    BY <1>1 DEF ledgerVars, LedgerIInv
<1>2. ASSUME NEW h \in Bookers, NEW ref \in LedgerReferences, FindReference(h, ref)
      PROVE  LedgerIInv'
    BY <1>2 DEF FindReference, LedgerIInv
<1>3. ASSUME NEW h \in Bookers, Post(h) PROVE LedgerIInv'
    BY <1>3, PostHolds
<1>4. ASSUME NEW h \in Bookers, RollBack(h) PROVE LedgerIInv'
    BY <1>4 DEF RollBack, LedgerIInv
<1>5. ASSUME NEW a \in Attempts, NEW cents \in 1..PaidCents[a], ReturnPart(a, cents)
      PROVE  LedgerIInv'
    BY <1>5, PartHolds
<1>6. ASSUME NEW a \in Attempts, ReturnWhole(a) PROVE LedgerIInv'
    BY <1>6, WholeHolds
<1> QED
    BY <1>1, <1>2, <1>3, <1>4, <1>5, <1>6 DEF LedgerNext

\* What is left of a sale is nobody's debt, and nothing when all was returned.
LEMMA SharesOfLeft ==
    ASSUME LedgerIInv, NEW a \in Attempts, ProviderOf[a] # "simulated"
    PROVE  LET p == position[a]
               own == IF ProviderOf[a] = "mercado_pago" THEN "CLUB_EXTERNAL" ELSE "CLUB" IN
           /\ p[own] >= 0 /\ p["PLATFORM"] >= 0 /\ p["CUSTOMER"] <= 0
           /\ a \in whole => p = Nothing
           /\ Ref("SALE", a) \in entered /\ a \notin whole =>
                  /\ p["CUSTOMER"] = returned[a] - TotalCents[a]
                  /\ p["PLATFORM"] = FeeCentsOf[a] - FeeShareOf(a, returned[a])
           /\ returned[a] = PaidCents[a] => p["PLATFORM"] = 0
<1> DEFINE p == position[a]
           r == returned[a]
           s == FeeShareOf(a, r)
           t == TotalCents[a]
           f == FeeCentsOf[a]
           own == IF ProviderOf[a] = "mercado_pago" THEN "CLUB_EXTERNAL" ELSE "CLUB"
           sold == Ref("SALE", a) \in entered
<1>1. PositionFits(a, p, r, sold, a \in whole)
    BY DEF LedgerIInv
<1>2. t \in Nat /\ f \in Nat /\ f <= PaidCents[a] /\ PaidCents[a] <= t /\ PaidCents[a] \in Nat
      /\ PaidCents[a] > 0
    BY AmountsOf
<1>3. r \in 0..PaidCents[a]
    BY <1>1 DEF PositionFits
<1>4. s \in 0..f /\ f - s <= PaidCents[a] - r /\ (r = PaidCents[a] => s = f)
    <2> HIDE DEF r
    <2> QED BY <1>3, FeeShareBounds
<1>5. own \in Accounts /\ "PLATFORM" \in Accounts /\ "CUSTOMER" \in Accounts
    BY DEF Accounts
<1>6. CASE ~sold \/ a \in whole
    <2>1. p = Nothing /\ (~sold => a \notin whole)
        BY <1>1, <1>6 DEF PositionFits
    <2>2. p[own] = 0 /\ p["PLATFORM"] = 0 /\ p["CUSTOMER"] = 0
        <3> HIDE DEF p, own
        <3> QED BY <1>5, <2>1, NothingIs
    <2> QED BY <1>6, <2>1, <2>2
<1>7. CASE sold /\ a \notin whole
    <2> DEFINE c == r - t
               k == (t - f) - (r - s)
               m == f - s
    <2>1. p = ClubEntry(a, c, k, m, 0)
        BY <1>1, <1>7 DEF PositionFits, LeftOf
    <2>2. c \in Int /\ k \in Int /\ m \in Int /\ 0 \in Int
        <3> HIDE DEF r, s, t, f
        <3> QED BY <1>2, <1>3, <1>4
    <2>3. c <= 0 /\ k >= 0 /\ m >= 0 /\ (r = PaidCents[a] => m = 0)
        <3> HIDE DEF r, s, t, f
        <3> QED BY <1>2, <1>3, <1>4
    <2>4. p["CUSTOMER"] = c /\ p["PLATFORM"] = m /\ p[own] = k
        <3> HIDE DEF c, k, m, p
        <3> QED BY <2>1, <2>2, ClubEntryIs
    <2> QED
        BY <1>7, <2>3, <2>4
<1> QED
    BY <1>6, <1>7

\* The sums of the books read the table of the positions and the entries.
LEMMA EntryInIsSum ==
    ASSUME NEW S, S \subseteq LedgerReferences, NEW x
    PROVE  MapThenSumSet(LAMBDA ref : EntriesOf(ref)[x], S) = SumOver(EntryIn(x), S)
<1> DEFINE Reads(g) == g = [s \in SUBSET S |-> IF s = {} THEN 0
                                               ELSE EntriesOf(FirstOf(s))[x] + g[s \ {FirstOf(s)}]]
           Sums(g)  == g = [s \in SUBSET S |-> IF s = {} THEN 0
                                               ELSE EntryIn(x)[FirstOf(s)] + g[s \ {FirstOf(s)}]]
<1>1. MapThenSumSet(LAMBDA ref : EntriesOf(ref)[x], S) = (CHOOSE g : Reads(g))[S]
    BY DEF MapThenSumSet, MapThenFoldSet, FirstOf
<1>2. SumOver(EntryIn(x), S) = (CHOOSE g : Sums(g))[S]
    BY DEF SumOver, MapThenSumSet, MapThenFoldSet, FirstOf
<1>3. ASSUME NEW g PROVE Reads(g) <=> Sums(g)
    <2>1. \A s \in SUBSET S : s # {} => FirstOf(s) \in LedgerReferences
        BY FirstOfIn
    <2>2. \A s \in SUBSET S : s # {} => EntryIn(x)[FirstOf(s)] = EntriesOf(FirstOf(s))[x]
        BY <2>1 DEF EntryIn
    <2>3. [s \in SUBSET S |-> IF s = {} THEN 0 ELSE EntriesOf(FirstOf(s))[x] + g[s \ {FirstOf(s)}]]
          = [s \in SUBSET S |-> IF s = {} THEN 0 ELSE EntryIn(x)[FirstOf(s)] + g[s \ {FirstOf(s)}]]
        BY <2>2, Zenon
    <2> QED
        BY <2>3, Zenon
<1>4. (CHOOSE g : Reads(g)) = (CHOOSE g : Sums(g))
    <2> HIDE DEF Reads, Sums
    <2> QED BY <1>3, Zenon
<1> QED
    BY <1>1, <1>2, <1>4, Zenon

\* The invariant is what is asked of the books.
LEMMA LedgerShown ==
    ASSUME LedgerIInv
    PROVE  LedgerInv /\ AccountsAreEntries
<1>1. LedgerTypeOK
    BY DEF LedgerIInv, LedgerTypeOK, PositionFits
<1>2. BooksBalance
    BY DEF LedgerIInv, PositionFits, BooksBalance, Reconciles
<1>3. SharesAreKept
    BY SharesOfLeft DEF SharesAreKept
<1>4. AccountsAreEntries
    <2> SUFFICES ASSUME NEW x \in Accounts
                 PROVE  balances[x] = MapThenSumSet(LAMBDA a : position[a][x], Attempts)
                                      + MapThenSumSet(LAMBDA ref : EntriesOf(ref)[x],
                                                      {ref \in entered : ref.kind # "SALE"})
        BY DEF AccountsAreEntries
    <2>1. MapThenSumSet(LAMBDA a : position[a][x], Attempts) = SumOver(ColumnOf(position, x), Attempts)
        <3>1. ColumnSum(position, x, Attempts) = SumOver(ColumnOf(position, x), Attempts)
            BY SumOfColumn DEF ColumnOf
        <3> QED
            BY <3>1 DEF ColumnSum, MapThenSumSet, MapThenFoldSet, FirstOf
    <2>2. Others(entered) \subseteq LedgerReferences
        BY DEF LedgerIInv, Others
    <2>3. MapThenSumSet(LAMBDA ref : EntriesOf(ref)[x], Others(entered))
          = SumOver(EntryIn(x), Others(entered))
        BY <2>2, EntryInIsSum
    <2>4. balances[x] = SumOver(ColumnOf(position, x), Attempts) + SumOver(EntryIn(x), Others(entered))
        BY DEF LedgerIInv, AddUp
    <2> QED
        BY <2>1, <2>3, <2>4 DEF Others
<1> QED
    BY <1>1, <1>2, <1>3, <1>4 DEF LedgerInv

\* The books balance, of the platform and of each order, refunds in parts
\* keep the shares of the club and of the platform, and every account is what
\* its transactions left in it (ledger.service.ts, referrals.service.ts).
THEOREM LedgerInvariance == LedgerSpec => [](LedgerInv /\ AccountsAreEntries)
<1>1. LedgerIInv /\ [LedgerNext]_ledgerVars => LedgerIInv'
    BY LedgerStep
<1> QED
    BY <1>1, InitLedger, LedgerShown, PTL DEF LedgerSpec

-----------------------------------------------------------------------------
(***************************************************************************)
(* Wallet                                                                  *)
(***************************************************************************)
-----------------------------------------------------------------------------
(* The inductive invariant.                                                *)

\* The lots of the first consumptions of a purchase.
FirstLots(q, n) == {q[i] : i \in 1..n}

\* The consumptions q name n lots once each.
ListsLots(q, n, L) == q \in [1..n -> L] /\ \A i, j \in 1..n : q[i] = q[j] => i = j

\* The statuses of a purchase, and what a reward posts to the ledger.
BuyStatuses == {"NONE", "PENDING", "PAID", "EXPIRED", "PARTIALLY_REFUNDED", "REFUNDED"}
Postings == {"REFERRAL_REWARD", "REFERRAL_REWARD_REVERSAL"}

\* A transaction, by what it is made of.
TxnKinds  == {"buy", "send", "expire", "reverse", "restore"}
TxnStates == [kind : TxnKinds \cup {"idle"}, of : Buys \cup Transfers \cup Lots \cup {""},
              seen : [Lots -> Nat], dead : SUBSET Lots, was : RewardStatuses]

\* The movements of user u count the purchases s, the transfers z and the
\* rewards booked k of the user, each once.
Bought(s, u)    == {b \in Buys : OwnerOf[b] = u /\ s[b] # "NONE"}
SentBy(z, u)    == {x \in z : OwnerOf[x] = u}
SentTo(z, u)    == {x \in z : Receiver[x] = u}
Rewarded(k, u)  == {r \in Rewards : OwnerOf[r] = u /\ k[r] # {}}

\* An account is the sum of its movements, and each movement is what was counted.
AccountFits(u, cents, m, s, z, k) ==
    /\ cents = SumOver(m, MovementTypes)
    /\ m["PURCHASE"] = -BuyCents * Cardinality(Bought(s, u))
    /\ m["TRANSFER_OUT"] = -SendCents * Cardinality(SentBy(z, u))
    /\ m["TRANSFER_IN"] = SendCents * Cardinality(SentTo(z, u))
    /\ m["REFERRAL_REWARD"] = RewardCents * Cardinality(Rewarded(k, u))

\* A reward that is pending was not booked; there is none without its order.
RewardFits(status, of, k) ==
    /\ of = "NONE" => k = {}
    /\ status = "PENDING" => of # "NONE" /\ k = {}

\* A purchase took what it cost, by the lots its rows name, and gave back of
\* each lot no more than it took, and in sum no less than was refunded.
PurchaseFits(status, took, gave, q, cents) ==
    /\ status \in BuyStatuses /\ cents \in 0..BuyCents
    /\ status \notin {"PARTIALLY_REFUNDED", "REFUNDED"} => cents = 0
    /\ status = "REFUNDED" <=> cents = BuyCents
    /\ status = "NONE" => \A l \in Lots : gave[l] = 0
    /\ \A l \in Lots : gave[l] <= took[l]
    /\ status # "NONE" =>
           /\ SumOver(took, Lots) = BuyCents /\ cents <= SumOver(gave, Lots)
           /\ \E n \in Nat : ListsLots(q, n, Lots) /\ \A l \in Lots : took[l] > 0 => l \in FirstLots(q, n)

\* What a transaction x knows, under its locks: its purchase was not made yet,
\* its transfer is within the limit of the day.
TxnKnows(x, s, z) ==
    /\ x \in TxnStates
    /\ x.kind = "buy" => x.of \in Buys /\ s[x.of] = "NONE"
    /\ x.kind = "send" =>
           /\ x.of \in Transfers /\ \A l \in Lots : x.seen[l] > 0 => l \in Rewards
           /\ SendCents * Cardinality(SentBy(z, OwnerOf[x.of])) + SendCents <= DailyLimit
    /\ x.kind = "expire" => x.of \in Lots
    /\ x.kind = "reverse" => x.of \in Rewards
    /\ x.kind = "restore" => x.of \in Buys

\* Two transactions under the locks are of different wallets, or of different
\* orders of rewards.
Parties(x) == {OwnerOf[x.of], Receiver[x.of]}
Apart(x, y) ==
    /\ x.kind \in {"buy", "restore"} /\ y.kind \in {"buy", "restore"} =>
           OwnerOf[x.of] # OwnerOf[y.of]
    /\ x.kind = "send" /\ y.kind = "send" => Parties(x) \cap Parties(y) = {}
    /\ x.kind = "reverse" /\ y.kind = "reverse" => x.of # y.of

\* A payment that is being returned was approved, or returned in part, and not
\* returned yet, by the purchases m that are split, their statuses s and the
\* statuses k of the orders of rewards.
TxnReturns(x, m, s, k) ==
    /\ x.kind = "restore" => x.of \in m /\ s[x.of] = "PAID"
    /\ x.kind = "reverse" => k[x.of] = "PAID"

\* The payments of a user at the gateway, and what the movements of a type say.
PaidBy(u) == {g \in Rewards \cup Buys : PayerOf(g) = u}
Says(type) == [g \in Rewards \cup Buys |-> SaysOutside(type, g)]

\* The types, narrowed to the statuses the code writes.
WalletTypes ==
    /\ WalletTypeOK
    /\ booked \in [Rewards -> SUBSET Postings] /\ txn \in [Txs -> TxnStates]
    /\ bought \in [Buys -> BuyStatuses] /\ refunded \in [Buys -> 0..BuyCents] /\ DOMAIN rows = Buys

\* Every account, reward and purchase fits.
AccountsFit == \A u \in Clients : AccountFits(u, balance[u], moved[u], bought, sent, booked)

RewardsFit == \A r \in Rewards : RewardFits(reward[r], source[r], booked[r])

PurchasesFit == \A b \in Buys : PurchaseFits(bought[b], taken[b], restored[b], rows[b], refunded[b])

\* The open transactions know what they rely on, and no two share a lock.
TransactionsFit ==
    /\ \A t \in Txs : TxnKnows(txn[t], bought, sent)
    /\ \A t, o \in Txs : t # o => Apart(txn[t], txn[o])
    /\ TransfersWithinLimit

\* The movements of what was paid at the gateway are those of the payments that
\* were approved and returned; what is being returned is not returned yet.
OutsideFits ==
    \A u \in Clients, type \in OutsideTypes : outside[u][type] = SumOver(Says(type), PaidBy(u))

PaymentsFit ==
    /\ \A t \in Txs : TxnReturns(txn[t], split, bought, source)
    /\ \A r \in Rewards : r \in approved => source[r] # "NONE"
    /\ \A b \in Buys : b \in approved => b \in split /\ bought[b] \in {"PAID", "REFUNDED"}
    /\ OutsideFits

\* The inductive invariant of the wallet.
WalletIInv ==
    /\ WalletTypes /\ AccountsFit /\ RewardsFit /\ PurchasesFit /\ TransactionsFit
    /\ PaymentsFit

-----------------------------------------------------------------------------
(* The shares of a refund.                                                 *)

\* One consumption more is one lot more.
LEMMA NextLot ==
    ASSUME NEW n \in Nat, NEW L, IsFiniteSet(L), NEW q, ListsLots(q, n, L), NEW k \in 1..n
    PROVE  /\ FirstLots(q, k) = FirstLots(q, k - 1) \cup {q[k]} /\ q[k] \notin FirstLots(q, k - 1)
           /\ FirstLots(q, k - 1) \subseteq L /\ FirstLots(q, k) \subseteq L /\ q[k] \in L
           /\ IsFiniteSet(FirstLots(q, k - 1)) /\ IsFiniteSet(FirstLots(q, k))
<1>1. FirstLots(q, k - 1) \subseteq L /\ FirstLots(q, k) \subseteq L /\ q[k] \in L
    BY DEF ListsLots, FirstLots
<1>2. 1..k = 1..(k - 1) \cup {k} /\ k \notin 1..(k - 1) /\ 1..(k - 1) \subseteq 1..n
    OBVIOUS
<1>3. FirstLots(q, k) = FirstLots(q, k - 1) \cup {q[k]}
    BY <1>2 DEF FirstLots
<1>4. q[k] \notin FirstLots(q, k - 1)
    BY <1>2 DEF FirstLots, ListsLots
<1> QED
    BY <1>1, <1>3, <1>4, FS_Subset

\* What holds of no consumption, and of one more whenever it holds of those
\* before it, holds of all of them.
LEMMA Consumption ==
    ASSUME NEW n \in Nat, NEW holds, 0 \in holds,
           \A k \in 1..n : k - 1 \in holds => k \in holds
    PROVE  n \in holds
<1> DEFINE S == 0..n
           W == {s \in SUBSET S : \E k \in S : k \notin holds /\ s = 0..k}
<1>1. SUFFICES ASSUME n \notin holds PROVE FALSE
    OBVIOUS
<1>2. IsFiniteSet(S)
    BY FS_Interval
<1>3. W # {}
    <2>1. S \in W
        BY <1>1
    <2> QED BY <2>1
<1>4. PICK s \in W : \A t \in W : t \subseteq s => t = s
    <2>1. W \subseteq SUBSET S
        OBVIOUS
    <2> HIDE DEF W, S
    <2> QED BY <1>2, <1>3, <2>1, Smallest
<1>5. PICK k \in S : k \notin holds /\ s = 0..k
    BY <1>4
<1>6. k \in 1..n /\ k - 1 \notin holds /\ k - 1 \in S
    BY <1>5
<1>7. 0..(k - 1) \in W /\ 0..(k - 1) \subseteq s /\ k \in s /\ k \notin 0..(k - 1)
    BY <1>5, <1>6
<1> QED
    BY <1>4, <1>7

\* The quotient of a share of cents.
Part(sum, cents, entire) == (sum * cents) \div entire

\* A share, rounded or not, is a number, grows by at most what it is a share
\* of, and is all of it in the end.
LEMMA PartGrows ==
    ASSUME NEW sum \in Nat, NEW more \in Nat, NEW entire \in Nat \ {0}, NEW cents \in 0..entire
    PROVE  /\ Part(sum, cents, entire) \in Nat
           /\ Part(sum + more, cents, entire) - Part(sum, cents, entire) \in 0..more
           /\ Part(0, cents, entire) = 0 /\ Part(entire, cents, entire) = cents
<1> DEFINE a == sum * cents
           m == more * cents
           p == a \div entire
<1>1. a \in Nat /\ m \in Nat
    OBVIOUS
<1>2. (sum + more) * cents = a + m
    OBVIOUS
<1>3. m <= entire * more
    <2> DEFINE k == entire - cents
    <2>1. k \in Nat /\ entire = cents + k
        OBVIOUS
    <2> HIDE DEF k
    <2>2. entire * more = m + k * more /\ k * more \in Nat
        BY <2>1
    <2> HIDE DEF m
    <2> QED BY <1>1, <2>2
<1> HIDE DEF a, m
<1>4. p \in Int /\ entire * p <= a /\ a < entire * p + entire
    BY <1>1, DivisionIs
<1>5. p >= 0
    BY <1>1, DivisionAtLeast
<1>6. p <= (a + m) \div entire
    <2>1. entire * p <= a + m
        <3> DEFINE x == entire * p
        <3>1. x \in Int
            BY <1>4
        <3> HIDE DEF x, p
        <3> QED BY <1>1, <1>4, <3>1 DEF x
    <2> HIDE DEF p
    <2> QED BY <1>1, <1>4, <2>1, DivisionAtLeast
<1>7. (a + m) \div entire <= p + more
    <2>1. entire * (p + more) = entire * p + entire * more /\ entire * p \in Int /\ entire * more \in Int
        BY <1>4
    <2>2. a + m < entire * (p + more) + entire
        <3> DEFINE x == entire * p
                   y == entire * more
                   z == entire * (p + more)
        <3>1. z = x + y /\ x \in Int /\ y \in Int /\ a < x + entire /\ m <= y
            BY <1>3, <1>4, <2>1
        <3> HIDE DEF x, y, z, p
        <3>2. a + m < z + entire
            BY <1>1, <3>1
        <3> QED BY <3>2 DEF z
    <2>3. p + more \in Int /\ a + m \in Int
        BY <1>1, <1>4
    <2> HIDE DEF p
    <2> QED BY <2>2, <2>3, DivisionAtMost
<1>8. (a + m) \div entire \in Int
    BY <1>1, DivisionIs
<1>9. Part(sum, cents, entire) = p /\ Part(sum + more, cents, entire) = (a + m) \div entire
    BY <1>2 DEF Part, a
<1>10. Part(0, cents, entire) = 0
    <2>1. 0 * cents = 0
        OBVIOUS
    <2>2. 0 \div entire = 0
        OBVIOUS
    <2> QED BY <2>1, <2>2 DEF Part
<1>11. Part(entire, cents, entire) = cents
    <2> DEFINE w == entire * cents
    <2>1. w \in Int /\ cents \in Int /\ w <= w /\ w < w + entire
        OBVIOUS
    <2> HIDE DEF w
    <2>2. w \div entire \in Int
        BY <2>1, DivisionIs
    <2>3. cents <= w \div entire
        BY <2>1, DivisionAtLeast DEF w
    <2>4. w \div entire <= cents
        BY <2>1, DivisionAtMost DEF w
    <2> QED BY <2>1, <2>2, <2>3, <2>4 DEF Part, w
<1> HIDE DEF p
<1> QED
    BY <1>4, <1>5, <1>6, <1>7, <1>8, <1>9, <1>10, <1>11

\* What is restored of each lot once cents of the purchase are refunded.
TargetIs(q, n, amounts, cents, target) ==
    \A i \in 1..n : target[q[i]] = Target(q, amounts, cents, i)

\* The shares of the lots are of what was taken of them, and add up to the refund.
LEMMA SharesAddUp ==
    ASSUME NEW n \in Nat, NEW L, IsFiniteSet(L), NEW q, ListsLots(q, n, L),
           NEW amounts, \A l \in L : amounts[l] \in Nat,
           SumOver(amounts, FirstLots(q, n)) > 0,
           NEW cents \in 0..SumOver(amounts, FirstLots(q, n)),
           NEW target, TargetIs(q, n, amounts, cents, target)
    PROVE  /\ \A i \in 1..n : target[q[i]] \in 0..amounts[q[i]]
           /\ SumOver(target, FirstLots(q, n)) = cents
<1> DEFINE A(k) == SumOver(amounts, FirstLots(q, k))
           B == A(n)
           holds == {k \in 0..n : SumOver(target, FirstLots(q, k)) = Part(A(k), cents, B)}
<1>1. \A k \in 0..n : A(k) \in Nat
    <2> SUFFICES ASSUME NEW k \in 0..n PROVE A(k) \in Nat
        OBVIOUS
    <2>1. FirstLots(q, k) \subseteq L
        BY DEF FirstLots, ListsLots
    <2>2. IsFiniteSet(FirstLots(q, k))
        BY <2>1, FS_Subset
    <2> QED BY <2>1, <2>2, SumIsNat
<1>2. B \in Nat \ {0} /\ cents \in 0..B
    BY <1>1
<1>3. ToSet(q) = FirstLots(q, n)
    BY DEF ToSet, FirstLots, ListsLots
<1>4. ASSUME NEW k \in 1..n
      PROVE  Target(q, amounts, cents, k) = Part(A(k), cents, B) - Part(A(k - 1), cents, B)
    <2>1. \A j : Total(amounts, FirstLots(q, j)) = A(j)
        BY DEF Total, SumOver
    <2> QED BY <1>3, <2>1 DEF Target, Part, FirstLots
<1>5. 0 \in holds
    <2>1. FirstLots(q, 0) = {}
        BY DEF FirstLots
    <2>2. A(0) = 0 /\ SumOver(target, FirstLots(q, 0)) = 0
        BY <2>1, SumOfEmpty
    <2>3. Part(0, cents, B) = 0
        <3>1. 0 \in Nat
            OBVIOUS
        <3> HIDE DEF B
        <3> QED BY <1>2, <3>1, PartGrows
    <2> HIDE DEF B, A
    <2> QED BY <2>2, <2>3
<1>6. ASSUME NEW k \in 1..n, k - 1 \in holds PROVE k \in holds
    <2> DEFINE l == q[k]
               before == FirstLots(q, k - 1)
    <2>1. /\ FirstLots(q, k) = before \cup {l} /\ l \notin before /\ before \subseteq L /\ l \in L
          /\ IsFiniteSet(before)
        BY NextLot
    <2>2. amounts[l] \in Nat /\ \A x \in before : amounts[x] \in Int
        BY <2>1
    <2>3. A(k) = amounts[l] + A(k - 1)
        <3> HIDE DEF l, before
        <3>1. SumOver(amounts, before \cup {l}) = amounts[l] + SumOver(amounts, before)
            BY <2>1, <2>2, SumWith
        <3> QED BY <2>1, <3>1 DEF before
    <2>4. k - 1 \in 0..n /\ k \in 0..n /\ A(k - 1) \in Nat /\ A(k) = A(k - 1) + amounts[l]
        <3>1. k - 1 \in 0..n /\ k \in 0..n
            OBVIOUS
        <3>2. A(k - 1) \in Nat
            BY <1>1, <3>1
        <3> HIDE DEF A, l
        <3> QED BY <2>2, <2>3, <3>1, <3>2
    <2>5. /\ Part(A(k - 1), cents, B) \in Nat
          /\ Part(A(k), cents, B) - Part(A(k - 1), cents, B) \in 0..amounts[l]
        <3> HIDE DEF A, B, l
        <3> QED BY <1>2, <2>2, <2>4, PartGrows
    <2>6. target[l] = Part(A(k), cents, B) - Part(A(k - 1), cents, B)
        BY <1>4 DEF TargetIs
    <2>7. target[l] \in 0..amounts[l] /\ target[l] \in Int
        BY <2>2, <2>5, <2>6
    <2>8. \A x \in before : target[x] \in Int
        <3> SUFFICES ASSUME NEW x \in before PROVE target[x] \in Int
            OBVIOUS
        <3>1. PICK i \in 1..(k - 1) : x = q[i]
            BY DEF FirstLots
        <3>2. i \in 1..n /\ i \in 0..n /\ i - 1 \in 0..n
            BY <3>1
        <3>3. A(i) \in Nat /\ A(i - 1) \in Nat
            BY <1>1, <3>2
        <3>4. target[x] = Part(A(i), cents, B) - Part(A(i - 1), cents, B)
            BY <1>4, <3>1, <3>2 DEF TargetIs
        <3>5. 0 \in Nat
            OBVIOUS
        <3>6. Part(A(i), cents, B) \in Nat /\ Part(A(i - 1), cents, B) \in Nat
            <4> HIDE DEF A, B
            <4> QED BY <1>2, <3>3, <3>5, PartGrows
        <3> HIDE DEF A, B
        <3> QED BY <3>4, <3>6
    <2>9. SumOver(target, FirstLots(q, k)) = target[l] + SumOver(target, before)
        <3> HIDE DEF l, before
        <3> QED BY <2>1, <2>7, <2>8, SumWith
    <2>10. SumOver(target, before) = Part(A(k - 1), cents, B)
        BY <1>6
    <2>11. SumOver(target, FirstLots(q, k)) = Part(A(k), cents, B)
        <3>1. Part(A(k), cents, B) \in Int
            <4>1. A(k) \in Nat /\ 0 \in Nat
                BY <1>1, <2>4
            <4> HIDE DEF A, B, l
            <4> QED BY <1>2, <4>1, PartGrows
        <3> HIDE DEF A, B, l, before
        <3> QED BY <2>5, <2>6, <2>9, <2>10, <3>1
    <2> HIDE DEF A, B
    <2> QED BY <2>4, <2>11
<1>7. n \in holds
    <2> HIDE DEF holds
    <2> QED BY <1>5, <1>6, Consumption
<1>8. SumOver(target, FirstLots(q, n)) = cents
    <2>1. Part(B, cents, B) = cents
        <3>1. 0 \in Nat
            OBVIOUS
        <3> HIDE DEF B
        <3> QED BY <1>2, <3>1, PartGrows
    <2> QED BY <1>7, <2>1
<1>9. ASSUME NEW i \in 1..n PROVE target[q[i]] \in 0..amounts[q[i]]
    <2>1. q[i] \in L /\ i \in 0..n /\ i - 1 \in 0..n
        BY DEF ListsLots
    <2>2. amounts[q[i]] \in Nat /\ A(i) \in Nat /\ A(i - 1) \in Nat
        BY <1>1, <2>1
    <2>3. A(i) = A(i - 1) + amounts[q[i]]
        <3>1. /\ FirstLots(q, i) = FirstLots(q, i - 1) \cup {q[i]} /\ q[i] \notin FirstLots(q, i - 1)
              /\ FirstLots(q, i - 1) \subseteq L /\ IsFiniteSet(FirstLots(q, i - 1))
            BY NextLot
        <3>2. \A x \in FirstLots(q, i - 1) : amounts[x] \in Int
            BY <3>1
        <3>3. SumOver(amounts, FirstLots(q, i)) = amounts[q[i]] + SumOver(amounts, FirstLots(q, i - 1))
            BY <2>2, <3>1, <3>2, SumWith
        <3> QED BY <2>2, <3>3
    <2>4. Part(A(i), cents, B) - Part(A(i - 1), cents, B) \in 0..amounts[q[i]]
        <3> HIDE DEF A, B
        <3> QED BY <1>2, <2>2, <2>3, PartGrows
    <2> QED
        BY <1>4, <2>4 DEF TargetIs
<1> QED
    BY <1>8, <1>9

-----------------------------------------------------------------------------
(* Sets that are finite, and small facts.                                  *)

\* There are finitely many of everything that is counted or added up.
LEMMA WalletSetsFinite ==
    /\ IsFiniteSet(Funds) /\ IsFiniteSet(Rewards) /\ IsFiniteSet(Transfers) /\ IsFiniteSet(Buys)
    /\ IsFiniteSet(Lots) /\ IsFiniteSet(MovementTypes) /\ IsFiniteSet(Rewards \cup Buys)
<1>1. IsFiniteSet(Funds) /\ IsFiniteSet(Rewards) /\ IsFiniteSet(Transfers) /\ IsFiniteSet(Buys)
    BY WalletAssumption, FS_Subset
<1>2. IsFiniteSet(Copies)
    BY <1>1, FS_Product DEF Copies
<1>3. IsFiniteSet(Lots)
    <2>1. IsFiniteSet(Funds \cup Rewards)
        BY <1>1, FS_Union
    <2> QED BY <1>2, <2>1, FS_Union DEF Lots
<1>4. IsFiniteSet(MovementTypes)
    <2>1. /\ IsFiniteSet({"TOP_UP"}) /\ IsFiniteSet({"PURCHASE"}) /\ IsFiniteSet({"REFUND"})
          /\ IsFiniteSet({"TRANSFER_IN"}) /\ IsFiniteSet({"TRANSFER_OUT"})
          /\ IsFiniteSet({"REFERRAL_REWARD"}) /\ IsFiniteSet({"REFERRAL_REVERSAL"})
          /\ IsFiniteSet({"CREDIT_EXPIRATION"})
        BY FS_Singleton
    <2>2. IsFiniteSet({"TOP_UP"} \cup {"PURCHASE"}) /\ IsFiniteSet({"REFUND"} \cup {"TRANSFER_IN"})
          /\ IsFiniteSet({"TRANSFER_OUT"} \cup {"REFERRAL_REWARD"})
          /\ IsFiniteSet({"REFERRAL_REVERSAL"} \cup {"CREDIT_EXPIRATION"})
        BY <2>1, FS_Union
    <2>3. /\ IsFiniteSet(({"TOP_UP"} \cup {"PURCHASE"}) \cup ({"REFUND"} \cup {"TRANSFER_IN"}))
          /\ IsFiniteSet(({"TRANSFER_OUT"} \cup {"REFERRAL_REWARD"})
                         \cup ({"REFERRAL_REVERSAL"} \cup {"CREDIT_EXPIRATION"}))
        BY <2>2, FS_Union
    <2>4. IsFiniteSet((({"TOP_UP"} \cup {"PURCHASE"}) \cup ({"REFUND"} \cup {"TRANSFER_IN"}))
              \cup (({"TRANSFER_OUT"} \cup {"REFERRAL_REWARD"})
                    \cup ({"REFERRAL_REVERSAL"} \cup {"CREDIT_EXPIRATION"})))
        BY <2>3, FS_Union
    <2>5. MovementTypes = (({"TOP_UP"} \cup {"PURCHASE"}) \cup ({"REFUND"} \cup {"TRANSFER_IN"}))
              \cup (({"TRANSFER_OUT"} \cup {"REFERRAL_REWARD"})
                    \cup ({"REFERRAL_REVERSAL"} \cup {"CREDIT_EXPIRATION"}))
        BY DEF MovementTypes
    <2> QED BY <2>4, <2>5
<1>5. IsFiniteSet(Rewards \cup Buys)
    BY <1>1, FS_Union
<1> QED
    BY <1>1, <1>2, <1>3, <1>4, <1>5

\* The amount of a reward.
LEMMA RewardCentsIs == RewardCents \in Nat
<1>1. BaseCents * RewardBps \in Nat
    BY WalletAssumption
<1>2. Whole \in Nat \ {0} /\ 0 \in Int
    BY WalletAssumption
<1> DEFINE n == BaseCents * RewardBps
<1>3. n \in Nat /\ Whole * 0 <= n
    BY <1>1, <1>2
<1> HIDE DEF n
<1>4. n \div Whole \in Int /\ 0 <= n \div Whole
    BY <1>2, <1>3, DivisionIs, DivisionAtLeast
<1> QED
    BY <1>4 DEF RewardCents, n

\* The users of things are users.
LEMMA UsersAre ==
    /\ \A b \in Buys : OwnerOf[b] \in Clients
    /\ \A r \in Rewards : OwnerOf[r] \in Clients /\ BuyerOf[r] \in Clients
    /\ \A x \in Transfers : OwnerOf[x] \in Clients /\ Receiver[x] \in Clients /\ OwnerOf[x] # Receiver[x]
    /\ \A l \in Lots : Holder(l) \in Clients
BY WalletAssumption DEF Lots, Copies, Holder

\* A movement on a row of the table of movements.
LEMMA RowMoved ==
    ASSUME NEW m \in [MovementTypes -> Int], NEW type \in MovementTypes, NEW cents \in Int
    PROVE  /\ [m EXCEPT ![type] = @ + cents] \in [MovementTypes -> Int]
           /\ SumOver([m EXCEPT ![type] = @ + cents], MovementTypes) = SumOver(m, MovementTypes) + cents
<1> DEFINE g == [m EXCEPT ![type] = @ + cents]
<1>1. g \in [MovementTypes -> Int] /\ g[type] = m[type] + cents /\ m[type] \in Int
    OBVIOUS
<1>2. \A y \in MovementTypes : m[y] \in Int /\ (y # type => g[y] = m[y])
    OBVIOUS
<1>3. SumOver(g, MovementTypes) = SumOver(m, MovementTypes) - m[type] + g[type]
    <2> HIDE DEF g
    <2>1. g[type] \in Int
        BY <1>1
    <2> QED BY <1>2, <2>1, WalletSetsFinite, SumUpdated
<1>4. SumOver(m, MovementTypes) \in Int
    BY <1>2, WalletSetsFinite, SumIsInt
<1> HIDE DEF g
<1>5. SumOver(g, MovementTypes) = SumOver(m, MovementTypes) + cents
    BY <1>1, <1>3, <1>4
<1> QED
    BY <1>1, <1>5 DEF g

-----------------------------------------------------------------------------
(* The accounts.                                                           *)

\* What Move does.
LEMMA Moved ==
    ASSUME WalletTypes, NEW u \in Clients, NEW type \in MovementTypes, NEW cents \in Int,
           Move(u, type, cents)
    PROVE  /\ balance' \in [Clients -> Int] /\ moved' \in [Clients -> [MovementTypes -> Int]]
           /\ balance'[u] = balance[u] + cents
           /\ moved'[u] = [moved[u] EXCEPT ![type] = @ + cents]
           /\ \A v \in Clients : v # u => balance'[v] = balance[v] /\ moved'[v] = moved[v]
<1>1. /\ balance \in [Clients -> Int] /\ moved \in [Clients -> [MovementTypes -> Int]]
      /\ balance' = [balance EXCEPT ![u] = @ + cents]
      /\ moved' = [moved EXCEPT ![u][type] = @ + cents]
    BY DEF WalletTypes, WalletTypeOK, Move
<1>2. [moved[u] EXCEPT ![type] = @ + cents] \in [MovementTypes -> Int]
    <2>1. moved[u] \in [MovementTypes -> Int]
        BY <1>1
    <2> QED BY <2>1
<1>3. moved' = [moved EXCEPT ![u] = [moved[u] EXCEPT ![type] = @ + cents]]
    BY <1>1
<1> DEFINE row == [moved[u] EXCEPT ![type] = @ + cents]
<1> HIDE DEF row
<1>4. moved' = [moved EXCEPT ![u] = row] /\ row \in [MovementTypes -> Int]
    BY <1>2, <1>3 DEF row
<1>5. /\ moved' \in [Clients -> [MovementTypes -> Int]] /\ moved'[u] = row
      /\ \A v \in Clients : v # u => moved'[v] = moved[v]
    BY <1>1, <1>4
<1>6. /\ balance' \in [Clients -> Int] /\ balance'[u] = balance[u] + cents
      /\ \A v \in Clients : v # u => balance'[v] = balance[v]
    BY <1>1
<1> QED
    BY <1>5, <1>6 DEF row

\* An account fits as long as the same is counted.
LEMMA SameCounts ==
    ASSUME NEW u, NEW cents, NEW m, NEW s, NEW z, NEW k, AccountFits(u, cents, m, s, z, k),
           NEW t, NEW j, Bought(t, u) = Bought(s, u), Rewarded(j, u) = Rewarded(k, u)
    PROVE  AccountFits(u, cents, m, t, z, j)
BY DEF AccountFits

\* A movement that counts nothing keeps the account.
LEMMA UncountedMove ==
    ASSUME NEW u, NEW c \in Int, NEW m \in [MovementTypes -> Int], NEW s, NEW z, NEW k,
           AccountFits(u, c, m, s, z, k), NEW cents \in Int,
           NEW type \in {"REFUND", "CREDIT_EXPIRATION", "REFERRAL_REVERSAL"}
    PROVE  AccountFits(u, c + cents, [m EXCEPT ![type] = @ + cents], s, z, k)
<1> DEFINE g == [m EXCEPT ![type] = @ + cents]
<1>1. type \in MovementTypes
    BY DEF MovementTypes
<1>2. SumOver(g, MovementTypes) = c + cents
    BY <1>1, RowMoved DEF AccountFits
<1>3. \A x \in {"PURCHASE", "TRANSFER_OUT", "TRANSFER_IN", "REFERRAL_REWARD"} : g[x] = m[x]
    BY DEF MovementTypes
<1> HIDE DEF g
<1>4. AccountFits(u, c + cents, g, s, z, k)
    BY <1>2, <1>3 DEF AccountFits
<1> QED
    BY <1>4 DEF g

\* What one more member does to a count.
LEMMA OneMore ==
    ASSUME NEW S, IsFiniteSet(S), NEW x, x \notin S, NEW price \in Nat
    PROVE  /\ price * Cardinality(S \cup {x}) = price * Cardinality(S) + price
           /\ Cardinality(S) \in Nat /\ price * Cardinality(S) \in Nat
<1>1. Cardinality(S) \in Nat /\ Cardinality(S \cup {x}) = Cardinality(S) + 1
    BY FS_CardinalityType, FS_AddElement
<1> DEFINE n == Cardinality(S)
<1> HIDE DEF n
<1>2. n \in Nat /\ Cardinality(S \cup {x}) = n + 1
    BY <1>1 DEF n
<1>3. price * (n + 1) = price * n + price /\ price * n \in Nat
    BY <1>2
<1> QED
    BY <1>2, <1>3 DEF n

\* The same of a count with a minus sign.
LEMMA OneLess ==
    ASSUME NEW S, IsFiniteSet(S), NEW x, x \notin S, NEW price \in Nat
    PROVE  /\ -price * Cardinality(S \cup {x}) = -price * Cardinality(S) - price
           /\ -price * Cardinality(S) \in Int
<1> DEFINE n == Cardinality(S)
           m == Cardinality(S \cup {x})
<1>1. n \in Nat /\ m \in Nat
    BY FS_CardinalityType, FS_AddElement
<1> DEFINE p == price * n
           r == price * m
<1>2. r = p + price /\ p \in Nat
    BY OneMore
<1> HIDE DEF n, m
<1>3. -price * n = -p /\ -price * m = -r
    BY <1>1
<1> HIDE DEF p, r
<1>4. -price * m = -price * n - price /\ -price * n \in Int
    BY <1>2, <1>3
<1> QED
    BY <1>4 DEF n, m

\* AccountsFit when one user's account changes by a movement.
LEMMA AccountsMoved ==
    ASSUME WalletTypes, AccountsFit, NEW u \in Clients, NEW type \in MovementTypes, NEW cents \in Int,
           Move(u, type, cents),
           NEW t, NEW z, NEW j,
           AccountFits(u, balance[u] + cents, [moved[u] EXCEPT ![type] = @ + cents], t, z, j),
           \A v \in Clients \ {u} : AccountFits(v, balance[v], moved[v], t, z, j)
    PROVE  \A v \in Clients : AccountFits(v, balance'[v], moved'[v], t, z, j)
BY Moved

\* Associate, PaySource, Lapse, the reads and a rollback move no money.
LEMMA AccountsStay ==
    ASSUME AccountsFit, UNCHANGED <<balance, moved, bought, sent, booked>>
    PROVE  AccountsFit'
BY DEF AccountsFit

\* Settling a purchase moves nothing: it was counted when it was made.
LEMMA SettleAccounts ==
    ASSUME WalletIInv, NEW b \in Buys, NEW status \in {"PAID", "EXPIRED"}, Settle(b, status)
    PROVE  AccountsFit'
<1>1. /\ bought \in [Buys -> BuyStatuses] /\ bought[b] \in {"PENDING", "EXPIRED"}
      /\ bought' = [bought EXCEPT ![b] = status] /\ UNCHANGED <<balance, moved, sent, booked>>
    BY DEF WalletIInv, WalletTypes, Settle
<1>2. ASSUME NEW u \in Clients PROVE Bought(bought', u) = Bought(bought, u)
    <2>1. \A c \in Buys : bought'[c] # "NONE" <=> bought[c] # "NONE"
        BY <1>1
    <2> QED BY <2>1 DEF Bought
<1>3. ASSUME NEW u \in Clients PROVE AccountFits(u, balance[u], moved[u], bought', sent, booked)
    <2>1. AccountFits(u, balance[u], moved[u], bought, sent, booked)
        BY DEF WalletIInv, AccountsFit
    <2> QED BY <1>2, <2>1, SameCounts
<1> QED
    BY <1>1, <1>3 DEF AccountsFit

\* Releasing a reward books it and moves its cents, once.
LEMMA ReleaseAccounts ==
    ASSUME WalletIInv, NEW r \in Rewards, Release(r)
    PROVE  AccountsFit'
<1> DEFINE u == OwnerOf[r]
           k == booked'
<1>1. /\ u \in Clients /\ RewardCents \in Int /\ "REFERRAL_REWARD" \in MovementTypes
      /\ Move(u, "REFERRAL_REWARD", RewardCents)
      /\ reward[r] = "PENDING" /\ booked' = [booked EXCEPT ![r] = @ \cup {"REFERRAL_REWARD"}]
      /\ UNCHANGED <<bought, sent>>
    BY UsersAre, RewardCentsIs DEF Release, MovementTypes
<1>2. /\ booked[r] = {} /\ booked \in [Rewards -> SUBSET Postings]
      /\ balance[u] \in Int /\ moved[u] \in [MovementTypes -> Int]
    BY <1>1 DEF WalletIInv, WalletTypes, WalletTypeOK, RewardsFit, RewardFits
<1>3. /\ Rewarded(k, u) = Rewarded(booked, u) \cup {r} /\ r \notin Rewarded(booked, u)
      /\ \A v : v # u => Rewarded(k, v) = Rewarded(booked, v)
    <2>1. \A q \in Rewards : k[q] # {} <=> (q = r \/ booked[q] # {})
        BY <1>1, <1>2
    <2> HIDE DEF k
    <2> QED BY <1>2, <2>1 DEF Rewarded
<1>4. IsFiniteSet(Rewarded(booked, u))
    BY WalletSetsFinite, FS_Subset DEF Rewarded
<1>5. \A v \in Clients : AccountFits(v, balance[v], moved[v], bought, sent, booked)
    BY DEF WalletIInv, AccountsFit
<1> HIDE DEF k, u
<1>6. AccountFits(u, balance[u] + RewardCents, [moved[u] EXCEPT !["REFERRAL_REWARD"] = @ + RewardCents],
                  bought, sent, k)
    <2> DEFINE m == moved[u]
               g == [m EXCEPT !["REFERRAL_REWARD"] = @ + RewardCents]
    <2>1. SumOver(g, MovementTypes) = SumOver(m, MovementTypes) + RewardCents
        BY <1>1, <1>2, RowMoved
    <2>2. /\ \A x \in {"PURCHASE", "TRANSFER_OUT", "TRANSFER_IN"} : g[x] = m[x]
          /\ g["REFERRAL_REWARD"] = m["REFERRAL_REWARD"] + RewardCents
        BY <1>2 DEF MovementTypes
    <2>3. AccountFits(u, balance[u], m, bought, sent, booked)
        BY <1>1, <1>5
    <2>4. RewardCents * Cardinality(Rewarded(k, u)) = RewardCents * Cardinality(Rewarded(booked, u)) + RewardCents
        <3> DEFINE S == Rewarded(booked, u)
        <3>1. IsFiniteSet(S) /\ r \notin S /\ RewardCents \in Nat
            BY <1>3, <1>4, RewardCentsIs
        <3> HIDE DEF S
        <3>2. RewardCents * Cardinality(S \cup {r}) = RewardCents * Cardinality(S) + RewardCents
            BY <3>1, OneMore
        <3> QED BY <1>3, <3>2 DEF S
    <2> HIDE DEF m, g
    <2>5. AccountFits(u, balance[u] + RewardCents, g, bought, sent, k)
        BY <2>1, <2>2, <2>3, <2>4 DEF AccountFits
    <2> QED BY <2>5 DEF g, m
<1>7. \A v \in Clients \ {u} : AccountFits(v, balance[v], moved[v], bought, sent, k)
    BY <1>3, <1>5, SameCounts
<1>8. \A v \in Clients : AccountFits(v, balance'[v], moved'[v], bought, sent, k)
    BY <1>1, <1>6, <1>7, AccountsMoved DEF WalletIInv
<1> QED
    BY <1>1, <1>8 DEF AccountsFit, k

\* A purchase moves what it costs, and is counted from then on.
LEMMA CommitBuyAccounts ==
    ASSUME WalletIInv, NEW t \in Txs, CommitBuy(t)
    PROVE  AccountsFit'
<1>1. PICK b \in Buys : txn[t].of = b /\ txn[t].kind = "buy" /\ bought[b] = "NONE"
    BY DEF CommitBuy, WalletIInv, TransactionsFit, TxnKnows
<1> DEFINE u == OwnerOf[b]
           s == bought'
           cents == -BuyCents
<1>2. /\ u \in Clients /\ BuyCents \in Nat /\ cents \in Int /\ "PURCHASE" \in MovementTypes
      /\ Move(u, "PURCHASE", cents)
      /\ s = [bought EXCEPT ![b] = "PENDING"] /\ UNCHANGED <<sent, booked>>
    BY <1>1, UsersAre, WalletAssumption DEF CommitBuy, MovementTypes
<1>3. /\ bought \in [Buys -> BuyStatuses]
      /\ balance[u] \in Int /\ moved[u] \in [MovementTypes -> Int]
    BY <1>2 DEF WalletIInv, WalletTypes, WalletTypeOK
<1>4. /\ Bought(s, u) = Bought(bought, u) \cup {b} /\ b \notin Bought(bought, u)
      /\ \A v : v # u => Bought(s, v) = Bought(bought, v)
    <2>1. \A c \in Buys : s[c] # "NONE" <=> (c = b \/ bought[c] # "NONE")
        BY <1>2, <1>3
    <2> HIDE DEF s
    <2> QED BY <1>1, <2>1 DEF Bought
<1>5. IsFiniteSet(Bought(bought, u))
    BY WalletSetsFinite, FS_Subset DEF Bought
<1>6. \A v \in Clients : AccountFits(v, balance[v], moved[v], bought, sent, booked)
    BY DEF WalletIInv, AccountsFit
<1> HIDE DEF s, u
<1>7. AccountFits(u, balance[u] + cents, [moved[u] EXCEPT !["PURCHASE"] = @ + cents], s, sent, booked)
    <2> DEFINE m == moved[u]
               g == [m EXCEPT !["PURCHASE"] = @ + cents]
    <2>1. SumOver(g, MovementTypes) = SumOver(m, MovementTypes) + cents
        BY <1>2, <1>3, RowMoved
    <2>2. /\ \A x \in {"REFERRAL_REWARD", "TRANSFER_OUT", "TRANSFER_IN"} : g[x] = m[x]
          /\ g["PURCHASE"] = m["PURCHASE"] + cents
        BY <1>3 DEF MovementTypes
    <2>3. AccountFits(u, balance[u], m, bought, sent, booked)
        BY <1>2, <1>6
    <2>4. -BuyCents * Cardinality(Bought(s, u)) = -BuyCents * Cardinality(Bought(bought, u)) + cents
        <3> DEFINE S == Bought(bought, u)
        <3>1. IsFiniteSet(S) /\ b \notin S /\ BuyCents \in Nat
            BY <1>2, <1>4, <1>5
        <3> HIDE DEF S
        <3>2. /\ -BuyCents * Cardinality(S \cup {b}) = -BuyCents * Cardinality(S) - BuyCents
              /\ -BuyCents * Cardinality(S) \in Int
            BY <3>1, OneLess
        <3>3. -BuyCents * Cardinality(S \cup {b}) = -BuyCents * Cardinality(S) + cents
            <4> DEFINE p == -BuyCents * Cardinality(S)
                       r == -BuyCents * Cardinality(S \cup {b})
            <4>1. r = p - BuyCents /\ p \in Int
                BY <3>2
            <4> HIDE DEF p, r
            <4>2. r = p + cents
                BY <1>2, <4>1
            <4> QED BY <4>2 DEF p, r
        <3>4. Bought(s, u) = S \cup {b}
            BY <1>4 DEF S
        <3> HIDE DEF cents
        <3> QED BY <3>3, <3>4 DEF S
    <2> HIDE DEF m, g
    <2>5. AccountFits(u, balance[u] + cents, g, s, sent, booked)
        <3> HIDE DEF cents
        <3> QED BY <2>1, <2>2, <2>3, <2>4 DEF AccountFits
    <2> QED BY <2>5 DEF g, m
<1>8. \A v \in Clients \ {u} : AccountFits(v, balance[v], moved[v], s, sent, booked)
    BY <1>4, <1>6, SameCounts
<1>9. \A v \in Clients : AccountFits(v, balance'[v], moved'[v], s, sent, booked)
    <2> HIDE DEF cents
    <2> QED BY <1>2, <1>7, <1>8, AccountsMoved DEF WalletIInv
<1> QED
    BY <1>2, <1>9 DEF AccountsFit, s

\* Two accounts change by a transfer: the table and the balances of both.
LEMMA CommitSendAccounts ==
    ASSUME WalletIInv, NEW t \in Txs, CommitSend(t)
    PROVE  AccountsFit'
<1>1. PICK x \in Transfers : txn[t].of = x /\ txn[t].kind = "send" /\ x \notin sent
    BY DEF CommitSend, WalletIInv, TransactionsFit, TxnKnows
<1> DEFINE u == OwnerOf[x]
           v == Receiver[x]
           z == sent'
<1>2. /\ u \in Clients /\ v \in Clients /\ u # v /\ SendCents \in Nat /\ 0 - SendCents \in Int
      /\ balance' = [balance EXCEPT ![u] = @ - SendCents, ![v] = @ + SendCents]
      /\ moved' = [moved EXCEPT ![u]["TRANSFER_OUT"] = @ - SendCents,
                                ![v]["TRANSFER_IN"] = @ + SendCents]
      /\ z = sent \cup {x} /\ UNCHANGED <<bought, booked>>
    BY <1>1, UsersAre, WalletAssumption DEF CommitSend
<1>3. /\ balance \in [Clients -> Int] /\ moved \in [Clients -> [MovementTypes -> Int]]
      /\ sent \subseteq Transfers
    BY DEF WalletIInv, WalletTypes, WalletTypeOK
<1> DEFINE mu == moved[u]
           mv == moved[v]
           gu == [mu EXCEPT !["TRANSFER_OUT"] = @ + (0 - SendCents)]
           gv == [mv EXCEPT !["TRANSFER_IN"] = @ + SendCents]
<1>4. mu \in [MovementTypes -> Int] /\ mv \in [MovementTypes -> Int]
    BY <1>2, <1>3
<1>5. /\ balance'[u] = balance[u] - SendCents /\ balance'[v] = balance[v] + SendCents
      /\ \A w \in Clients : w # u /\ w # v => balance'[w] = balance[w]
    BY <1>2, <1>3
<1>6. /\ moved'[u] = gu /\ moved'[v] = gv
      /\ \A w \in Clients : w # u /\ w # v => moved'[w] = moved[w]
    <2>1. mu["TRANSFER_OUT"] - SendCents = mu["TRANSFER_OUT"] + (0 - SendCents)
        BY <1>2, <1>4 DEF MovementTypes
    <2>2. moved'[u] = [mu EXCEPT !["TRANSFER_OUT"] = @ - SendCents] /\ moved'[v] = gv
        BY <1>2, <1>3
    <2>3. \A w \in Clients : w # u /\ w # v => moved'[w] = moved[w]
        BY <1>2, <1>3
    <2> QED BY <2>1, <2>2, <2>3
<1>7. /\ SentBy(z, u) = SentBy(sent, u) \cup {x} /\ x \notin SentBy(sent, u)
      /\ SentTo(z, v) = SentTo(sent, v) \cup {x} /\ x \notin SentTo(sent, v)
      /\ \A w : w # u => SentBy(z, w) = SentBy(sent, w)
      /\ \A w : w # v => SentTo(z, w) = SentTo(sent, w)
    BY <1>1, <1>2 DEF SentBy, SentTo
<1>8. IsFiniteSet(SentBy(sent, u)) /\ IsFiniteSet(SentTo(sent, v))
    BY <1>3, WalletSetsFinite, FS_Subset DEF SentBy, SentTo
<1>9. \A w \in Clients : AccountFits(w, balance[w], moved[w], bought, sent, booked)
    BY DEF WalletIInv, AccountsFit
<1> HIDE DEF z, u, v
<1>10. AccountFits(u, balance[u] - SendCents, gu, bought, z, booked)
    <2>1. SumOver(gu, MovementTypes) = SumOver(mu, MovementTypes) + (0 - SendCents)
        <3>1. "TRANSFER_OUT" \in MovementTypes
            BY DEF MovementTypes
        <3> QED BY <1>2, <1>4, <3>1, RowMoved
    <2>2. /\ \A y \in {"REFERRAL_REWARD", "PURCHASE", "TRANSFER_IN"} : gu[y] = mu[y]
          /\ gu["TRANSFER_OUT"] = mu["TRANSFER_OUT"] - SendCents
        BY <1>2, <1>4 DEF MovementTypes
    <2>3. AccountFits(u, balance[u], mu, bought, sent, booked)
        BY <1>2, <1>9
    <2>4. -SendCents * Cardinality(SentBy(z, u)) = -SendCents * Cardinality(SentBy(sent, u)) - SendCents
        <3> DEFINE S == SentBy(sent, u)
        <3>1. IsFiniteSet(S) /\ x \notin S /\ SendCents \in Nat
            BY <1>2, <1>7, <1>8
        <3> HIDE DEF S
        <3>2. -SendCents * Cardinality(S \cup {x}) = -SendCents * Cardinality(S) - SendCents
            BY <3>1, OneLess
        <3>3. SentBy(z, u) = S \cup {x}
            BY <1>7 DEF S
        <3> QED BY <3>2, <3>3 DEF S
    <2>5. balance[u] \in Int
        BY <1>2, <1>3
    <2>6. SentTo(z, u) = SentTo(sent, u)
        BY <1>2, <1>7
    <2> HIDE DEF mu, gu
    <2> QED BY <1>2, <2>1, <2>2, <2>3, <2>4, <2>5, <2>6 DEF AccountFits
<1>11. AccountFits(v, balance[v] + SendCents, gv, bought, z, booked)
    <2>1. SumOver(gv, MovementTypes) = SumOver(mv, MovementTypes) + SendCents
        <3>1. "TRANSFER_IN" \in MovementTypes /\ SendCents \in Int
            BY <1>2 DEF MovementTypes
        <3> QED BY <1>4, <3>1, RowMoved
    <2>2. /\ \A y \in {"REFERRAL_REWARD", "PURCHASE", "TRANSFER_OUT"} : gv[y] = mv[y]
          /\ gv["TRANSFER_IN"] = mv["TRANSFER_IN"] + SendCents
        BY <1>2, <1>4 DEF MovementTypes
    <2>3. AccountFits(v, balance[v], mv, bought, sent, booked)
        BY <1>2, <1>9
    <2>4. SendCents * Cardinality(SentTo(z, v)) = SendCents * Cardinality(SentTo(sent, v)) + SendCents
        <3> DEFINE S == SentTo(sent, v)
        <3>1. IsFiniteSet(S) /\ x \notin S /\ SendCents \in Nat
            BY <1>2, <1>7, <1>8
        <3> HIDE DEF S
        <3>2. SendCents * Cardinality(S \cup {x}) = SendCents * Cardinality(S) + SendCents
            BY <3>1, OneMore
        <3> QED BY <1>7, <3>2 DEF S
    <2>6. SentBy(z, v) = SentBy(sent, v)
        BY <1>2, <1>7
    <2> HIDE DEF mv, gv
    <2> QED BY <1>2, <2>1, <2>2, <2>3, <2>4, <2>6 DEF AccountFits
<1>12. \A w \in Clients : w # u /\ w # v => AccountFits(w, balance[w], moved[w], bought, z, booked)
    BY <1>7, <1>9 DEF AccountFits
<1> HIDE DEF gu, gv, mu, mv
<1>13. \A w \in Clients : AccountFits(w, balance'[w], moved'[w], bought, z, booked)
    BY <1>5, <1>6, <1>10, <1>11, <1>12
<1> QED
    BY <1>2, <1>13 DEF AccountsFit, z

-----------------------------------------------------------------------------
(* A refund of a purchase.                                                 *)

\* What a refund restores of each lot: what it was, or the share of all that is refunded.
GivenBack(b, q, n, cents, gave) ==
    /\ gave \in [Lots -> Nat] /\ \A l \in Lots : gave[l] <= taken[b][l]
    /\ \A i \in 1..n : gave[q[i]] >= Target(q, taken[b], cents, i)

\* What Restore writes.
Restored(b, gave, given, u) ==
    /\ restored' = [restored EXCEPT ![b] = gave]
    /\ left' \in [Lots -> Nat] /\ lotStatus' \in [Lots -> LotStatuses]
    /\ reward' \in [Rewards -> RewardStatuses]
    /\ \A r \in Rewards : reward'[r] # reward[r] => reward'[r] # "PENDING"
    /\ given \in Int /\ Move(u, "REFUND", given)

\* A share that is one of those that add up is one of what was taken.
LEMMA TargetsFit ==
    ASSUME WalletTypes, NEW b \in Buys, NEW n \in Nat, NEW q, ListsLots(q, n, Lots), q = rows[b],
           \A l \in Lots : taken[b][l] > 0 => l \in FirstLots(q, n),
           SumOver(taken[b], Lots) = BuyCents, NEW cents \in 0..BuyCents,
           NEW target, TargetIs(q, n, taken[b], cents, target)
    PROVE  /\ \A i \in 1..n : target[q[i]] \in 0..taken[b][q[i]]
           /\ SumOver(target, FirstLots(q, n)) = cents
<1> DEFINE a == taken[b]
<1>1. a \in [Lots -> Nat] /\ BuyCents > 0
    BY WalletAssumption DEF WalletTypes, WalletTypeOK
<1>2. FirstLots(q, n) \subseteq Lots
    BY DEF FirstLots, ListsLots
<1>3. (\A l \in Lots : a[l] \in Int) /\ \A l \in Lots : l \notin FirstLots(q, n) => a[l] = 0
    <2>1. \A l \in Lots : a[l] \in Nat /\ (a[l] > 0 => l \in FirstLots(q, n))
        BY <1>1
    <2> HIDE DEF a
    <2> QED BY <2>1
<1>4. SumOver(a, FirstLots(q, n)) = BuyCents
    <2> HIDE DEF a
    <2>1. SumOver(a, Lots) = SumOver(a, FirstLots(q, n))
        BY <1>2, <1>3, WalletSetsFinite, SumOfRest
    <2> QED BY <2>1 DEF a
<1>5. \A l \in Lots : a[l] \in Nat
    BY <1>1
<1> HIDE DEF a
<1>6. TargetIs(q, n, a, cents, target)
    BY DEF a
<1>7. /\ SumOver(a, FirstLots(q, n)) > 0 /\ cents \in 0..SumOver(a, FirstLots(q, n))
      /\ IsFiniteSet(Lots)
    BY <1>1, <1>4, WalletSetsFinite
<1> QED
    BY <1>5, <1>6, <1>7, SharesAddUp DEF a

\* What a restoration gives back to each lot, and the movement it posts.
LEMMA RestoreIs ==
    ASSUME WalletTypes, NEW b \in Buys, NEW n \in Nat, NEW q, ListsLots(q, n, Lots), q = rows[b],
           \A l \in Lots : taken[b][l] > 0 => l \in FirstLots(q, n),
           \A l \in Lots : restored[b][l] <= taken[b][l],
           SumOver(taken[b], Lots) = BuyCents, NEW cents \in 0..BuyCents,
           NEW seen \in [Lots -> Nat], NEW dead, Restore(b, cents, seen, dead)
    PROVE  \E gave, given : GivenBack(b, q, n, cents, gave) /\ Restored(b, gave, given, OwnerOf[b])
<1> DEFINE u == OwnerOf[b]
           target == [l \in Lots |-> IF l \in ToSet(q)
                                     THEN Target(q, taken[b], cents, CHOOSE i \in DOMAIN q : q[i] = l)
                                     ELSE 0]
           T == {l \in ToSet(q) : target[l] > restored[b][l]}
           R == {l \in T : l \notin dead /\ ~Expired(l)}
           back == [l \in Lots |-> target[l] - restored[b][l]]
           gave == [l \in Lots |-> IF l \in T THEN target[l] ELSE restored[b][l]]
           now(l) == seen[l] + back[l]
<1>1. /\ restored' = [restored EXCEPT ![b] = [l \in Lots |-> IF l \in T THEN target[l] ELSE @[l]]]
      /\ left' = [l \in Lots |-> IF l \in R THEN now(l) ELSE left[l]]
      /\ lotStatus' = [l \in Lots |-> IF l \in R THEN AfterGive(l, now(l)) ELSE lotStatus[l]]
      /\ reward' = [r \in Rewards |-> IF r \in R /\ reward[r] # "REVERSED"
                                      THEN AfterGive(r, now(r)) ELSE reward[r]]
      /\ Move(u, "REFUND", Total(back, R))
    BY DEF Restore
<1>2. /\ restored[b] \in [Lots -> Nat] /\ taken[b] \in [Lots -> Nat] /\ left \in [Lots -> Nat]
      /\ lotStatus \in [Lots -> LotStatuses] /\ reward \in [Rewards -> RewardStatuses]
      /\ restored \in [Buys -> [Lots -> Nat]]
    BY DEF WalletTypes, WalletTypeOK
<1>3. ToSet(q) = FirstLots(q, n) /\ ToSet(q) \subseteq Lots /\ DOMAIN q = 1..n
    BY DEF ToSet, FirstLots, ListsLots
<1>4. TargetIs(q, n, taken[b], cents, target)
    <2> SUFFICES ASSUME NEW i \in 1..n PROVE target[q[i]] = Target(q, taken[b], cents, i)
        BY DEF TargetIs
    <2>1. q[i] \in ToSet(q) /\ q[i] \in Lots
        BY <1>3 DEF FirstLots
    <2>2. (CHOOSE j \in DOMAIN q : q[j] = q[i]) = i
        BY <1>3 DEF ListsLots
    <2> QED BY <2>1, <2>2
<1> HIDE DEF target
<1>5. \A i \in 1..n : target[q[i]] \in 0..taken[b][q[i]]
    BY <1>4, TargetsFit
<1>6. \A l \in ToSet(q) : target[l] \in Nat /\ target[l] <= taken[b][l] /\ l \in Lots
    <2> SUFFICES ASSUME NEW l \in ToSet(q)
                 PROVE  target[l] \in Nat /\ target[l] <= taken[b][l] /\ l \in Lots
        OBVIOUS
    <2>1. PICK i \in 1..n : l = q[i]
        BY <1>3 DEF FirstLots
    <2>2. l \in Lots /\ taken[b][l] \in Nat
        BY <1>2, <1>3
    <2> QED BY <1>5, <2>1, <2>2
<1>7. gave \in [Lots -> Nat] /\ \A l \in Lots : gave[l] <= taken[b][l]
    <2>1. \A l \in T : l \in Lots /\ target[l] \in Nat /\ target[l] <= taken[b][l]
        BY <1>6
    <2> HIDE DEF T
    <2> QED BY <1>2, <2>1
<1>8. \A i \in 1..n : gave[q[i]] >= Target(q, taken[b], cents, i)
    <2> SUFFICES ASSUME NEW i \in 1..n PROVE gave[q[i]] >= Target(q, taken[b], cents, i)
        OBVIOUS
    <2> DEFINE l == q[i]
    <2>1. l \in ToSet(q) /\ l \in Lots /\ target[l] \in Nat /\ restored[b][l] \in Nat
        BY <1>2, <1>3, <1>6 DEF FirstLots
    <2>2. target[l] = Target(q, taken[b], cents, i)
        BY <1>4 DEF TargetIs
    <2>3. gave[l] >= target[l]
        <3> HIDE DEF l
        <3> QED BY <2>1
    <2> QED BY <2>2, <2>3
<1>9. restored' = [restored EXCEPT ![b] = gave]
    <2> HIDE DEF T
    <2> QED BY <1>1, <1>2
<1>10. \A l \in R : l \in Lots /\ back[l] \in Nat /\ now(l) \in Nat
    <2> SUFFICES ASSUME NEW l \in R PROVE l \in Lots /\ back[l] \in Nat /\ now(l) \in Nat
        OBVIOUS
    <2>1. l \in Lots /\ target[l] \in Nat /\ target[l] > restored[b][l]
        BY <1>6
    <2>2. restored[b][l] \in Nat /\ seen[l] \in Nat
        BY <1>2, <2>1
    <2>3. back[l] = target[l] - restored[b][l]
        BY <2>1
    <2> HIDE DEF back, R
    <2> QED BY <2>1, <2>2, <2>3
<1> HIDE DEF back, T, gave
<1>11. \A l : AfterGive(l, now(l)) \in {"AVAILABLE", "PARTIALLY_USED"}
    BY DEF AfterGive
<1>12. left' \in [Lots -> Nat] /\ lotStatus' \in [Lots -> LotStatuses]
    <2> HIDE DEF R, now
    <2> QED BY <1>1, <1>2, <1>10, <1>11 DEF LotStatuses
<1>13. /\ reward' \in [Rewards -> RewardStatuses]
       /\ \A r \in Rewards : reward'[r] # reward[r] => reward'[r] # "PENDING"
    <2> HIDE DEF R, now
    <2> QED BY <1>1, <1>2, <1>11 DEF RewardStatuses
<1>14. Total(back, R) \in Int
    <2>1. R \subseteq Lots /\ \A l \in R : back[l] \in Int
        BY <1>10
    <2> HIDE DEF R
    <2>2. IsFiniteSet(R)
        BY <2>1, WalletSetsFinite, FS_Subset
    <2>3. SumOver(back, R) \in Int
        BY <2>1, <2>2, SumIsInt
    <2> QED BY <2>3 DEF Total, SumOver
<1>15. GivenBack(b, q, n, cents, gave)
    BY <1>7, <1>8 DEF GivenBack
<1>16. Restored(b, gave, Total(back, R), u)
    <2> HIDE DEF R, u
    <2> QED BY <1>1, <1>9, <1>12, <1>13, <1>14 DEF Restored
<1> QED
    BY <1>15, <1>16

\* What a refund, by the platform or at the gateway, does to a purchase b once
\* sum of it is refunded, by the lots that were seen and those that were dead.
Refunding(b, sum, seen, dead) ==
    /\ bought[b] \in {"PAID", "PARTIALLY_REFUNDED"} /\ sum \in 1..BuyCents
    /\ seen \in [Lots -> Nat] /\ Restore(b, sum, seen, dead)
    /\ refunded' = [refunded EXCEPT ![b] = sum]
    /\ bought' = [bought EXCEPT ![b] = IF sum = BuyCents THEN "REFUNDED" ELSE "PARTIALLY_REFUNDED"]
    /\ UNCHANGED <<worth, expired, source, referred, booked, taken, rows, sent, split, approved,
                   partly>>

\* The platform refunds from what is left, and leaves the gateway out.
LEMMA RefundBuyIs ==
    ASSUME WalletIInv, NEW b \in Buys, NEW cents \in 1..BuyCents, RefundBuy(b, cents)
    PROVE  /\ \E sum, seen, dead : Refunding(b, sum, seen, dead)
           /\ b \notin split /\ UNCHANGED <<txn, outside>>
<1>1. refunded[b] \in 0..BuyCents /\ left \in [Lots -> Nat] /\ BuyCents \in Nat
    BY WalletAssumption DEF WalletIInv, WalletTypes, WalletTypeOK
<1>2. refunded[b] + cents \in 1..BuyCents
    BY <1>1 DEF RefundBuy
<1>3. Refunding(b, refunded[b] + cents, left, Dead)
    BY <1>1, <1>2 DEF RefundBuy, Refunding, gatewayVars
<1> QED
    BY <1>3 DEF RefundBuy, gatewayVars

\* The gateway returns all of a purchase that is split.
LEMMA CommitRestoreIs ==
    ASSUME WalletIInv, NEW t \in Txs, CommitRestore(t)
    PROVE  \E b \in Buys : \E seen, dead :
                /\ txn[t].of = b /\ txn[t].kind = "restore" /\ b \in split /\ bought[b] = "PAID"
                /\ Refunding(b, BuyCents, seen, dead) /\ bought' = [bought EXCEPT ![b] = "REFUNDED"]
                /\ End(t) /\ MoveOutside(OwnerOf[b], "REFUND", RestCents)
<1>1. PICK b \in Buys : /\ txn[t].of = b /\ txn[t].kind = "restore" /\ b \in split
                         /\ bought[b] = "PAID"
    BY DEF CommitRestore, WalletIInv, TransactionsFit, TxnKnows, PaymentsFit, TxnReturns
<1>2. txn[t].seen \in [Lots -> Nat]
    BY DEF WalletIInv, WalletTypes, TxnStates
<1>3. BuyCents \in 1..BuyCents
    BY WalletAssumption
<1>4. Refunding(b, BuyCents, txn[t].seen, txn[t].dead)
    BY <1>1, <1>2, <1>3 DEF CommitRestore, Refunding
<1> QED
    BY <1>1, <1>4 DEF CommitRestore

\* What a refund knows of its purchase, and what it does.
LEMMA RefundIs ==
    ASSUME WalletIInv, NEW b \in Buys, NEW sum, NEW seen, NEW dead, Refunding(b, sum, seen, dead)
    PROVE  /\ \E n \in Nat : \E gave, given :
                /\ ListsLots(rows[b], n, Lots)
                /\ \A l \in Lots : taken[b][l] > 0 => l \in FirstLots(rows[b], n)
                /\ GivenBack(b, rows[b], n, sum, gave)
                /\ Restored(b, gave, given, OwnerOf[b])
           /\ SumOver(taken[b], Lots) = BuyCents
<1>1. PurchaseFits(bought[b], taken[b], restored[b], rows[b], refunded[b])
    BY DEF WalletIInv, PurchasesFit
<1>2. /\ bought[b] \in {"PAID", "PARTIALLY_REFUNDED"} /\ sum \in 1..BuyCents
      /\ seen \in [Lots -> Nat] /\ Restore(b, sum, seen, dead)
    BY DEF Refunding
<1>3. /\ SumOver(taken[b], Lots) = BuyCents
      /\ \A l \in Lots : restored[b][l] <= taken[b][l]
    BY <1>1, <1>2 DEF PurchaseFits
<1>4. sum \in 0..BuyCents
    BY <1>2, WalletAssumption
<1>5. PICK n \in Nat : ListsLots(rows[b], n, Lots) /\ \A l \in Lots : taken[b][l] > 0 => l \in FirstLots(rows[b], n)
    BY <1>1, <1>2 DEF PurchaseFits
<1>6. PICK q : q = rows[b]
    OBVIOUS
<1>7. \E gave, given : GivenBack(b, q, n, sum, gave) /\ Restored(b, gave, given, OwnerOf[b])
    <2>1. ListsLots(q, n, Lots) /\ \A l \in Lots : taken[b][l] > 0 => l \in FirstLots(q, n)
        BY <1>5, <1>6
    <2> QED BY <1>2, <1>3, <1>4, <1>6, <2>1, RestoreIs DEF WalletIInv
<1> QED
    BY <1>3, <1>5, <1>6, <1>7

\* A refund counts nothing.
LEMMA RefundAccounts ==
    ASSUME WalletIInv, NEW b \in Buys, NEW sum, NEW seen, NEW dead, Refunding(b, sum, seen, dead)
    PROVE  AccountsFit'
<1> DEFINE u == OwnerOf[b]
           s == bought'
<1>1. PICK given : given \in Int /\ Move(u, "REFUND", given)
    BY RefundIs DEF Restored
<1>2. bought[b] \in {"PAID", "PARTIALLY_REFUNDED"} /\ bought \in [Buys -> BuyStatuses]
      /\ \E y \in {"REFUNDED", "PARTIALLY_REFUNDED"} : s = [bought EXCEPT ![b] = y]
      /\ UNCHANGED <<sent, booked>>
    BY DEF Refunding, WalletIInv, WalletTypes
<1>3. /\ u \in Clients /\ "REFUND" \in MovementTypes
      /\ balance[u] \in Int /\ moved[u] \in [MovementTypes -> Int]
    BY UsersAre DEF WalletIInv, WalletTypes, WalletTypeOK, MovementTypes
<1>4. \A v : Bought(s, v) = Bought(bought, v)
    <2>1. \A c \in Buys : s[c] # "NONE" <=> bought[c] # "NONE"
        BY <1>2
    <2> HIDE DEF s
    <2> QED BY <2>1 DEF Bought
<1>5. \A v \in Clients : AccountFits(v, balance[v], moved[v], bought, sent, booked)
    BY DEF WalletIInv, AccountsFit
<1> HIDE DEF u, s
<1>6. \A v \in Clients : AccountFits(v, balance[v], moved[v], s, sent, booked)
    BY <1>4, <1>5, SameCounts
<1>7. AccountFits(u, balance[u] + given, [moved[u] EXCEPT !["REFUND"] = @ + given], s, sent, booked)
    BY <1>1, <1>3, <1>6, UncountedMove
<1>8. \A v \in Clients : AccountFits(v, balance'[v], moved'[v], s, sent, booked)
    BY <1>1, <1>3, <1>6, <1>7, AccountsMoved DEF WalletIInv
<1> QED
    BY <1>2, <1>8 DEF AccountsFit, s

\* Neither does what expires.
LEMMA CommitExpireAccounts ==
    ASSUME WalletIInv, NEW t \in Txs, CommitExpire(t)
    PROVE  AccountsFit'
<1>1. PICK l \in Lots : txn[t].of = l /\ txn[t].kind = "expire"
    BY DEF CommitExpire, WalletIInv, TransactionsFit, TxnKnows
<1>2. txn[t].seen \in [Lots -> Nat]
    BY DEF WalletIInv, WalletTypes, TxnStates
<1> DEFINE u == Holder(l)
           cents == -txn[t].seen[l]
<1>3. cents \in Int /\ Move(u, "CREDIT_EXPIRATION", cents) /\ UNCHANGED <<bought, sent, booked>>
    BY <1>1, <1>2 DEF CommitExpire
<1>4. /\ u \in Clients /\ "CREDIT_EXPIRATION" \in MovementTypes
      /\ balance[u] \in Int /\ moved[u] \in [MovementTypes -> Int]
    BY UsersAre DEF WalletIInv, WalletTypes, WalletTypeOK, MovementTypes
<1>5. \A v \in Clients : AccountFits(v, balance[v], moved[v], bought, sent, booked)
    BY DEF WalletIInv, AccountsFit
<1> HIDE DEF u, cents
<1>6. AccountFits(u, balance[u] + cents, [moved[u] EXCEPT !["CREDIT_EXPIRATION"] = @ + cents],
                  bought, sent, booked)
    BY <1>3, <1>4, <1>5, UncountedMove
<1>7. \A v \in Clients : AccountFits(v, balance'[v], moved'[v], bought, sent, booked)
    BY <1>3, <1>4, <1>5, <1>6, AccountsMoved DEF WalletIInv
<1> QED
    BY <1>3, <1>7 DEF AccountsFit

\* A reward that is reversed is posted a second time, not counted again.
LEMMA CommitReverseAccounts ==
    ASSUME WalletIInv, NEW t \in Txs, CommitReverse(t)
    PROVE  AccountsFit'
<1>1. PICK r \in Rewards : txn[t].of = r /\ txn[t].kind = "reverse"
    BY DEF CommitReverse, WalletIInv, TransactionsFit, TxnKnows
<1> DEFINE u == OwnerOf[r]
           k == booked'
           cents == -RewardCents
<1>2. /\ u \in Clients /\ "REFERRAL_REVERSAL" \in MovementTypes /\ cents \in Int
      /\ balance[u] \in Int /\ moved[u] \in [MovementTypes -> Int]
    BY UsersAre, RewardCentsIs DEF WalletIInv, WalletTypes, WalletTypeOK, MovementTypes
<1>3. \A v : Rewarded(k, v) = Rewarded(booked, v)
    <2>1. \/ k = booked
          \/ k = [booked EXCEPT ![r] = IF "REFERRAL_REWARD" \in @ THEN @ \cup {"REFERRAL_REWARD_REVERSAL"}
                                       ELSE @]
        BY <1>1 DEF CommitReverse
    <2>2. booked \in [Rewards -> SUBSET Postings]
        BY DEF WalletIInv, WalletTypes
    <2>3. \A q \in Rewards : k[q] # {} <=> booked[q] # {}
        BY <2>1, <2>2
    <2> HIDE DEF k
    <2> QED BY <2>3 DEF Rewarded
<1>4. /\ Move(u, "REFERRAL_REVERSAL", cents) \/ UNCHANGED <<balance, moved>>
      /\ UNCHANGED <<bought, sent>>
    BY <1>1 DEF CommitReverse
<1>5. \A v \in Clients : AccountFits(v, balance[v], moved[v], bought, sent, booked)
    BY DEF WalletIInv, AccountsFit
<1> HIDE DEF u, cents, k
<1>6. \A v \in Clients : AccountFits(v, balance[v], moved[v], bought, sent, k)
    BY <1>3, <1>5, SameCounts
<1>7. AccountFits(u, balance[u] + cents, [moved[u] EXCEPT !["REFERRAL_REVERSAL"] = @ + cents],
                  bought, sent, k)
    BY <1>2, <1>6, UncountedMove
<1>8. \A v \in Clients : AccountFits(v, balance'[v], moved'[v], bought, sent, k)
    <2>1. CASE Move(u, "REFERRAL_REVERSAL", cents)
        BY <1>2, <1>6, <1>7, <2>1, AccountsMoved DEF WalletIInv
    <2>2. CASE UNCHANGED <<balance, moved>>
        BY <1>6, <2>2
    <2> QED BY <1>4, <2>1, <2>2
<1> QED
    BY <1>4, <1>8 DEF AccountsFit, k

-----------------------------------------------------------------------------
(* The purchases.                                                          *)

\* A refund gives back at least its share, and no more than was taken.
LEMMA RefundPurchases ==
    ASSUME WalletIInv, NEW b \in Buys, NEW sum, NEW seen, NEW dead, Refunding(b, sum, seen, dead)
    PROVE  PurchasesFit'
<1>0. PICK gave, given : \E n \in Nat :
                /\ ListsLots(rows[b], n, Lots)
                /\ \A l \in Lots : taken[b][l] > 0 => l \in FirstLots(rows[b], n)
                /\ GivenBack(b, rows[b], n, sum, gave)
                /\ Restored(b, gave, given, OwnerOf[b])
    BY RefundIs
<1>1. PICK n \in Nat :
                /\ ListsLots(rows[b], n, Lots)
                /\ \A l \in Lots : taken[b][l] > 0 => l \in FirstLots(rows[b], n)
                /\ GivenBack(b, rows[b], n, sum, gave)
                /\ Restored(b, gave, given, OwnerOf[b])
    BY <1>0
<1>2. PICK q, status : /\ q = rows[b]
                       /\ status = IF sum = BuyCents THEN "REFUNDED" ELSE "PARTIALLY_REFUNDED"
    OBVIOUS
<1>3. sum \in 1..BuyCents /\ SumOver(taken[b], Lots) = BuyCents
    BY RefundIs DEF Refunding
<1>4. /\ restored' = [restored EXCEPT ![b] = gave] /\ refunded' = [refunded EXCEPT ![b] = sum]
      /\ bought' = [bought EXCEPT ![b] = status] /\ UNCHANGED <<taken, rows>>
    BY <1>1, <1>2 DEF Restored, Refunding
<1>5. /\ gave \in [Lots -> Nat] /\ \A l \in Lots : gave[l] <= taken[b][l]
      /\ \A i \in 1..n : gave[q[i]] >= Target(q, taken[b], sum, i)
    BY <1>1, <1>2 DEF GivenBack
<1>6. sum <= SumOver(gave, Lots)
    <2> DEFINE target == [l \in Lots |-> IF l \in FirstLots(q, n)
                                         THEN Target(q, taken[b], sum, CHOOSE i \in 1..n : q[i] = l)
                                         ELSE 0]
    <2>1. ListsLots(q, n, Lots)
        BY <1>1, <1>2
    <2>2. TargetIs(q, n, taken[b], sum, target)
        <3> SUFFICES ASSUME NEW i \in 1..n PROVE target[q[i]] = Target(q, taken[b], sum, i)
            BY DEF TargetIs
        <3>1. q[i] \in FirstLots(q, n) /\ q[i] \in Lots
            BY <2>1 DEF FirstLots, ListsLots
        <3>2. (CHOOSE j \in 1..n : q[j] = q[i]) = i
            BY <2>1 DEF ListsLots
        <3> QED BY <3>1, <3>2
    <2> HIDE DEF target
    <2>3. /\ \A i \in 1..n : target[q[i]] \in 0..taken[b][q[i]]
          /\ SumOver(target, FirstLots(q, n)) = sum
        <3>1. sum \in 0..BuyCents /\ \A l \in Lots : taken[b][l] > 0 => l \in FirstLots(q, n)
            BY <1>1, <1>2, <1>3
        <3> QED BY <1>2, <1>3, <2>1, <2>2, <3>1, TargetsFit DEF WalletIInv
    <2>4. FirstLots(q, n) \subseteq Lots
        BY <2>1 DEF FirstLots, ListsLots
    <2>5. IsFiniteSet(FirstLots(q, n))
        BY <2>4, WalletSetsFinite, FS_Subset
    <2>6. \A l \in FirstLots(q, n) : target[l] \in Int /\ gave[l] \in Int /\ target[l] <= gave[l]
        <3> SUFFICES ASSUME NEW l \in FirstLots(q, n)
                     PROVE  target[l] \in Int /\ gave[l] \in Int /\ target[l] <= gave[l]
            OBVIOUS
        <3>1. PICK i \in 1..n : l = q[i]
            BY DEF FirstLots
        <3>2. target[l] \in Int /\ gave[l] \in Nat /\ taken[b][l] \in Nat
            BY <1>5, <2>3, <2>4, <3>1 DEF WalletIInv, WalletTypes, WalletTypeOK
        <3>3. target[l] <= gave[l]
            BY <1>5, <2>2, <3>1, <3>2 DEF TargetIs
        <3> QED BY <3>2, <3>3
    <2>7. SumOver(target, FirstLots(q, n)) <= SumOver(gave, FirstLots(q, n))
        BY <2>5, <2>6, SumsOrdered
    <2>8. \A l \in Lots : gave[l] \in Nat
        BY <1>5
    <2>9. SumOver(gave, FirstLots(q, n)) <= SumOver(gave, Lots)
        BY <2>4, <2>8, WalletSetsFinite, SumOfPart
    <2>10. SumOver(gave, FirstLots(q, n)) \in Int /\ SumOver(gave, Lots) \in Int /\ sum \in Int
        <3>1. SumOver(gave, FirstLots(q, n)) \in Int
            BY <2>5, <2>6, SumIsInt
        <3>2. \A l \in Lots : gave[l] \in Int
            BY <2>8
        <3>3. SumOver(gave, Lots) \in Int
            BY <3>2, WalletSetsFinite, SumIsInt
        <3> QED BY <1>3, <3>1, <3>3
    <2> QED
        BY <2>3, <2>7, <2>9, <2>10
<1>7. PurchaseFits(status, taken[b], gave, q, sum)
    <2>1. /\ status \in BuyStatuses /\ sum \in 0..BuyCents /\ status # "NONE"
          /\ status \in {"PARTIALLY_REFUNDED", "REFUNDED"} /\ (status = "REFUNDED" <=> sum = BuyCents)
        BY <1>2, <1>3 DEF BuyStatuses
    <2>2. ListsLots(q, n, Lots) /\ \A l \in Lots : taken[b][l] > 0 => l \in FirstLots(q, n)
        BY <1>1, <1>2
    <2> QED BY <1>3, <1>5, <1>6, <2>1, <2>2 DEF PurchaseFits
<1>8. ASSUME NEW c \in Buys
      PROVE  PurchaseFits(bought[c], taken[c], restored[c], rows[c], refunded[c])'
    <2>1. PurchaseFits(bought[c], taken[c], restored[c], rows[c], refunded[c])
        BY DEF WalletIInv, PurchasesFit
    <2>2. /\ restored \in [Buys -> [Lots -> Nat]] /\ bought \in [Buys -> BuyStatuses]
          /\ refunded \in [Buys -> 0..BuyCents]
        BY DEF WalletIInv, WalletTypes, WalletTypeOK
    <2>3. CASE c = b
        BY <1>2, <1>4, <1>7, <2>2, <2>3
    <2>4. CASE c # b
        <3>1. bought'[c] = bought[c] /\ restored'[c] = restored[c] /\ refunded'[c] = refunded[c]
            BY <1>4, <2>2, <2>4
        <3> QED BY <1>4, <2>1, <3>1
    <2> QED BY <2>3, <2>4
<1> QED
    BY <1>8 DEF PurchasesFit

\* The lots a purchase took are listed, each once.
LEMMA ListedOnce ==
    ASSUME NEW T, T \subseteq Lots, NEW q \in SetToSeqs(T)
    PROVE  \E n \in Nat : ListsLots(q, n, Lots) /\ \A l \in T : l \in FirstLots(q, n)
<1> DEFINE n == Cardinality(T)
<1>1. IsFiniteSet(T)
    BY WalletSetsFinite, FS_Subset
<1>2. n \in Nat
    BY <1>1, FS_CardinalityType
<1>3. q \in [1..n -> T] /\ \A i, j \in 1..n : i # j => q[i] # q[j]
    BY DEF SetToSeqs
<1>4. IsFiniteSet(1..n) /\ Cardinality(1..n) = n
    <2> HIDE DEF n
    <2>1. 1 \in Int /\ n \in Int
        BY <1>2
    <2>2. IsFiniteSet(1..n) /\ Cardinality(1..n) = IF 1 > n THEN 0 ELSE n - 1 + 1
        BY <2>1, FS_Interval
    <2> QED BY <1>2, <2>2
<1>5. q \in Injection(1..n, T)
    BY <1>3 DEF Injection, IsInjective
<1>6. q \in Surjection(1..n, T)
    BY <1>1, <1>4, <1>5, FS_Injection
<1>7. \A l \in T : \E i \in 1..n : q[i] = l
    BY <1>6 DEF Surjection
<1>8. ListsLots(q, n, Lots)
    BY <1>3 DEF ListsLots
<1>9. \A l \in T : l \in FirstLots(q, n)
    BY <1>7 DEF FirstLots
<1> QED
    BY <1>2, <1>8, <1>9

\* The amounts of those lots only from which something was taken.
LEMMA TakenIs ==
    ASSUME NEW S, S \subseteq Lots, NEW cents \in Nat, NEW use \in [S -> 0..cents],
           SumOver(use, S) = cents
    PROVE  LET T == {l \in S : use[l] > 0}
               took == [l \in Lots |-> IF l \in T THEN use[l] ELSE 0] IN
           took \in [Lots -> Nat] /\ SumOver(took, Lots) = cents
<1> DEFINE T == {l \in S : use[l] > 0}
           took == [l \in Lots |-> IF l \in T THEN use[l] ELSE 0]
<1>1. \A l \in T : use[l] \in Nat
    OBVIOUS
<1>2. took \in [Lots -> Nat]
    <2> HIDE DEF T
    <2> QED BY <1>1
<1>3. \A l \in S : use[l] = took[l]
    OBVIOUS
<1>4. \A l \in Lots : l \notin S => took[l] = 0
    OBVIOUS
<1> HIDE DEF took
<1>5. IsFiniteSet(S)
    BY WalletSetsFinite, FS_Subset
<1>6. SumOver(use, S) = SumOver(took, S)
    BY <1>3, <1>5, SumsAgree
<1>7. \A l \in Lots : took[l] \in Int
    BY <1>2
<1>8. SumOver(took, Lots) = SumOver(took, S)
    BY <1>4, <1>7, WalletSetsFinite, SumOfRest
<1> QED
    BY <1>2, <1>6, <1>8 DEF took

\* What the commit of a purchase b writes, that takes took from the lots q.
BuyWrites(t, b, q, took) ==
    /\ txn[t].of = b /\ txn[t].kind = "buy" /\ bought[b] = "NONE"
    /\ taken' = [taken EXCEPT ![b] = took] /\ rows' = [rows EXCEPT ![b] = q]
    /\ SumOver(took, Lots) = BuyCents
    /\ \E n \in Nat : ListsLots(q, n, Lots) /\ \A l \in Lots : took[l] > 0 => l \in FirstLots(q, n)
    /\ bought' = [bought EXCEPT ![b] = "PENDING"] /\ UNCHANGED <<restored, refunded>>
    /\ left' \in [Lots -> Nat] /\ lotStatus' \in [Lots -> LotStatuses]
    /\ reward' \in [Rewards -> RewardStatuses]
    /\ \A r \in Rewards : reward'[r] # reward[r] => reward'[r] # "PENDING"

\* A purchase takes from lots that are listed what it costs.
LEMMA BuyIs ==
    ASSUME WalletIInv, NEW t \in Txs, CommitBuy(t)
    PROVE  \E q : \E b \in Buys, took \in [Lots -> Nat] : BuyWrites(t, b, q, took)
<1>1. PICK b \in Buys : txn[t].of = b /\ txn[t].kind = "buy" /\ bought[b] = "NONE"
    BY DEF CommitBuy, WalletIInv, TransactionsFit, TxnKnows
<1> DEFINE seen == txn[t].seen
           S == {l \in Lots : seen[l] > 0}
<1>2. seen \in [Lots -> Nat] /\ S \subseteq Lots /\ BuyCents \in Nat
    BY WalletAssumption DEF WalletIInv, WalletTypes, TxnStates
<1>3. PICK use \in Uses(seen, S, BuyCents) :
        LET T == {l \in S : use[l] > 0} IN
        /\ left' = [l \in Lots |-> IF l \in T THEN seen[l] - use[l] ELSE left[l]]
        /\ lotStatus' = [l \in Lots |-> IF l \in T THEN AfterUse(seen[l] - use[l])
                                        ELSE lotStatus[l]]
        /\ reward' = [r \in Rewards |-> IF r \in T THEN AfterUse(seen[r] - use[r])
                                        ELSE reward[r]]
        /\ taken' = [taken EXCEPT ![b] = [l \in Lots |-> IF l \in T THEN use[l] ELSE 0]]
        /\ \E q \in SetToSeqs(T) : rows' = [rows EXCEPT ![b] = q]
    BY <1>1 DEF CommitBuy
<1> DEFINE T == {l \in S : use[l] > 0}
           took == [l \in Lots |-> IF l \in T THEN use[l] ELSE 0]
<1> HIDE DEF seen
<1>4. /\ use \in [S -> 0..BuyCents] /\ \A l \in S : use[l] <= seen[l]
      /\ SumOver(use, S) = BuyCents
    <2>1. use \in Uses(seen, S, BuyCents)
        BY <1>3
    <2> HIDE DEF S
    <2> QED BY <1>2, <2>1 DEF Uses, Total, SumOver
<1>5. took \in [Lots -> Nat] /\ SumOver(took, Lots) = BuyCents
    <2> HIDE DEF S
    <2> QED BY <1>2, <1>4, TakenIs
<1>6. PICK q \in SetToSeqs(T) : rows' = [rows EXCEPT ![b] = q]
    BY <1>3
<1>7. T \subseteq Lots /\ \A l \in Lots : took[l] > 0 => l \in T
    <2>1. T \subseteq Lots
        BY <1>2
    <2> HIDE DEF T
    <2> QED BY <2>1
<1>8. \E n \in Nat : ListsLots(q, n, Lots) /\ \A l \in Lots : took[l] > 0 => l \in FirstLots(q, n)
    <2> HIDE DEF T, took
    <2>1. PICK n \in Nat : ListsLots(q, n, Lots) /\ \A l \in T : l \in FirstLots(q, n)
        BY <1>7, ListedOnce
    <2> QED BY <1>7, <2>1
<1>9. \A l \in T : /\ seen[l] \in Nat /\ use[l] \in Nat /\ seen[l] - use[l] \in Nat /\ seen[l] > 0
                   /\ seen[l] - use[l] <= seen[l]
    BY <1>2, <1>4
<1>10. \A n : AfterUse(n) \in {"USED", "PARTIALLY_USED"}
    BY DEF AfterUse
<1>11. /\ left' = [l \in Lots |-> IF l \in T THEN seen[l] - use[l] ELSE left[l]]
       /\ lotStatus' = [l \in Lots |-> IF l \in T THEN AfterUse(seen[l] - use[l]) ELSE lotStatus[l]]
       /\ reward' = [r \in Rewards |-> IF r \in T THEN AfterUse(seen[r] - use[r]) ELSE reward[r]]
       /\ taken' = [taken EXCEPT ![b] = took]
    BY <1>3
<1>12. /\ left \in [Lots -> Nat] /\ lotStatus \in [Lots -> LotStatuses]
       /\ reward \in [Rewards -> RewardStatuses]
    BY DEF WalletIInv, WalletTypes, WalletTypeOK
<1>13. /\ left' \in [Lots -> Nat] /\ lotStatus' \in [Lots -> LotStatuses]
    <2> HIDE DEF T
    <2> QED BY <1>9, <1>10, <1>11, <1>12 DEF LotStatuses
<1>14. /\ reward' \in [Rewards -> RewardStatuses]
       /\ \A r \in Rewards : reward'[r] # reward[r] => reward'[r] # "PENDING"
    <2> HIDE DEF T
    <2> QED BY <1>10, <1>11, <1>12 DEF RewardStatuses
<1>15. bought' = [bought EXCEPT ![b] = "PENDING"] /\ UNCHANGED <<restored, refunded>>
    BY <1>1 DEF CommitBuy
<1> HIDE DEF took, T
<1>16. BuyWrites(t, b, q, took)
    BY <1>1, <1>5, <1>6, <1>8, <1>11, <1>13, <1>14, <1>15 DEF BuyWrites
<1> QED
    BY <1>5, <1>16

\* A purchase takes what it costs.
LEMMA CommitBuyPurchases ==
    ASSUME WalletIInv, NEW t \in Txs, CommitBuy(t)
    PROVE  PurchasesFit'
<1>1. PICK q : \E b \in Buys, took \in [Lots -> Nat] : BuyWrites(t, b, q, took)
    BY BuyIs
<1>2. PICK b \in Buys, took \in [Lots -> Nat] : BuyWrites(t, b, q, took)
    BY <1>1
<1>3. /\ restored \in [Buys -> [Lots -> Nat]] /\ bought \in [Buys -> BuyStatuses]
      /\ taken \in [Buys -> [Lots -> Nat]] /\ refunded \in [Buys -> 0..BuyCents] /\ DOMAIN rows = Buys
    BY DEF WalletIInv, WalletTypes, WalletTypeOK
<1>4. PurchaseFits(bought[b], taken[b], restored[b], rows[b], refunded[b])
    BY DEF WalletIInv, PurchasesFit
<1>5. /\ refunded[b] = 0 /\ BuyCents > 0 /\ BuyCents \in Nat
      /\ \A l \in Lots : restored[b][l] = 0 /\ restored[b][l] <= took[l]
    <2>1. refunded[b] = 0 /\ \A l \in Lots : restored[b][l] = 0
        BY <1>2, <1>4 DEF PurchaseFits, BuyWrites
    <2>2. \A l \in Lots : took[l] \in Nat
        OBVIOUS
    <2> QED BY <2>1, <2>2, WalletAssumption
<1>6. 0 <= SumOver(restored[b], Lots)
    <2>1. \A l \in Lots : restored[b][l] \in Nat
        BY <1>3
    <2>2. SumOver(restored[b], Lots) \in Nat
        BY <2>1, WalletSetsFinite, SumIsNat
    <2> QED BY <2>2
<1>7. PurchaseFits("PENDING", took, restored[b], q, refunded[b])
    BY <1>2, <1>5, <1>6 DEF PurchaseFits, BuyStatuses, BuyWrites
<1>8. ASSUME NEW c \in Buys
      PROVE  PurchaseFits(bought[c], taken[c], restored[c], rows[c], refunded[c])'
    <2>1. PurchaseFits(bought[c], taken[c], restored[c], rows[c], refunded[c])
        BY DEF WalletIInv, PurchasesFit
    <2>2. CASE c = b
        <3>1. bought'[c] = "PENDING" /\ taken'[c] = took /\ rows'[c] = q
            BY <1>2, <1>3, <2>2 DEF BuyWrites
        <3> QED BY <1>2, <1>7, <2>2, <3>1 DEF BuyWrites
    <2>3. CASE c # b
        <3>1. bought'[c] = bought[c] /\ taken'[c] = taken[c] /\ rows'[c] = rows[c]
            BY <1>2, <1>3, <2>3 DEF BuyWrites
        <3> QED BY <1>2, <2>1, <3>1 DEF BuyWrites
    <2> QED BY <2>2, <2>3
<1> QED
    BY <1>8 DEF PurchasesFit

\* A purchase that is settled has refunded nothing yet.
LEMMA SettlePurchases ==
    ASSUME WalletIInv, NEW b \in Buys, NEW status \in {"PAID", "EXPIRED"}, Settle(b, status)
    PROVE  PurchasesFit'
<1>1. /\ bought[b] \in {"PENDING", "EXPIRED"} /\ bought' = [bought EXCEPT ![b] = status]
      /\ UNCHANGED <<taken, restored, rows, refunded>> /\ bought \in [Buys -> BuyStatuses]
    BY DEF WalletIInv, WalletTypes, Settle
<1>2. ASSUME NEW c \in Buys
      PROVE  PurchaseFits(bought'[c], taken[c], restored[c], rows[c], refunded[c])
    <2>1. PurchaseFits(bought[c], taken[c], restored[c], rows[c], refunded[c])
        BY DEF WalletIInv, PurchasesFit
    <2>2. CASE c = b
        <3>1. bought'[c] = status /\ bought[c] \in {"PENDING", "EXPIRED"}
            BY <1>1, <2>2
        <3>2. refunded[c] = 0 /\ BuyCents > 0
            BY <2>1, <3>1, WalletAssumption DEF PurchaseFits
        <3> QED BY <2>1, <3>1, <3>2 DEF PurchaseFits, BuyStatuses
    <2>3. CASE c # b
        <3>1. bought'[c] = bought[c]
            BY <1>1, <2>3
        <3> QED BY <2>1, <3>1
    <2> QED BY <2>2, <2>3
<1> QED
    BY <1>1, <1>2 DEF PurchasesFit

\* The other steps leave the purchases alone.
LEMMA PurchasesStay ==
    ASSUME PurchasesFit, UNCHANGED <<bought, taken, restored, rows, refunded>>
    PROVE  PurchasesFit'
BY DEF PurchasesFit

-----------------------------------------------------------------------------
(* The rewards.                                                            *)

\* Rewards that keep their orders and bookings, and do not become pending, fit.
LEMMA RewardsStay ==
    ASSUME RewardsFit, UNCHANGED <<source, booked>>,
           \A r \in Rewards : reward'[r] # reward[r] => reward'[r] # "PENDING"
    PROVE  RewardsFit'
BY DEF RewardsFit, RewardFits

\* A reward is pending from the settlement of its order to its release.
LEMMA RewardsKept ==
    ASSUME WalletIInv, [WalletNext]_walletVars
    PROVE  RewardsFit'
<1> USE DEF WalletIInv
<1>0. /\ reward \in [Rewards -> RewardStatuses] /\ booked \in [Rewards -> SUBSET Postings]
      /\ source \in [Rewards -> {"NONE", "PAID", "REFUNDED"}]
    BY DEF WalletTypes, WalletTypeOK
<1>1. CASE UNCHANGED <<reward, source, booked>>
    BY <1>1 DEF RewardsFit, RewardFits
<1>2. ASSUME NEW r \in Rewards, NEW fulfilled, PaySource(r, fulfilled) PROVE RewardsFit'
    BY <1>0, <1>2 DEF PaySource, RewardsFit, RewardFits
<1>3. ASSUME NEW r \in Rewards, Release(r) PROVE RewardsFit'
    BY <1>0, <1>3 DEF Release, RewardsFit, RewardFits
<1>4. ASSUME NEW t \in Txs, CommitBuy(t) PROVE RewardsFit'
    <2>1. \A r \in Rewards : reward'[r] # reward[r] => reward'[r] # "PENDING"
        BY <1>4, BuyIs DEF BuyWrites
    <2> QED BY <1>4, <2>1, RewardsStay DEF CommitBuy
<1>5. ASSUME NEW t \in Txs, CommitExpire(t) PROVE RewardsFit'
    <2>1. \A r \in Rewards : reward'[r] # reward[r] => reward'[r] # "PENDING"
        BY <1>0, <1>5 DEF CommitExpire
    <2> QED BY <1>5, <2>1, RewardsStay DEF CommitExpire
<1>6. ASSUME NEW t \in Txs, CommitReverse(t) PROVE RewardsFit'
    <2>1. PICK r \in Rewards : txn[t].of = r
        BY <1>6 DEF CommitReverse, TransactionsFit, TxnKnows
    <2>2. source' = [source EXCEPT ![r] = "REFUNDED"]
        BY <1>6, <2>1 DEF CommitReverse
    <2>3. \/ UNCHANGED <<reward, booked>>
          \/ /\ reward' = [reward EXCEPT ![r] = "REVERSED"]
             /\ booked' = [booked EXCEPT ![r] = IF "REFERRAL_REWARD" \in @
                                                THEN @ \cup {"REFERRAL_REWARD_REVERSAL"} ELSE @]
        BY <1>6, <2>1 DEF CommitReverse
    <2> QED BY <1>0, <2>2, <2>3 DEF RewardsFit, RewardFits
<1>7. ASSUME NEW b \in Buys, NEW sum, NEW seen, NEW dead, Refunding(b, sum, seen, dead)
      PROVE  RewardsFit'
    <2>1. \A r \in Rewards : reward'[r] # reward[r] => reward'[r] # "PENDING"
        BY <1>7, RefundIs DEF Restored
    <2> QED BY <1>7, <2>1, RewardsStay DEF Refunding
<1>8. ASSUME NEW t \in Txs, NEW kind, NEW id, NEW seen, NEW was, Begin(t, kind, id, seen, was)
      PROVE  RewardsFit'
    BY <1>1, <1>8 DEF Begin
<1>9. ASSUME NEW t \in Txs, CommitSend(t) PROVE RewardsFit'
    BY <1>1, <1>9 DEF CommitSend
<1>10. ASSUME NEW t \in Txs, Abort(t) PROVE RewardsFit'
    BY <1>1, <1>10 DEF Abort
<1>11. ASSUME NEW b \in Buys, NEW status, Settle(b, status) PROVE RewardsFit'
    BY <1>1, <1>11 DEF Settle
<1>12. ASSUME NEW r \in Rewards, Associate(r) \/ Lapse(r) PROVE RewardsFit'
    BY <1>1, <1>12 DEF Associate, Lapse
<1>13. CASE UNCHANGED walletVars
    BY <1>1, <1>13 DEF walletVars
<1>14. ASSUME NEW r \in Rewards, NEW sum, ReturnSome(r, sum) PROVE RewardsFit'
    BY <1>0, <1>14 DEF ReturnSome, RewardsFit, RewardFits
<1>15. ASSUME NEW b \in Buys, NEW cents \in 1..BuyCents, RefundBuy(b, cents) PROVE RewardsFit'
    BY <1>7, <1>15, RefundBuyIs
<1>16. ASSUME NEW t \in Txs, CommitRestore(t) PROVE RewardsFit'
    BY <1>7, <1>16, CommitRestoreIs
<1> QED
    BY <1>2, <1>3, <1>4, <1>5, <1>6, <1>8, <1>9, <1>10, <1>11, <1>12, <1>13, <1>14, <1>15, <1>16
    DEF WalletNext, BeginBuy, BeginSend, BeginExpire, BeginReverse, BeginRestore

-----------------------------------------------------------------------------
(* The transactions.                                                       *)

\* TransactionsFit that are left alone, or end, know what they knew as long as the
\* purchases that were not made, and the transfers, are the same.
LEMMA TransactionsEnd ==
    ASSUME WalletIInv, NEW t \in Txs, txn' = txn \/ End(t), UNCHANGED sent,
           \A b \in Buys : bought[b] = "NONE" => bought'[b] = "NONE"
    PROVE  TransactionsFit'
<1>1. txn \in [Txs -> TxnStates] /\ Idle \in TxnStates
    BY DEF WalletIInv, WalletTypes, TxnStates, TxnKinds, Idle, RewardStatuses
<1>2. ASSUME NEW o \in Txs PROVE txn'[o] = txn[o] \/ txn'[o] = Idle
    BY <1>1 DEF End
<1>3. ASSUME NEW o \in Txs PROVE TxnKnows(txn'[o], bought', sent)
    <2>1. CASE txn'[o] = txn[o]
        <3>1. TxnKnows(txn[o], bought, sent)
            BY DEF WalletIInv, TransactionsFit
        <3> QED BY <2>1, <3>1 DEF TxnKnows
    <2>2. CASE txn'[o] = Idle
        <3>1. Idle.kind = "idle"
            BY DEF Idle
        <3> QED BY <1>1, <2>2, <3>1 DEF TxnKnows
    <2> QED BY <1>2, <2>1, <2>2
<1>4. ASSUME NEW o \in Txs, NEW p \in Txs, o # p PROVE Apart(txn'[o], txn'[p])
    <2>1. Apart(txn[o], txn[p])
        BY <1>4 DEF WalletIInv, TransactionsFit
    <2>2. Idle.kind = "idle"
        BY DEF Idle
    <2> QED BY <1>2, <2>1, <2>2 DEF Apart
<1>5. TransfersWithinLimit'
    BY DEF WalletIInv, TransactionsFit, TransfersWithinLimit
<1> QED
    BY <1>3, <1>4, <1>5 DEF TransactionsFit

\* A transaction that begins knows what it read, apart from the others.
LEMMA TransactionsBegin ==
    ASSUME WalletIInv, NEW t \in Txs, NEW kind, NEW id, NEW seen, NEW was, Begin(t, kind, id, seen, was),
           NEW x, x = [kind |-> kind, of |-> id, was |-> was, dead |-> Dead \cap seen,
                       seen |-> [l \in Lots |-> IF l \in seen THEN left[l] ELSE 0]],
           TxnKnows(x, bought, sent), \A o \in Txs \ {t} : Apart(x, txn[o])
    PROVE  TransactionsFit'
<1>1. txn \in [Txs -> TxnStates] /\ txn' = [txn EXCEPT ![t] = x] /\ UNCHANGED <<bought, sent>>
    BY DEF WalletIInv, WalletTypes, Begin
<1>2. txn'[t] = x /\ \A o \in Txs : o # t => txn'[o] = txn[o]
    BY <1>1
<1>3. ASSUME NEW o \in Txs PROVE TxnKnows(txn'[o], bought, sent)
    BY <1>2 DEF WalletIInv, TransactionsFit
<1>4. \A o \in Txs \ {t} : Apart(txn[o], x)
    BY DEF Apart
<1>5. ASSUME NEW o \in Txs, NEW p \in Txs, o # p PROVE Apart(txn'[o], txn'[p])
    <2>1. Apart(txn[o], txn[p])
        BY <1>5 DEF WalletIInv, TransactionsFit
    <2>2. CASE o = t
        BY <1>2, <1>5, <2>2
    <2>3. CASE p = t
        BY <1>2, <1>4, <1>5, <2>3
    <2>4. CASE o # t /\ p # t
        BY <1>2, <2>1, <2>4
    <2> QED BY <2>2, <2>3, <2>4
<1>6. TransfersWithinLimit'
    BY <1>1 DEF WalletIInv, TransactionsFit, TransfersWithinLimit
<1> QED
    BY <1>1, <1>3, <1>5, <1>6 DEF TransactionsFit

\* What a transaction reads is what is left.
LEMMA ReadsAre ==
    ASSUME WalletTypes, NEW kind \in TxnKinds,
           NEW id \in Buys \cup Transfers \cup Lots, NEW seen, NEW was \in RewardStatuses
    PROVE  [kind |-> kind, of |-> id, was |-> was, dead |-> Dead \cap seen,
            seen |-> [l \in Lots |-> IF l \in seen THEN left[l] ELSE 0]] \in TxnStates
<1>1. [l \in Lots |-> IF l \in seen THEN left[l] ELSE 0] \in [Lots -> Nat]
    BY DEF WalletTypes, WalletTypeOK
<1> DEFINE f == [l \in Lots |-> IF l \in seen THEN left[l] ELSE 0]
<1>2. Dead \cap seen \in SUBSET Lots
    BY DEF Dead
<1> HIDE DEF f
<1>3. [kind |-> kind, of |-> id, was |-> was, dead |-> Dead \cap seen, seen |-> f] \in TxnStates
    BY <1>1, <1>2 DEF TxnStates, f
<1> QED
    BY <1>3 DEF f

\* A purchase begins under the lock of its customer.
LEMMA BeginBuyTransactions ==
    ASSUME WalletIInv, NEW t \in Txs, NEW b \in Buys, BeginBuy(t, b)
    PROVE  TransactionsFit'
<1>1. PICK seen : Begin(t, "buy", b, seen, "NONE") /\ bought[b] = "NONE" /\ ~PurchaseLocked(OwnerOf[b])
    BY DEF BeginBuy
<1>2. PICK x : x = [kind |-> "buy", of |-> b, was |-> "NONE", dead |-> Dead \cap seen,
                    seen |-> [l \in Lots |-> IF l \in seen THEN left[l] ELSE 0]]
    OBVIOUS
<1>3. x \in TxnStates /\ x.kind = "buy" /\ x.of = b
    <2>1. x.kind = "buy" /\ x.of = b
        BY <1>2
    <2> QED BY <1>2, <2>1, ReadsAre DEF WalletIInv, RewardStatuses, TxnKinds
<1>4. TxnKnows(x, bought, sent)
    BY <1>1, <1>3 DEF TxnKnows
<1>5. \A o \in Txs \ {t} : Apart(x, txn[o])
    BY <1>1, <1>3 DEF Apart, PurchaseLocked, Open
<1> QED
    BY <1>1, <1>2, <1>4, <1>5, TransactionsBegin

\* So does what gives the credit of a purchase back.
LEMMA BeginRestoreTransactions ==
    ASSUME WalletIInv, NEW t \in Txs, NEW b \in Buys, BeginRestore(t, b)
    PROVE  TransactionsFit'
<1>1. PICK seen : Begin(t, "restore", b, seen, "NONE") /\ ~PurchaseLocked(OwnerOf[b])
    BY DEF BeginRestore
<1>2. PICK x : x = [kind |-> "restore", of |-> b, was |-> "NONE", dead |-> Dead \cap seen,
                    seen |-> [l \in Lots |-> IF l \in seen THEN left[l] ELSE 0]]
    OBVIOUS
<1>3. x \in TxnStates /\ x.kind = "restore" /\ x.of = b
    <2>1. x.kind = "restore" /\ x.of = b
        BY <1>2
    <2> QED BY <1>2, <2>1, ReadsAre DEF WalletIInv, RewardStatuses, TxnKinds
<1>4. TxnKnows(x, bought, sent)
    BY <1>3 DEF TxnKnows
<1>5. \A o \in Txs \ {t} : Apart(x, txn[o])
    BY <1>1, <1>3 DEF Apart, PurchaseLocked, Open
<1> QED
    BY <1>1, <1>2, <1>4, <1>5, TransactionsBegin

\* A transfer begins under the locks of both wallets, within the limit.
LEMMA BeginSendTransactions ==
    ASSUME WalletIInv, NEW t \in Txs, NEW y \in Transfers, BeginSend(t, y)
    PROVE  TransactionsFit'
<1>1. PICK seen : /\ Begin(t, "send", y, seen, "NONE") /\ seen \subseteq Rewards
                  /\ ~TransferLocked({OwnerOf[y], Receiver[y]})
                  /\ SendCents * Cardinality(SentBy(sent, OwnerOf[y])) + SendCents <= DailyLimit
    BY DEF BeginSend, SentBy
<1>2. PICK x : x = [kind |-> "send", of |-> y, was |-> "NONE", dead |-> Dead \cap seen,
                    seen |-> [l \in Lots |-> IF l \in seen THEN left[l] ELSE 0]]
    OBVIOUS
<1>3. x \in TxnStates /\ x.kind = "send" /\ x.of = y
    <2>1. x.kind = "send" /\ x.of = y
        BY <1>2
    <2> QED BY <1>2, <2>1, ReadsAre DEF WalletIInv, RewardStatuses, TxnKinds
<1>4. \A l \in Lots : x.seen[l] > 0 => l \in Rewards
    <2>1. \A l \in Lots : x.seen[l] = IF l \in seen THEN left[l] ELSE 0
        BY <1>2
    <2> QED BY <1>1, <2>1
<1>5. TxnKnows(x, bought, sent)
    BY <1>1, <1>3, <1>4 DEF TxnKnows
<1>6. \A o \in Txs \ {t} : Apart(x, txn[o])
    BY <1>1, <1>3 DEF Apart, TransferLocked, Open, Parties
<1> QED
    BY <1>1, <1>2, <1>5, <1>6, TransactionsBegin

\* The reads of what expires and of what is reversed take no lock of a wallet.
LEMMA BeginOtherTransactions ==
    ASSUME WalletIInv, NEW t \in Txs, NEW l \in Lots,
           BeginExpire(t, l) \/ (l \in Rewards /\ BeginReverse(t, l))
    PROVE  TransactionsFit'
<1>1. PICK kind \in {"expire", "reverse"}, was \in RewardStatuses :
          /\ Begin(t, kind, l, {l}, was)
          /\ kind = "reverse" => l \in Rewards /\ \A o \in Txs : txn[o].kind = "reverse" => txn[o].of # l
    <2>1. "NONE" \in RewardStatuses /\ (l \in Rewards => reward[l] \in RewardStatuses)
        BY DEF WalletIInv, WalletTypes, WalletTypeOK, RewardStatuses
    <2>2. CASE BeginExpire(t, l)
        BY <2>1, <2>2 DEF BeginExpire
    <2>3. CASE l \in Rewards /\ BeginReverse(t, l)
        BY <2>1, <2>3 DEF BeginReverse, Open
    <2> QED BY <2>2, <2>3
<1>2. PICK x : x = [kind |-> kind, of |-> l, was |-> was, dead |-> Dead \cap {l},
                    seen |-> [k \in Lots |-> IF k \in {l} THEN left[k] ELSE 0]]
    OBVIOUS
<1>3. x \in TxnStates /\ x.kind = kind /\ x.of = l
    <2>1. x.kind = kind /\ x.of = l
        BY <1>2
    <2> QED BY <1>2, <2>1, ReadsAre DEF WalletIInv, TxnKinds
<1>4. TxnKnows(x, bought, sent)
    BY <1>1, <1>3 DEF TxnKnows
<1>5. \A o \in Txs \ {t} : Apart(x, txn[o])
    BY <1>1, <1>3 DEF Apart
<1> QED
    BY <1>1, <1>2, <1>4, <1>5, TransactionsBegin

\* A purchase that is made was the only one of its customer under way.
LEMMA CommitBuyTransactions ==
    ASSUME WalletIInv, NEW t \in Txs, CommitBuy(t)
    PROVE  TransactionsFit'
<1>1. PICK b \in Buys : txn[t].of = b /\ txn[t].kind = "buy"
    BY DEF CommitBuy, WalletIInv, TransactionsFit, TxnKnows
<1>2. bought' = [bought EXCEPT ![b] = "PENDING"] /\ End(t) /\ UNCHANGED sent
    BY <1>1 DEF CommitBuy
<1>3. txn \in [Txs -> TxnStates] /\ Idle \in TxnStates /\ Idle.kind = "idle" /\ bought \in [Buys -> BuyStatuses]
    BY DEF WalletIInv, WalletTypes, TxnStates, TxnKinds, Idle, RewardStatuses
<1>4. txn'[t] = Idle /\ \A o \in Txs : o # t => txn'[o] = txn[o]
    BY <1>2, <1>3 DEF End
<1>5. ASSUME NEW o \in Txs PROVE TxnKnows(txn'[o], bought', sent)
    <2>1. CASE o = t
        BY <1>3, <1>4, <2>1 DEF TxnKnows
    <2>2. CASE o # t
        <3>1. TxnKnows(txn[o], bought, sent) /\ Apart(txn[t], txn[o])
            BY <2>2 DEF WalletIInv, TransactionsFit
        <3>2. txn[o].kind = "buy" => txn[o].of # b
            BY <1>1, <3>1 DEF Apart
        <3>3. txn[o].kind = "buy" => bought'[txn[o].of] = "NONE"
            BY <1>2, <1>3, <3>1, <3>2 DEF TxnKnows
        <3> QED BY <1>4, <2>2, <3>1, <3>3 DEF TxnKnows
    <2> QED BY <2>1, <2>2
<1>6. ASSUME NEW o \in Txs, NEW p \in Txs, o # p PROVE Apart(txn'[o], txn'[p])
    <2>1. Apart(txn[o], txn[p])
        BY <1>6 DEF WalletIInv, TransactionsFit
    <2> QED BY <1>3, <1>4, <2>1 DEF Apart
<1>7. TransfersWithinLimit'
    BY <1>2 DEF WalletIInv, TransactionsFit, TransfersWithinLimit
<1> QED
    BY <1>2, <1>5, <1>6, <1>7 DEF TransactionsFit

\* A transfer that is made was the only one of its wallets under way.
LEMMA CommitSendTransactions ==
    ASSUME WalletIInv, NEW t \in Txs, CommitSend(t)
    PROVE  TransactionsFit'
<1>1. PICK x \in Transfers : txn[t].of = x /\ txn[t].kind = "send" /\ x \notin sent
    BY DEF CommitSend, WalletIInv, TransactionsFit, TxnKnows
<1>2. sent' = sent \cup {x} /\ End(t) /\ UNCHANGED bought
    BY <1>1 DEF CommitSend
<1>3. /\ txn \in [Txs -> TxnStates] /\ Idle \in TxnStates /\ Idle.kind = "idle"
      /\ sent \subseteq Transfers
    BY DEF WalletIInv, WalletTypes, WalletTypeOK, TxnStates, TxnKinds, Idle, RewardStatuses
<1>4. txn'[t] = Idle /\ \A o \in Txs : o # t => txn'[o] = txn[o]
    BY <1>2, <1>3 DEF End
<1>5. ASSUME NEW o \in Txs PROVE TxnKnows(txn'[o], bought, sent')
    <2>1. CASE o = t
        BY <1>3, <1>4, <2>1 DEF TxnKnows
    <2>2. CASE o # t
        <3>1. TxnKnows(txn[o], bought, sent) /\ Apart(txn[t], txn[o])
            BY <2>2 DEF WalletIInv, TransactionsFit
        <3>2. txn[o].kind = "send" => OwnerOf[txn[o].of] # OwnerOf[x]
            BY <1>1, <3>1 DEF Apart, Parties
        <3>3. txn[o].kind = "send" => SentBy(sent', OwnerOf[txn[o].of]) = SentBy(sent, OwnerOf[txn[o].of])
            BY <1>2, <3>2 DEF SentBy
        <3> QED BY <1>4, <2>2, <3>1, <3>3 DEF TxnKnows
    <2> QED BY <2>1, <2>2
<1>6. ASSUME NEW o \in Txs, NEW p \in Txs, o # p PROVE Apart(txn'[o], txn'[p])
    <2>1. Apart(txn[o], txn[p])
        BY <1>6 DEF WalletIInv, TransactionsFit
    <2> QED BY <1>3, <1>4, <2>1 DEF Apart
<1>7. ASSUME NEW u \in Clients PROVE SendCents * Cardinality(SentBy(sent', u)) <= DailyLimit
    <2>1. CASE u = OwnerOf[x]
        <3>1. SendCents * Cardinality(SentBy(sent, u)) + SendCents <= DailyLimit
            BY <1>1, <2>1 DEF WalletIInv, TransactionsFit, TxnKnows
        <3>2. SentBy(sent', u) = SentBy(sent, u) \cup {x} /\ x \notin SentBy(sent, u)
            BY <1>1, <1>2, <2>1 DEF SentBy
        <3>3. IsFiniteSet(SentBy(sent, u)) /\ SendCents \in Nat
            <4>1. IsFiniteSet(SentBy(sent, u))
                BY <1>3, WalletSetsFinite, FS_Subset DEF SentBy
            <4> QED BY <4>1, WalletAssumption
        <3>4. SendCents * Cardinality(SentBy(sent, u) \cup {x})
              = SendCents * Cardinality(SentBy(sent, u)) + SendCents
            <4> DEFINE S == SentBy(sent, u)
            <4>1. IsFiniteSet(S) /\ x \notin S /\ SendCents \in Nat
                BY <3>2, <3>3
            <4> HIDE DEF S
            <4>2. SendCents * Cardinality(S \cup {x}) = SendCents * Cardinality(S) + SendCents
                BY <4>1, OneMore
            <4> QED BY <4>2 DEF S
        <3> QED BY <3>1, <3>2, <3>4
    <2>2. CASE u # OwnerOf[x]
        <3>1. SentBy(sent', u) = SentBy(sent, u)
            BY <1>2, <2>2 DEF SentBy
        <3>2. SendCents * Cardinality(SentBy(sent, u)) <= DailyLimit
            BY DEF WalletIInv, TransactionsFit, TransfersWithinLimit, SentBy
        <3> QED BY <3>1, <3>2
    <2> QED BY <2>1, <2>2
<1>8. TransfersWithinLimit'
    BY <1>7 DEF TransfersWithinLimit, SentBy
<1> QED
    BY <1>2, <1>5, <1>6, <1>8 DEF TransactionsFit

-----------------------------------------------------------------------------
(* The types.                                                              *)

\* Ending a transaction keeps the types of all transactions.
LEMMA EndTypes == ASSUME WalletTypes, NEW t \in Txs, End(t) PROVE txn' \in [Txs -> TxnStates]
<1>1. Idle \in TxnStates /\ txn \in [Txs -> TxnStates]
    BY DEF WalletTypes, TxnStates, TxnKinds, Idle, RewardStatuses
<1> QED
    BY <1>1 DEF End

\* A movement on a row keeps the type of the table.
LEMMA RowTypes ==
    ASSUME NEW f \in [Clients -> [MovementTypes -> Int]], NEW u \in Clients,
           NEW type \in MovementTypes, NEW cents \in Int
    PROVE  [f EXCEPT ![u][type] = @ + cents] \in [Clients -> [MovementTypes -> Int]]
<1> DEFINE row == [f[u] EXCEPT ![type] = @ + cents]
<1>1. row \in [MovementTypes -> Int]
    <2>1. f[u] \in [MovementTypes -> Int]
        OBVIOUS
    <2> QED BY <2>1
<1>2. [f EXCEPT ![u][type] = @ + cents] = [f EXCEPT ![u] = row]
    OBVIOUS
<1> HIDE DEF row
<1> QED
    BY <1>1, <1>2

\* The steps that write no amount.
LEMMA PlainTypes ==
    ASSUME WalletTypes,
           \/ \E r \in Rewards : Associate(r) \/ Lapse(r)
           \/ \E t \in Txs : Abort(t)
           \/ UNCHANGED walletVars
    PROVE  WalletTypes'
<1> USE DEF WalletTypes, WalletTypeOK
<1>1. ASSUME NEW r \in Rewards, Associate(r) PROVE WalletTypes'
    BY <1>1 DEF Associate, gatewayVars
<1>2. ASSUME NEW r \in Rewards, Lapse(r) PROVE WalletTypes'
    BY <1>2 DEF Lapse, gatewayVars
<1>3. ASSUME NEW t \in Txs, Abort(t) PROVE WalletTypes'
    <2>1. txn' \in [Txs -> TxnStates]
        BY <1>3, EndTypes DEF Abort
    <2> QED BY <1>3, <2>1 DEF Abort, gatewayVars
<1>4. CASE UNCHANGED walletVars
    BY <1>4 DEF walletVars, gatewayVars
<1> QED
    BY <1>1, <1>2, <1>3, <1>4

\* A movement of what was paid at the gateway.
LEMMA OutsideTyped ==
    ASSUME WalletTypes, NEW u \in Clients, NEW type \in OutsideTypes, NEW cents \in Int,
           MoveOutside(u, type, cents)
    PROVE  /\ outside' \in [Clients -> [OutsideTypes -> Int]]
           /\ outside'[u][type] = outside[u][type] + cents
           /\ \A v \in Clients, y \in OutsideTypes :
                  v # u \/ y # type => outside'[v][y] = outside[v][y]
<1> DEFINE row == [outside[u] EXCEPT ![type] = @ + cents]
<1>1. outside \in [Clients -> [OutsideTypes -> Int]] /\ outside[u] \in [OutsideTypes -> Int]
    BY DEF WalletTypes, WalletTypeOK
<1>2. /\ row \in [OutsideTypes -> Int] /\ row[type] = outside[u][type] + cents
      /\ \A y \in OutsideTypes : y # type => row[y] = outside[u][y]
    BY <1>1
<1>3. outside' = [outside EXCEPT ![u] = row]
    BY DEF MoveOutside
<1> HIDE DEF row
<1> QED
    BY <1>1, <1>2, <1>3

\* A payment at the gateway that is approved or returned in part.
LEMMA PaymentTypes ==
    ASSUME WalletTypes,
           \/ \E r \in Rewards, fulfilled \in BOOLEAN : PaySource(r, fulfilled)
           \/ \E r \in Rewards, sum \in 1..BaseCents : ReturnSome(r, sum)
           \/ \E b \in Buys, status \in {"PAID", "EXPIRED"} : Settle(b, status)
    PROVE  WalletTypes'
<1>1. ASSUME NEW r \in Rewards, NEW fulfilled, PaySource(r, fulfilled) PROVE WalletTypes'
    <2>1. BuyerOf[r] \in Clients /\ -BaseCents \in Int /\ "PURCHASE" \in OutsideTypes
        BY UsersAre, WalletAssumption DEF OutsideTypes
    <2>2. outside' \in [Clients -> [OutsideTypes -> Int]]
        BY <1>1, <2>1, OutsideTyped DEF PaySource
    <2> QED BY <1>1, <2>2 DEF PaySource, WalletTypes, WalletTypeOK, RewardStatuses
<1>2. ASSUME NEW r \in Rewards, NEW sum \in 1..BaseCents, ReturnSome(r, sum) PROVE WalletTypes'
    <2>1. sum \in Nat
        BY WalletAssumption
    <2> QED BY <1>2, <2>1 DEF ReturnSome, WalletTypes, WalletTypeOK
<1>3. ASSUME NEW b \in Buys, NEW status \in {"PAID", "EXPIRED"}, Settle(b, status) PROVE WalletTypes'
    <2>1. OwnerOf[b] \in Clients /\ -RestCents \in Int /\ "PURCHASE" \in OutsideTypes
        BY UsersAre, WalletAssumption DEF OutsideTypes
    <2>2. outside' \in [Clients -> [OutsideTypes -> Int]]
        <3>1. CASE MoveOutside(OwnerOf[b], "PURCHASE", -RestCents)
            BY <2>1, <3>1, OutsideTyped
        <3>2. CASE UNCHANGED outside
            BY <3>2 DEF WalletTypes, WalletTypeOK
        <3> QED BY <1>3, <3>1, <3>2 DEF Settle
    <2>3. approved' \subseteq Rewards \cup Buys
        BY <1>3 DEF Settle, WalletTypes, WalletTypeOK
    <2> QED BY <1>3, <2>2, <2>3 DEF Settle, WalletTypes, WalletTypeOK, BuyStatuses
<1> QED
    BY <1>1, <1>2, <1>3

\* The reads.
LEMMA BeginTypes ==
    ASSUME WalletTypes, NEW t \in Txs, NEW kind \in TxnKinds,
           NEW id \in Buys \cup Transfers \cup Lots, NEW seen, NEW was \in RewardStatuses,
           Begin(t, kind, id, seen, was)
    PROVE  WalletTypes'
<1>1. txn' \in [Txs -> TxnStates]
    <2>1. PICK x : x = [kind |-> kind, of |-> id, was |-> was, dead |-> Dead \cap seen,
                        seen |-> [l \in Lots |-> IF l \in seen THEN left[l] ELSE 0]]
        OBVIOUS
    <2>2. x \in TxnStates /\ txn' = [txn EXCEPT ![t] = x] /\ txn \in [Txs -> TxnStates]
        BY <2>1, ReadsAre DEF Begin, WalletTypes
    <2> QED BY <2>2
<1> QED
    BY <1>1 DEF Begin, WalletTypes, WalletTypeOK, gatewayVars

\* A reward that is released keeps the types.
LEMMA ReleaseTypes ==
    ASSUME WalletTypes, NEW r \in Rewards, Release(r)
    PROVE  WalletTypes'
<1>1. balance' \in [Clients -> Int] /\ moved' \in [Clients -> [MovementTypes -> Int]]
    <2>1. /\ OwnerOf[r] \in Clients /\ RewardCents \in Int /\ "REFERRAL_REWARD" \in MovementTypes
          /\ Move(OwnerOf[r], "REFERRAL_REWARD", RewardCents)
        BY UsersAre, RewardCentsIs DEF Release, MovementTypes
    <2> QED BY <2>1, Moved
<1>2. r \in Lots
    BY DEF Lots
<1> QED
    BY <1>1, <1>2, RewardCentsIs
    DEF Release, WalletTypes, WalletTypeOK, LotStatuses, RewardStatuses, Postings, gatewayVars

\* A purchase keeps the types.
LEMMA CommitBuyTypes ==
    ASSUME WalletIInv, NEW t \in Txs, CommitBuy(t)
    PROVE  WalletTypes'
<1>1. PICK q : \E b \in Buys, took \in [Lots -> Nat] : BuyWrites(t, b, q, took)
    BY BuyIs
<1>2. PICK b \in Buys, took \in [Lots -> Nat] : BuyWrites(t, b, q, took)
    BY <1>1
<1>3. balance' \in [Clients -> Int] /\ moved' \in [Clients -> [MovementTypes -> Int]]
    <2>1. /\ OwnerOf[b] \in Clients /\ -BuyCents \in Int /\ "PURCHASE" \in MovementTypes
          /\ Move(OwnerOf[b], "PURCHASE", -BuyCents)
        BY <1>2, UsersAre, WalletAssumption DEF CommitBuy, MovementTypes, BuyWrites
    <2> QED BY <2>1, Moved DEF WalletIInv
<1>4. txn' \in [Txs -> TxnStates]
    BY EndTypes DEF CommitBuy, WalletIInv
<1>5. /\ taken \in [Buys -> [Lots -> Nat]] /\ taken' = [taken EXCEPT ![b] = took]
      /\ bought \in [Buys -> BuyStatuses] /\ bought' = [bought EXCEPT ![b] = "PENDING"]
      /\ DOMAIN rows = Buys /\ rows' = [rows EXCEPT ![b] = q]
    BY <1>2 DEF WalletIInv, WalletTypes, WalletTypeOK, BuyWrites
<1>6. taken' \in [Buys -> [Lots -> Nat]] /\ bought' \in [Buys -> BuyStatuses] /\ DOMAIN rows' = Buys
    BY <1>5 DEF BuyStatuses
<1>7. /\ UNCHANGED <<worth, expired, source, referred, booked, restored, refunded, sent>>
      /\ UNCHANGED <<outside, approved, partly>> /\ split' \in {split, split \cup {b}}
    BY <1>2 DEF CommitBuy, BuyWrites
<1>8. /\ left' \in [Lots -> Nat] /\ lotStatus' \in [Lots -> LotStatuses]
      /\ reward' \in [Rewards -> RewardStatuses]
    BY <1>2 DEF BuyWrites
<1> QED
    BY <1>3, <1>4, <1>6, <1>7, <1>8 DEF WalletIInv, WalletTypes, WalletTypeOK

\* A transfer keeps the types.
LEMMA CommitSendTypes ==
    ASSUME WalletIInv, NEW t \in Txs, CommitSend(t)
    PROVE  WalletTypes'
<1>1. PICK x \in Transfers : txn[t].of = x /\ txn[t].kind = "send"
    BY DEF CommitSend, WalletIInv, TransactionsFit, TxnKnows
<1> DEFINE u == OwnerOf[x]
           v == Receiver[x]
           seen == txn[t].seen
           S == {l \in Lots : seen[l] > 0}
<1>2. seen \in [Lots -> Nat] /\ SendCents \in Nat
    BY WalletAssumption DEF WalletIInv, WalletTypes, TxnStates
<1>3. S \subseteq Rewards
    BY <1>1 DEF WalletIInv, TransactionsFit, TxnKnows
<1>4. PICK use \in Uses(seen, S, SendCents) :
        LET T == {l \in S : use[l] > 0}  copied == {txn[t].of} \X T IN
        /\ left' = [l \in Lots |-> IF l \in T THEN seen[l] - use[l]
                                   ELSE IF l \in copied THEN use[l[2]] ELSE left[l]]
        /\ lotStatus' = [l \in Lots |-> IF l \in T THEN AfterUse(seen[l] - use[l])
                                        ELSE IF l \in copied THEN "AVAILABLE"
                                        ELSE lotStatus[l]]
        /\ worth' = [l \in Lots |-> IF l \in copied THEN use[l[2]] ELSE worth[l]]
    BY <1>1 DEF CommitSend
<1> DEFINE T == {l \in S : use[l] > 0}
           copied == {txn[t].of} \X T
<1>5. /\ left' = [l \in Lots |-> IF l \in T THEN seen[l] - use[l]
                                 ELSE IF l \in copied THEN use[l[2]] ELSE left[l]]
      /\ lotStatus' = [l \in Lots |-> IF l \in T THEN AfterUse(seen[l] - use[l])
                                      ELSE IF l \in copied THEN "AVAILABLE"
                                      ELSE lotStatus[l]]
      /\ worth' = [l \in Lots |-> IF l \in copied THEN use[l[2]] ELSE worth[l]]
    BY <1>4
<1>6. use \in [S -> 0..SendCents] /\ \A l \in S : use[l] <= seen[l]
    <2>1. use \in Uses(seen, S, SendCents)
        BY <1>4
    <2> HIDE DEF S, seen
    <2> QED BY <2>1 DEF Uses
<1>7. \A l \in T : seen[l] - use[l] \in Nat /\ use[l] \in Nat
    <2> HIDE DEF seen
    <2> QED BY <1>2, <1>6
<1>8. \A l \in copied : l[2] \in T
    <2> HIDE DEF T
    <2> QED OBVIOUS
<1>9. \A l \in copied : use[l[2]] \in Nat
    <2> HIDE DEF T, copied
    <2> QED BY <1>7, <1>8
<1>10. \A n : AfterUse(n) \in {"USED", "PARTIALLY_USED"}
    BY DEF AfterUse
<1>11. /\ left \in [Lots -> Nat] /\ worth \in [Lots -> Nat] /\ lotStatus \in [Lots -> LotStatuses]
    BY DEF WalletIInv, WalletTypes, WalletTypeOK
<1>12. left' \in [Lots -> Nat] /\ worth' \in [Lots -> Nat] /\ lotStatus' \in [Lots -> LotStatuses]
    <2> HIDE DEF T, copied, seen
    <2> QED BY <1>5, <1>7, <1>9, <1>10, <1>11 DEF LotStatuses
<1>13. txn' \in [Txs -> TxnStates]
    BY EndTypes DEF CommitSend, WalletIInv
<1>14. balance' \in [Clients -> Int] /\ moved' \in [Clients -> [MovementTypes -> Int]]
    <2>1. /\ u \in Clients /\ v \in Clients
          /\ balance' = [balance EXCEPT ![u] = @ - SendCents, ![v] = @ + SendCents]
          /\ moved' = [moved EXCEPT ![u]["TRANSFER_OUT"] = @ - SendCents,
                                    ![v]["TRANSFER_IN"] = @ + SendCents]
        BY <1>1, UsersAre DEF CommitSend
    <2>2. balance \in [Clients -> Int] /\ moved \in [Clients -> [MovementTypes -> Int]]
        BY DEF WalletIInv, WalletTypes, WalletTypeOK
    <2> HIDE DEF u, v
    <2>3. balance' \in [Clients -> Int]
        BY <1>2, <2>1, <2>2
    <2> DEFINE f == [moved EXCEPT ![u]["TRANSFER_OUT"] = @ + (0 - SendCents)]
    <2>4. f \in [Clients -> [MovementTypes -> Int]]
        <3>1. 0 - SendCents \in Int /\ "TRANSFER_OUT" \in MovementTypes
            BY <1>2 DEF MovementTypes
        <3> QED BY <2>1, <2>2, <3>1, RowTypes
    <2>5. moved[u]["TRANSFER_OUT"] - SendCents = moved[u]["TRANSFER_OUT"] + (0 - SendCents)
        <3>1. moved[u]["TRANSFER_OUT"] \in Int
            BY <2>1, <2>2 DEF MovementTypes
        <3> QED BY <1>2, <3>1
    <2>6. moved' = [f EXCEPT ![v]["TRANSFER_IN"] = @ + SendCents]
        BY <2>1, <2>5
    <2>7. moved' \in [Clients -> [MovementTypes -> Int]]
        <3>1. SendCents \in Int /\ "TRANSFER_IN" \in MovementTypes
            BY <1>2 DEF MovementTypes
        <3>2. PICK g \in [Clients -> [MovementTypes -> Int]] : g = f
            BY <2>4
        <3> HIDE DEF f
        <3>3. [g EXCEPT ![v]["TRANSFER_IN"] = @ + SendCents] \in [Clients -> [MovementTypes -> Int]]
            BY <2>1, <3>1, RowTypes
        <3> QED BY <2>6, <3>2, <3>3
    <2> QED BY <2>3, <2>7
<1>15. /\ sent' = sent \cup {x}
       /\ UNCHANGED <<expired, reward, source, referred, booked, bought, taken, restored, rows, refunded>>
       /\ UNCHANGED <<outside, split, approved, partly>>
    BY <1>1 DEF CommitSend, gatewayVars
<1> QED
    BY <1>12, <1>13, <1>14, <1>15 DEF WalletIInv, WalletTypes, WalletTypeOK

\* An expiry keeps the types.
LEMMA CommitExpireTypes ==
    ASSUME WalletIInv, NEW t \in Txs, CommitExpire(t)
    PROVE  WalletTypes'
<1>1. PICK l \in Lots : txn[t].of = l
    BY DEF CommitExpire, WalletIInv, TransactionsFit, TxnKnows
<1>2. /\ left' = [left EXCEPT ![l] = 0] /\ lotStatus' = [lotStatus EXCEPT ![l] = "EXPIRED"]
      /\ Move(Holder(l), "CREDIT_EXPIRATION", -txn[t].seen[l])
      /\ reward' = IF l \in Rewards THEN [reward EXCEPT ![l] = "EXPIRED"] ELSE reward
      /\ UNCHANGED <<worth, expired, source, referred, booked, bought, taken, restored, rows,
                     refunded, sent, outside, split, approved, partly>>
    BY <1>1 DEF CommitExpire, gatewayVars
<1>3. balance' \in [Clients -> Int] /\ moved' \in [Clients -> [MovementTypes -> Int]]
    <2>1. txn[t].seen \in [Lots -> Nat]
        BY DEF WalletIInv, WalletTypes, TxnStates
    <2>2. -txn[t].seen[l] \in Int /\ Holder(l) \in Clients /\ "CREDIT_EXPIRATION" \in MovementTypes
        BY <2>1, UsersAre DEF MovementTypes
    <2> QED BY <1>2, <2>2, Moved DEF WalletIInv
<1>4. txn' \in [Txs -> TxnStates]
    BY EndTypes DEF CommitExpire, WalletIInv
<1> QED
    BY <1>2, <1>3, <1>4 DEF WalletIInv, WalletTypes, WalletTypeOK, LotStatuses, RewardStatuses

\* A reversal keeps the types.
LEMMA CommitReverseTypes ==
    ASSUME WalletIInv, NEW t \in Txs, CommitReverse(t)
    PROVE  WalletTypes'
<1>1. PICK r \in Rewards : txn[t].of = r
    BY DEF CommitReverse, WalletIInv, TransactionsFit, TxnKnows
<1>2. /\ source' = [source EXCEPT ![r] = "REFUNDED"]
      /\ \/ /\ left' = [left EXCEPT ![r] = 0] /\ lotStatus' = [lotStatus EXCEPT ![r] = "REVERSED"]
            /\ Move(OwnerOf[r], "REFERRAL_REVERSAL", -RewardCents)
         \/ UNCHANGED <<left, lotStatus, balance, moved>>
      /\ \/ /\ reward' = [reward EXCEPT ![r] = "REVERSED"]
            /\ booked' = [booked EXCEPT ![r] = IF "REFERRAL_REWARD" \in @
                                               THEN @ \cup {"REFERRAL_REWARD_REVERSAL"} ELSE @]
         \/ UNCHANGED <<reward, booked>>
      /\ UNCHANGED <<worth, expired, referred, bought, taken, restored, rows, refunded, sent,
                     split, approved, partly>>
    BY <1>1 DEF CommitReverse
<1>3. balance' \in [Clients -> Int] /\ moved' \in [Clients -> [MovementTypes -> Int]]
    <2>1. -RewardCents \in Int /\ OwnerOf[r] \in Clients /\ "REFERRAL_REVERSAL" \in MovementTypes
        BY UsersAre, RewardCentsIs DEF MovementTypes
    <2>2. CASE Move(OwnerOf[r], "REFERRAL_REVERSAL", -RewardCents)
        BY <2>1, <2>2, Moved DEF WalletIInv
    <2>3. CASE UNCHANGED <<balance, moved>>
        BY <2>3 DEF WalletIInv, WalletTypes, WalletTypeOK
    <2> QED BY <1>2, <2>2, <2>3
<1>4. txn' \in [Txs -> TxnStates]
    BY EndTypes DEF CommitReverse, WalletIInv
<1>5. left' \in [Lots -> Nat] /\ lotStatus' \in [Lots -> LotStatuses]
    <2>1. left \in [Lots -> Nat] /\ lotStatus \in [Lots -> LotStatuses]
        BY DEF WalletIInv, WalletTypes, WalletTypeOK
    <2> QED BY <1>2, <2>1 DEF LotStatuses
<1>6. reward' \in [Rewards -> RewardStatuses] /\ booked' \in [Rewards -> SUBSET Postings]
    <2>1. reward \in [Rewards -> RewardStatuses] /\ booked \in [Rewards -> SUBSET Postings]
        BY DEF WalletIInv, WalletTypes, WalletTypeOK
    <2>2. reward' \in [Rewards -> RewardStatuses]
        BY <1>2, <2>1 DEF RewardStatuses
    <2>3. booked' \in [Rewards -> SUBSET Postings]
        BY <1>2, <2>1 DEF Postings
    <2> QED BY <2>2, <2>3
<1>7. source' \in [Rewards -> {"NONE", "PAID", "REFUNDED"}]
    BY <1>2 DEF WalletIInv, WalletTypes, WalletTypeOK
<1>8. outside' \in [Clients -> [OutsideTypes -> Int]]
    <2>1. partly[r] \in Nat /\ BaseCents - partly[r] \in Int
        BY WalletAssumption DEF WalletIInv, WalletTypes, WalletTypeOK
    <2>2. BuyerOf[r] \in Clients /\ "REFUND" \in OutsideTypes
        BY UsersAre DEF OutsideTypes
    <2> QED BY <1>1, <2>1, <2>2, OutsideTyped DEF CommitReverse, ToReturn, WalletIInv
<1> QED
    BY <1>2, <1>3, <1>4, <1>5, <1>6, <1>7, <1>8 DEF WalletIInv, WalletTypes, WalletTypeOK

\* A refund keeps the types.
LEMMA RefundTypes ==
    ASSUME WalletIInv, NEW b \in Buys, NEW sum, NEW seen, NEW dead, Refunding(b, sum, seen, dead),
           txn' \in [Txs -> TxnStates], outside' \in [Clients -> [OutsideTypes -> Int]]
    PROVE  WalletTypes'
<1>1. PICK gave, given : \E n \in Nat :
         GivenBack(b, rows[b], n, sum, gave) /\ Restored(b, gave, given, OwnerOf[b])
    BY RefundIs
<1>2. /\ gave \in [Lots -> Nat] /\ restored' = [restored EXCEPT ![b] = gave] /\ given \in Int
      /\ left' \in [Lots -> Nat] /\ lotStatus' \in [Lots -> LotStatuses]
      /\ reward' \in [Rewards -> RewardStatuses] /\ Move(OwnerOf[b], "REFUND", given)
    BY <1>1 DEF GivenBack, Restored
<1>3. balance' \in [Clients -> Int] /\ moved' \in [Clients -> [MovementTypes -> Int]]
    <2>1. OwnerOf[b] \in Clients /\ "REFUND" \in MovementTypes
        BY UsersAre DEF MovementTypes
    <2> QED BY <1>2, <2>1, Moved DEF WalletIInv
<1>4. /\ restored \in [Buys -> [Lots -> Nat]] /\ refunded \in [Buys -> 0..BuyCents]
      /\ bought \in [Buys -> BuyStatuses]
    BY DEF WalletIInv, WalletTypes, WalletTypeOK
<1>5. restored' \in [Buys -> [Lots -> Nat]]
    BY <1>2, <1>4
<1>6. refunded' \in [Buys -> 0..BuyCents]
    <2>1. refunded' = [refunded EXCEPT ![b] = sum] /\ sum \in 1..BuyCents
        BY DEF Refunding
    <2>2. sum \in 0..BuyCents
        BY <2>1
    <2> QED BY <1>4, <2>1, <2>2
<1>7. bought' \in [Buys -> BuyStatuses]
    BY <1>4 DEF Refunding, BuyStatuses
<1>8. UNCHANGED <<worth, expired, source, referred, booked, taken, rows, sent, split, approved, partly>>
    BY DEF Refunding
<1> QED
    BY <1>2, <1>3, <1>5, <1>6, <1>7, <1>8 DEF WalletIInv, WalletTypes, WalletTypeOK

-----------------------------------------------------------------------------
(* The payments at the gateway.                                            *)

\* What the movements of payments say stays while payments and movements stay.
LEMMA OutsideStays ==
    ASSUME OutsideFits, UNCHANGED outside,
           \A g \in Rewards \cup Buys, y \in OutsideTypes : SaysOutside(y, g)' = SaysOutside(y, g)
    PROVE  OutsideFits'
<1>1. \A y \in OutsideTypes : Says(y)' = Says(y)
    BY DEF Says
<1>2. \A u : PaidBy(u)' = PaidBy(u)
    BY DEF PaidBy, PayerOf
<1> QED
    BY <1>1, <1>2 DEF OutsideFits

\* What the movements say is a number.
LEMMA SaysInt ==
    ASSUME WalletTypes
    PROVE  \A g \in Rewards \cup Buys, y \in OutsideTypes : SaysOutside(y, g) \in Int
<1>1. /\ BaseCents \in Int /\ RestCents \in Int /\ -BaseCents \in Int /\ -RestCents \in Int
      /\ \A r \in Rewards : BaseCents - partly[r] \in Int
    BY WalletAssumption DEF WalletTypes, WalletTypeOK
<1> QED
    BY <1>1 DEF SaysOutside

\* One payment that is approved or returned is one movement more.
LEMMA OutsideMoves ==
    ASSUME WalletTypes, OutsideFits, NEW g \in Rewards \cup Buys, NEW type \in OutsideTypes,
           NEW cents \in Int, MoveOutside(PayerOf(g), type, cents),
           SaysOutside(type, g) = 0, SaysOutside(type, g)' = cents,
           \A h \in Rewards \cup Buys, y \in OutsideTypes :
               h # g \/ y # type => SaysOutside(y, h)' = SaysOutside(y, h)
    PROVE  OutsideFits'
<1> DEFINE v == PayerOf(g)
<1>1. v \in Clients
    BY UsersAre DEF PayerOf
<1>2. /\ outside'[v][type] = outside[v][type] + cents
      /\ \A u \in Clients, y \in OutsideTypes : u # v \/ y # type => outside'[u][y] = outside[u][y]
    BY <1>1, OutsideTyped
<1> SUFFICES ASSUME NEW u \in Clients, NEW y \in OutsideTypes
             PROVE  outside'[u][y] = SumOver(Says(y)', PaidBy(u))
    BY DEF OutsideFits, PaidBy, PayerOf
<1> DEFINE S == PaidBy(u)
           before == Says(y)
           after == Says(y)'
<1>3. IsFiniteSet(S) /\ S \subseteq Rewards \cup Buys
    BY WalletSetsFinite, FS_Subset DEF PaidBy
<1>4. /\ \A h \in S : before[h] = SaysOutside(y, h) /\ after[h] = SaysOutside(y, h)'
      /\ \A h \in S : before[h] \in Int
    BY <1>3, SaysInt DEF Says
<1>5. outside[u][y] = SumOver(before, S)
    BY DEF OutsideFits
<1>6. CASE u = v /\ y = type
    <2>1. g \in S
        BY <1>6 DEF PaidBy
    <2>2. before[g] = 0 /\ after[g] = cents /\ \A h \in S : h # g => after[h] = before[h]
        BY <1>3, <1>4, <1>6, <2>1
    <2> HIDE DEF before, after, S
    <2>3. SumOver(after, S) = SumOver(before, S) - before[g] + after[g]
        BY <1>3, <1>4, <2>1, <2>2, SumUpdated
    <2>4. SumOver(before, S) \in Int
        BY <1>3, <1>4, SumIsInt
    <2>5. SumOver(after, S) = SumOver(before, S) + cents
        BY <2>2, <2>3, <2>4
    <2> QED BY <1>2, <1>5, <1>6, <2>5 DEF after, S
<1>7. CASE u # v \/ y # type
    <2>1. \A h \in S : h # g \/ y # type
        BY <1>7 DEF PaidBy
    <2>2. \A h \in S : before[h] = after[h]
        BY <1>3, <1>4, <2>1
    <2> HIDE DEF before, after, S
    <2>3. SumOver(before, S) = SumOver(after, S)
        BY <1>3, <2>2, SumsAgree
    <2> QED BY <1>2, <1>5, <1>7, <2>3 DEF after, S
<1> QED
    BY <1>6, <1>7

\* No order of a reward is a purchase.
LEMMA OrdersApart == \A b \in Buys : b \notin Rewards
BY WalletAssumption

\* What is being returned is as it was when what is left alone is left alone.
LEMMA ReturnsStay ==
    ASSUME WalletIInv, NEW t \in Txs, txn' = txn \/ End(t),
           \A o \in Txs : txn'[o] # Idle => TxnReturns(txn[o], split', bought', source')
    PROVE  \A o \in Txs : TxnReturns(txn[o], split, bought, source)'
<1>1. txn \in [Txs -> TxnStates] /\ Idle.kind = "idle"
    BY DEF WalletIInv, WalletTypes, Idle
<1>2. \A o \in Txs : txn'[o] = txn[o] \/ txn'[o] = Idle
    BY <1>1 DEF End
<1> QED
    BY <1>1, <1>2 DEF TxnReturns

\* The steps that touch neither payments nor purchases.
LEMMA PaymentsStay ==
    ASSUME WalletIInv, UNCHANGED <<outside, split, approved, partly, bought, source>>,
           txn' = txn \/ \E t \in Txs : End(t)
    PROVE  PaymentsFit'
<1>1. txn \in [Txs -> TxnStates] /\ Idle.kind = "idle"
    BY DEF WalletIInv, WalletTypes, Idle
<1>2. \A o \in Txs : txn'[o] = txn[o] \/ txn'[o] = Idle
    BY <1>1 DEF End
<1>3. \A o \in Txs : TxnReturns(txn[o], split, bought, source)'
    BY <1>1, <1>2 DEF TxnReturns, WalletIInv, PaymentsFit
<1>4. OutsideFits'
    <2>1. OutsideFits
        BY DEF WalletIInv, PaymentsFit
    <2>2. \A g \in Rewards \cup Buys, y \in OutsideTypes : SaysOutside(y, g)' = SaysOutside(y, g)
        BY DEF SaysOutside
    <2> QED BY <2>1, <2>2, OutsideStays
<1> QED
    BY <1>3, <1>4 DEF WalletIInv, PaymentsFit

\* A return that begins is of what was paid.
LEMMA PaymentsBegin ==
    ASSUME WalletIInv, NEW t \in Txs, NEW kind, NEW id, NEW seen, NEW was,
           Begin(t, kind, id, seen, was),
           kind = "restore" => id \in split /\ bought[id] = "PAID",
           kind = "reverse" => source[id] = "PAID"
    PROVE  PaymentsFit'
<1>1. PICK x : /\ txn' = [txn EXCEPT ![t] = x] /\ x.kind = kind /\ x.of = id
    <2>1. PICK x : x = [kind |-> kind, of |-> id, was |-> was, dead |-> Dead \cap seen,
                        seen |-> [l \in Lots |-> IF l \in seen THEN left[l] ELSE 0]]
        OBVIOUS
    <2>2. x.kind = kind /\ x.of = id
        BY <2>1
    <2> QED BY <2>1, <2>2 DEF Begin
<1>2. txn \in [Txs -> TxnStates] /\ UNCHANGED <<outside, split, approved, partly, bought, source>>
    BY DEF WalletIInv, WalletTypes, Begin, gatewayVars
<1>3. \A o \in Txs : txn'[o] = txn[o] \/ txn'[o] = x
    BY <1>1, <1>2
<1>4. \A o \in Txs : TxnReturns(txn[o], split, bought, source)'
    BY <1>1, <1>2, <1>3 DEF TxnReturns, WalletIInv, PaymentsFit
<1>5. OutsideFits'
    <2>1. OutsideFits
        BY DEF WalletIInv, PaymentsFit
    <2>2. \A g \in Rewards \cup Buys, y \in OutsideTypes : SaysOutside(y, g)' = SaysOutside(y, g)
        BY <1>2 DEF SaysOutside
    <2> QED BY <1>2, <2>1, <2>2, OutsideStays
<1> QED
    BY <1>2, <1>4, <1>5 DEF WalletIInv, PaymentsFit

\* An approval of the order of a reward is one movement.
LEMMA PaySourcePayments ==
    ASSUME WalletIInv, NEW r \in Rewards, NEW fulfilled, PaySource(r, fulfilled)
    PROVE  PaymentsFit'
<1>1. /\ source[r] = "NONE" /\ source' = [source EXCEPT ![r] = "PAID"] /\ approved' = approved \cup {r}
      /\ MoveOutside(BuyerOf[r], "PURCHASE", -BaseCents) /\ UNCHANGED <<bought, txn, split, partly>>
    BY DEF PaySource
<1>2. /\ source \in [Rewards -> {"NONE", "PAID", "REFUNDED"}] /\ r \notin approved
      /\ -BaseCents \in Int /\ "PURCHASE" \in OutsideTypes
    BY <1>1, WalletAssumption DEF WalletIInv, WalletTypes, WalletTypeOK, PaymentsFit, OutsideTypes
<1>3. \A t \in Txs : TxnReturns(txn[t], split, bought, source)'
    <2>1. \A q \in Rewards : source[q] = "PAID" => source'[q] = "PAID"
        BY <1>1, <1>2
    <2>2. \A t \in Txs : txn[t].kind = "reverse" => txn[t].of \in Rewards
        BY DEF WalletIInv, TransactionsFit, TxnKnows
    <2> QED BY <1>1, <2>1, <2>2 DEF TxnReturns, WalletIInv, PaymentsFit
<1>4. OutsideFits'
    <2>1. SaysOutside("PURCHASE", r) = 0 /\ SaysOutside("PURCHASE", r)' = -BaseCents
        BY <1>1, <1>2 DEF SaysOutside
    <2>2. ASSUME NEW h \in Rewards \cup Buys, NEW y \in OutsideTypes, h # r \/ y # "PURCHASE"
          PROVE  SaysOutside(y, h)' = SaysOutside(y, h)
        <3>1. CASE h # r
            BY <1>1, <1>2, <3>1 DEF SaysOutside
        <3>2. CASE h = r /\ y # "PURCHASE"
            BY <1>1, <1>2, <3>2 DEF SaysOutside
        <3> QED BY <2>2, <3>1, <3>2
    <2>3. MoveOutside(PayerOf(r), "PURCHASE", -BaseCents)
        BY <1>1 DEF PayerOf
    <2> QED BY <1>2, <2>1, <2>2, <2>3, OutsideMoves DEF WalletIInv, PaymentsFit
<1>5. \A b \in Buys : b \in approved' => b \in approved
    BY <1>1, OrdersApart
<1> QED
    BY <1>1, <1>2, <1>3, <1>4, <1>5 DEF WalletIInv, PaymentsFit

\* A return in part is none.
LEMMA ReturnSomePayments ==
    ASSUME WalletIInv, NEW r \in Rewards, NEW sum, ReturnSome(r, sum)
    PROVE  PaymentsFit'
<1>1. /\ source[r] \in {"NONE", "PAID"} /\ source' = [source EXCEPT ![r] = "PAID"]
      /\ partly' = [partly EXCEPT ![r] = sum] /\ UNCHANGED <<bought, txn, split, outside, approved>>
    BY DEF ReturnSome
<1>2. /\ source \in [Rewards -> {"NONE", "PAID", "REFUNDED"}] /\ partly \in [Rewards -> Nat]
    BY DEF WalletIInv, WalletTypes, WalletTypeOK
<1>3. \A t \in Txs : TxnReturns(txn[t], split, bought, source)'
    <2>1. \A q \in Rewards : source[q] = "PAID" => source'[q] = "PAID"
        BY <1>1, <1>2
    <2>2. \A t \in Txs : txn[t].kind = "reverse" => txn[t].of \in Rewards
        BY DEF WalletIInv, TransactionsFit, TxnKnows
    <2> QED BY <1>1, <2>1, <2>2 DEF TxnReturns, WalletIInv, PaymentsFit
<1>4. OutsideFits'
    <2>1. ASSUME NEW h \in Rewards \cup Buys, NEW y \in OutsideTypes
          PROVE  SaysOutside(y, h)' = SaysOutside(y, h)
        <3>1. CASE h # r
            BY <1>1, <1>2, <3>1 DEF SaysOutside
        <3>2. CASE h = r
            BY <1>1, <1>2, <3>2 DEF SaysOutside
        <3> QED BY <3>1, <3>2
    <2> QED BY <1>1, <2>1, OutsideStays DEF WalletIInv, PaymentsFit
<1>5. \A q \in Rewards : source[q] # "NONE" => source'[q] # "NONE"
    BY <1>1, <1>2
<1> QED
    BY <1>1, <1>3, <1>4, <1>5 DEF WalletIInv, PaymentsFit

\* An approval of what credit does not cover is one movement.
LEMMA SettlePayments ==
    ASSUME WalletIInv, NEW b \in Buys, NEW status \in {"PAID", "EXPIRED"}, Settle(b, status)
    PROVE  PaymentsFit'
<1>1. /\ bought[b] \in {"PENDING", "EXPIRED"} /\ bought' = [bought EXCEPT ![b] = status]
      /\ UNCHANGED <<source, txn, split, partly>>
      /\ IF b \in split /\ status = "PAID"
         THEN approved' = approved \cup {b} /\ MoveOutside(OwnerOf[b], "PURCHASE", -RestCents)
         ELSE UNCHANGED <<approved, outside>>
    BY DEF Settle
<1>2. /\ bought \in [Buys -> BuyStatuses] /\ b \notin approved /\ b \notin Rewards
      /\ -RestCents \in Int /\ "PURCHASE" \in OutsideTypes
    <2>1. bought \in [Buys -> BuyStatuses]
        BY DEF WalletIInv, WalletTypes
    <2>2. b \notin approved
        <3>1. b \in approved => bought[b] \in {"PAID", "REFUNDED"}
            BY DEF WalletIInv, PaymentsFit
        <3> QED BY <1>1, <3>1
    <2>3. -RestCents \in Int /\ "PURCHASE" \in OutsideTypes
        BY WalletAssumption DEF OutsideTypes
    <2> QED BY <2>1, <2>2, <2>3, OrdersApart
<1>3. \A t \in Txs : TxnReturns(txn[t], split, bought, source)'
    <2>1. \A c \in Buys : bought[c] = "PAID" => bought'[c] = "PAID"
        BY <1>1, <1>2
    <2>2. \A t \in Txs : txn[t].kind = "restore" => txn[t].of \in Buys
        BY DEF WalletIInv, TransactionsFit, TxnKnows
    <2> QED BY <1>1, <2>1, <2>2 DEF TxnReturns, WalletIInv, PaymentsFit
<1>4. \A c \in Buys : c # b => bought'[c] = bought[c]
    BY <1>1, <1>2
<1>5. bought'[b] = status
    BY <1>1, <1>2
<1>6. OutsideFits'
    <2>1. CASE b \in split /\ status = "PAID"
        <3>1. SaysOutside("PURCHASE", b) = 0 /\ SaysOutside("PURCHASE", b)' = -RestCents
            BY <1>1, <1>2, <2>1 DEF SaysOutside
        <3>2. ASSUME NEW h \in Rewards \cup Buys, NEW y \in OutsideTypes, h # b \/ y # "PURCHASE"
              PROVE  SaysOutside(y, h)' = SaysOutside(y, h)
            <4>1. CASE h # b
                BY <1>1, <1>2, <1>4, <2>1, <4>1 DEF SaysOutside
            <4>2. CASE h = b /\ y # "PURCHASE"
                BY <1>1, <1>2, <1>5, <2>1, <4>2 DEF SaysOutside
            <4> QED BY <3>2, <4>1, <4>2
        <3>3. MoveOutside(PayerOf(b), "PURCHASE", -RestCents)
            BY <1>1, <1>2, <2>1 DEF PayerOf
        <3> QED BY <1>2, <3>1, <3>2, <3>3, OutsideMoves DEF WalletIInv, PaymentsFit
    <2>2. CASE ~(b \in split /\ status = "PAID")
        <3>1. UNCHANGED <<approved, outside>>
            BY <1>1, <2>2
        <3>2. ASSUME NEW h \in Rewards \cup Buys, NEW y \in OutsideTypes
              PROVE  SaysOutside(y, h)' = SaysOutside(y, h)
            <4>1. CASE h # b
                BY <1>1, <1>4, <3>1, <4>1 DEF SaysOutside
            <4>2. CASE h = b
                BY <1>1, <1>2, <1>5, <3>1, <4>2 DEF SaysOutside
            <4> QED BY <4>1, <4>2
        <3> QED BY <3>1, <3>2, OutsideStays DEF WalletIInv, PaymentsFit
    <2> QED BY <2>1, <2>2
<1>7. ASSUME NEW c \in Buys, c \in approved'
      PROVE  c \in split /\ bought'[c] \in {"PAID", "REFUNDED"}
    <2>1. CASE c = b
        BY <1>1, <1>2, <1>5, <1>7, <2>1
    <2>2. CASE c # b
        BY <1>1, <1>4, <1>7, <2>2 DEF WalletIInv, PaymentsFit
    <2> QED BY <2>1, <2>2
<1>8. \A r \in Rewards : r \in approved' => r \in approved
    BY <1>1, <1>2
<1> QED
    BY <1>1, <1>3, <1>6, <1>7, <1>8 DEF WalletIInv, PaymentsFit

\* A purchase that is made was not paid at the gateway yet.
LEMMA CommitBuyPayments ==
    ASSUME WalletIInv, NEW t \in Txs, CommitBuy(t)
    PROVE  PaymentsFit'
<1>1. PICK b \in Buys : txn[t].of = b /\ bought[b] = "NONE"
    BY DEF CommitBuy, WalletIInv, TransactionsFit, TxnKnows
<1>2. /\ bought' = [bought EXCEPT ![b] = "PENDING"] /\ split' \in {split, split \cup {b}} /\ End(t)
      /\ UNCHANGED <<outside, approved, partly, source>>
    BY <1>1 DEF CommitBuy
<1>3. bought \in [Buys -> BuyStatuses] /\ b \notin approved /\ b \notin Rewards
    BY <1>1, OrdersApart DEF WalletIInv, WalletTypes, PaymentsFit
<1>4. (\A c \in Buys : c # b => bought'[c] = bought[c]) /\ bought'[b] = "PENDING"
    BY <1>2, <1>3
<1>5. \A o \in Txs : TxnReturns(txn[o], split, bought, source)'
    <2>1. \A o \in Txs : txn[o].kind = "restore" => txn[o].of \in Buys
        BY DEF WalletIInv, TransactionsFit, TxnKnows
    <2>2. \A o \in Txs : TxnReturns(txn[o], split', bought', source')
        BY <1>1, <1>2, <1>4, <2>1 DEF TxnReturns, WalletIInv, PaymentsFit
    <2> QED BY <1>2, <2>2, ReturnsStay
<1>6. OutsideFits'
    <2>1. ASSUME NEW h \in Rewards \cup Buys, NEW y \in OutsideTypes
          PROVE  SaysOutside(y, h)' = SaysOutside(y, h)
        <3>1. CASE h # b
            BY <1>2, <1>4, <3>1 DEF SaysOutside
        <3>2. CASE h = b
            BY <1>1, <1>2, <1>3, <1>4, <3>2 DEF SaysOutside
        <3> QED BY <3>1, <3>2
    <2> QED BY <1>2, <2>1, OutsideStays DEF WalletIInv, PaymentsFit
<1> QED
    BY <1>2, <1>3, <1>4, <1>5, <1>6 DEF WalletIInv, PaymentsFit

\* The return of the order of a reward is one movement, of what is left of it.
LEMMA CommitReversePayments ==
    ASSUME WalletIInv, NEW t \in Txs, CommitReverse(t)
    PROVE  PaymentsFit'
<1>1. PICK r \in Rewards : txn[t].of = r /\ txn[t].kind = "reverse" /\ source[r] = "PAID"
    BY DEF CommitReverse, WalletIInv, TransactionsFit, TxnKnows, PaymentsFit, TxnReturns
<1>2. /\ source' = [source EXCEPT ![r] = "REFUNDED"]
      /\ MoveOutside(BuyerOf[r], "REFUND", BaseCents - partly[r]) /\ End(t)
      /\ UNCHANGED <<split, approved, partly, bought>>
    BY <1>1 DEF CommitReverse, ToReturn
<1>3. /\ source \in [Rewards -> {"NONE", "PAID", "REFUNDED"}] /\ BaseCents - partly[r] \in Int
      /\ "REFUND" \in OutsideTypes /\ txn \in [Txs -> TxnStates]
    BY WalletAssumption DEF WalletIInv, WalletTypes, WalletTypeOK, OutsideTypes
<1>4. (\A q \in Rewards : q # r => source'[q] = source[q]) /\ source'[r] = "REFUNDED"
    BY <1>2, <1>3
<1>5. \A o \in Txs : TxnReturns(txn[o], split, bought, source)'
    <2>1. ASSUME NEW o \in Txs, txn'[o] # Idle PROVE TxnReturns(txn[o], split', bought', source')
        <3>1. o # t
            BY <1>2, <1>3, <2>1 DEF End
        <3>2. txn[o].kind = "reverse" => txn[o].of \in Rewards /\ txn[o].of # r
            BY <1>1, <3>1 DEF WalletIInv, TransactionsFit, TxnKnows, Apart
        <3> QED BY <1>2, <1>4, <3>2 DEF TxnReturns, WalletIInv, PaymentsFit
    <2> QED BY <1>2, <2>1, ReturnsStay
<1>6. OutsideFits'
    <2>1. SaysOutside("REFUND", r) = 0 /\ SaysOutside("REFUND", r)' = BaseCents - partly[r]
        BY <1>1, <1>2, <1>4 DEF SaysOutside
    <2>2. ASSUME NEW h \in Rewards \cup Buys, NEW y \in OutsideTypes, h # r \/ y # "REFUND"
          PROVE  SaysOutside(y, h)' = SaysOutside(y, h)
        <3>1. CASE h # r
            BY <1>2, <1>4, <3>1 DEF SaysOutside
        <3>2. CASE y # "REFUND"
            BY <1>2, <3>2 DEF SaysOutside, OutsideTypes
        <3> QED BY <2>2, <3>1, <3>2
    <2>3. MoveOutside(PayerOf(r), "REFUND", BaseCents - partly[r])
        BY <1>2 DEF PayerOf
    <2> QED BY <1>3, <2>1, <2>2, <2>3, OutsideMoves DEF WalletIInv, PaymentsFit
<1> QED
    BY <1>2, <1>4, <1>5, <1>6 DEF WalletIInv, PaymentsFit

\* A refund by the platform is none of the gateway's.
LEMMA RefundBuyPayments ==
    ASSUME WalletIInv, NEW b \in Buys, NEW cents \in 1..BuyCents, RefundBuy(b, cents)
    PROVE  PaymentsFit'
<1>1. /\ b \notin split /\ b \notin Rewards
      /\ UNCHANGED <<txn, outside, split, approved, partly, source>>
      /\ bought \in [Buys -> BuyStatuses] /\ \A c \in Buys : c # b => bought'[c] = bought[c]
    BY OrdersApart DEF RefundBuy, gatewayVars, WalletIInv, WalletTypes
<1>2. b \notin approved
    BY <1>1 DEF WalletIInv, PaymentsFit
<1>3. \A t \in Txs : TxnReturns(txn[t], split, bought, source)'
    <2>1. \A t \in Txs : txn[t].kind = "restore" => txn[t].of \in Buys /\ txn[t].of # b
        BY <1>1 DEF WalletIInv, TransactionsFit, TxnKnows, PaymentsFit, TxnReturns
    <2> QED BY <1>1, <2>1 DEF TxnReturns, WalletIInv, PaymentsFit
<1>4. OutsideFits'
    <2>1. ASSUME NEW h \in Rewards \cup Buys, NEW y \in OutsideTypes
          PROVE  SaysOutside(y, h)' = SaysOutside(y, h)
        <3>1. CASE h # b
            BY <1>1, <3>1 DEF SaysOutside
        <3>2. CASE h = b
            BY <1>1, <3>2 DEF SaysOutside
        <3> QED BY <3>1, <3>2
    <2> QED BY <1>1, <2>1, OutsideStays DEF WalletIInv, PaymentsFit
<1> QED
    BY <1>1, <1>2, <1>3, <1>4 DEF WalletIInv, PaymentsFit

\* The return of what credit did not cover is one movement.
LEMMA CommitRestorePayments ==
    ASSUME WalletIInv, NEW t \in Txs, CommitRestore(t)
    PROVE  PaymentsFit'
<1>1. PICK b \in Buys : \E seen, dead :
          /\ txn[t].of = b /\ txn[t].kind = "restore" /\ b \in split /\ bought[b] = "PAID"
          /\ Refunding(b, BuyCents, seen, dead) /\ bought' = [bought EXCEPT ![b] = "REFUNDED"]
          /\ End(t) /\ MoveOutside(OwnerOf[b], "REFUND", RestCents)
    BY CommitRestoreIs
<1>2. /\ UNCHANGED <<split, approved, partly, source>>
      /\ bought' = [bought EXCEPT ![b] = "REFUNDED"] /\ End(t)
      /\ MoveOutside(OwnerOf[b], "REFUND", RestCents)
    BY <1>1 DEF Refunding
<1>3. /\ bought \in [Buys -> BuyStatuses] /\ b \notin Rewards /\ RestCents \in Int
      /\ "REFUND" \in OutsideTypes /\ txn \in [Txs -> TxnStates]
    BY OrdersApart, WalletAssumption DEF WalletIInv, WalletTypes, OutsideTypes
<1>4. (\A c \in Buys : c # b => bought'[c] = bought[c]) /\ bought'[b] = "REFUNDED"
    BY <1>2, <1>3
<1>5. \A o \in Txs : TxnReturns(txn[o], split, bought, source)'
    <2>1. ASSUME NEW o \in Txs, txn'[o] # Idle PROVE TxnReturns(txn[o], split', bought', source')
        <3>1. o # t
            BY <1>2, <1>3, <2>1 DEF End
        <3>2. txn[o].kind = "restore" => txn[o].of \in Buys /\ txn[o].of # b
            BY <1>1, <3>1 DEF WalletIInv, TransactionsFit, TxnKnows, Apart
        <3> QED BY <1>2, <1>4, <3>2 DEF TxnReturns, WalletIInv, PaymentsFit
    <2> QED BY <1>2, <2>1, ReturnsStay
<1>6. OutsideFits'
    <2>1. SaysOutside("REFUND", b) = 0 /\ SaysOutside("REFUND", b)' = RestCents
        BY <1>1, <1>2, <1>3, <1>4 DEF SaysOutside
    <2>2. ASSUME NEW h \in Rewards \cup Buys, NEW y \in OutsideTypes, h # b \/ y # "REFUND"
          PROVE  SaysOutside(y, h)' = SaysOutside(y, h)
        <3>1. CASE h # b
            BY <1>2, <1>4, <3>1 DEF SaysOutside
        <3>2. CASE y # "REFUND"
            BY <1>2, <3>2 DEF SaysOutside, OutsideTypes
        <3> QED BY <2>2, <3>1, <3>2
    <2>3. MoveOutside(PayerOf(b), "REFUND", RestCents)
        BY <1>2, <1>3 DEF PayerOf
    <2> QED BY <1>3, <2>1, <2>2, <2>3, OutsideMoves DEF WalletIInv, PaymentsFit
<1> QED
    BY <1>2, <1>4, <1>5, <1>6 DEF WalletIInv, PaymentsFit

-----------------------------------------------------------------------------
(* The wallet.                                                             *)

\* A step keeps all parts of the invariant.
LEMMA WalletStep ==
    ASSUME WalletIInv, [WalletNext]_walletVars
    PROVE  WalletIInv'
<1>1. RewardsFit'
    BY RewardsKept
<1>2. ASSUME WalletTypes', PaymentsFit', UNCHANGED <<balance, moved, bought, sent, booked>>,
             UNCHANGED <<taken, restored, rows, refunded, txn>>
      PROVE  WalletIInv'
    <2>1. AccountsFit' /\ PurchasesFit'
        BY <1>2, AccountsStay, PurchasesStay DEF WalletIInv
    <2>2. TransactionsFit'
        BY <1>2 DEF WalletIInv, TransactionsFit, TransfersWithinLimit
    <2> QED BY <1>1, <1>2, <2>1, <2>2 DEF WalletIInv
<1>3. ASSUME NEW r \in Rewards, Associate(r) \/ Lapse(r) PROVE WalletIInv'
    <2>1. WalletTypes' /\ PaymentsFit'
        BY <1>3, PlainTypes, PaymentsStay DEF WalletIInv, Associate, Lapse, gatewayVars
    <2> QED BY <1>2, <1>3, <2>1 DEF Associate, Lapse
<1>4. ASSUME NEW r \in Rewards, NEW fulfilled \in BOOLEAN, PaySource(r, fulfilled) PROVE WalletIInv'
    <2>1. WalletTypes' /\ PaymentsFit'
        BY <1>4, PaymentTypes, PaySourcePayments DEF WalletIInv
    <2> QED BY <1>2, <1>4, <2>1 DEF PaySource
<1>5. ASSUME NEW r \in Rewards, NEW sum \in 1..BaseCents, ReturnSome(r, sum) PROVE WalletIInv'
    <2>1. WalletTypes' /\ PaymentsFit'
        BY <1>5, PaymentTypes, ReturnSomePayments DEF WalletIInv
    <2> QED BY <1>2, <1>5, <2>1 DEF ReturnSome
<1>6. ASSUME NEW r \in Rewards, Release(r) PROVE WalletIInv'
    <2>1. UNCHANGED <<bought, sent, taken, restored, rows, refunded, txn>>
        BY <1>6 DEF Release
    <2>2. WalletTypes' /\ AccountsFit' /\ PurchasesFit'
        BY <1>6, <2>1, ReleaseTypes, ReleaseAccounts, PurchasesStay DEF WalletIInv
    <2>3. TransactionsFit'
        BY <2>1 DEF WalletIInv, TransactionsFit, TransfersWithinLimit
    <2>4. PaymentsFit'
        BY <1>6, PaymentsStay DEF Release, gatewayVars
    <2> QED BY <1>1, <2>2, <2>3, <2>4 DEF WalletIInv
<1>7. ASSUME NEW t \in Txs, NEW kind \in TxnKinds,
             NEW id \in Buys \cup Transfers \cup Lots, NEW seen, NEW was \in RewardStatuses,
             Begin(t, kind, id, seen, was), TransactionsFit',
             kind = "restore" => id \in split /\ bought[id] = "PAID",
             kind = "reverse" => source[id] = "PAID"
      PROVE  WalletIInv'
    <2>1. UNCHANGED <<balance, moved, bought, sent, booked, taken, restored, rows, refunded>>
        BY <1>7 DEF Begin
    <2>2. WalletTypes' /\ PaymentsFit'
        BY <1>7, BeginTypes, PaymentsBegin DEF WalletIInv
    <2>3. AccountsFit' /\ PurchasesFit'
        BY <2>1, AccountsStay, PurchasesStay DEF WalletIInv
    <2> QED BY <1>1, <1>7, <2>2, <2>3 DEF WalletIInv
<1>8. ASSUME NEW t \in Txs, NEW b \in Buys, BeginBuy(t, b) PROVE WalletIInv'
    BY <1>7, <1>8, BeginBuyTransactions DEF BeginBuy, RewardStatuses, TxnKinds
<1>9. ASSUME NEW t \in Txs, NEW x \in Transfers, BeginSend(t, x) PROVE WalletIInv'
    BY <1>7, <1>9, BeginSendTransactions DEF BeginSend, RewardStatuses, TxnKinds
<1>10. ASSUME NEW t \in Txs, NEW l \in Lots, BeginExpire(t, l) PROVE WalletIInv'
    BY <1>7, <1>10, BeginOtherTransactions DEF BeginExpire, RewardStatuses, TxnKinds
<1>11. ASSUME NEW t \in Txs, NEW r \in Rewards, BeginReverse(t, r) PROVE WalletIInv'
    <2>1. r \in Lots /\ reward[r] \in RewardStatuses
        BY DEF Lots, WalletIInv, WalletTypes, WalletTypeOK
    <2>2. TransactionsFit'
        BY <1>11, <2>1, BeginOtherTransactions
    <2> QED BY <1>7, <1>11, <2>1, <2>2 DEF BeginReverse, TxnKinds
<1>12. ASSUME NEW t \in Txs, NEW b \in Buys, BeginRestore(t, b) PROVE WalletIInv'
    BY <1>7, <1>12, BeginRestoreTransactions DEF BeginRestore, RewardStatuses, TxnKinds
<1>13. ASSUME NEW t \in Txs, CommitBuy(t) PROVE WalletIInv'
    BY <1>1, <1>13, CommitBuyTypes, CommitBuyAccounts, CommitBuyPurchases, CommitBuyTransactions,
       CommitBuyPayments
    DEF WalletIInv
<1>14. ASSUME NEW t \in Txs, CommitSend(t) PROVE WalletIInv'
    <2>1. PurchasesFit' /\ PaymentsFit'
        BY <1>14, PurchasesStay, PaymentsStay DEF CommitSend, WalletIInv, gatewayVars
    <2> QED BY <1>1, <1>14, <2>1, CommitSendTypes, CommitSendAccounts, CommitSendTransactions DEF WalletIInv
<1>15. ASSUME NEW t \in Txs, End(t), UNCHANGED <<bought, sent, taken, restored, rows, refunded>>,
              WalletTypes', AccountsFit', PaymentsFit'
       PROVE  WalletIInv'
    <2>1. PurchasesFit'
        BY <1>15, PurchasesStay DEF WalletIInv
    <2>2. TransactionsFit'
        BY <1>15, TransactionsEnd
    <2> QED BY <1>1, <1>15, <2>1, <2>2 DEF WalletIInv
<1>16. ASSUME NEW t \in Txs, CommitExpire(t) PROVE WalletIInv'
    <2>1. PaymentsFit'
        BY <1>16, PaymentsStay DEF CommitExpire, gatewayVars
    <2> QED BY <1>15, <1>16, <2>1, CommitExpireTypes, CommitExpireAccounts DEF CommitExpire
<1>17. ASSUME NEW t \in Txs, CommitReverse(t) PROVE WalletIInv'
    BY <1>15, <1>17, CommitReverseTypes, CommitReverseAccounts, CommitReversePayments DEF CommitReverse
<1>18. ASSUME NEW t \in Txs, Abort(t) PROVE WalletIInv'
    <2>1. WalletTypes' /\ AccountsFit' /\ PaymentsFit'
        BY <1>18, PlainTypes, AccountsStay, PaymentsStay DEF WalletIInv, Abort, gatewayVars
    <2> QED BY <1>15, <1>18, <2>1 DEF Abort
<1>19. ASSUME UNCHANGED <<sent, txn>>, \A c \in Buys : bought[c] = "NONE" => bought'[c] = "NONE"
       PROVE  TransactionsFit'
    <2>1. ASSUME NEW t \in Txs PROVE TransactionsFit'
        BY <1>19, TransactionsEnd
    <2>2. CASE Txs = {}
        BY <1>19, <2>2 DEF WalletIInv, TransactionsFit, TransfersWithinLimit
    <2> QED BY <2>1, <2>2
<1>20. ASSUME NEW b \in Buys, NEW status \in {"PAID", "EXPIRED"}, Settle(b, status) PROVE WalletIInv'
    <2>1. WalletTypes' /\ AccountsFit' /\ PurchasesFit' /\ PaymentsFit'
        BY <1>20, PaymentTypes, SettleAccounts, SettlePurchases, SettlePayments DEF WalletIInv
    <2>2. /\ bought' = [bought EXCEPT ![b] = status] /\ bought[b] \in {"PENDING", "EXPIRED"}
          /\ UNCHANGED <<sent, txn>> /\ bought \in [Buys -> BuyStatuses]
        BY <1>20 DEF Settle, WalletIInv, WalletTypes
    <2>3. \A c \in Buys : bought[c] = "NONE" => bought'[c] = "NONE"
        BY <2>2
    <2>4. TransactionsFit'
        BY <1>19, <2>2, <2>3
    <2> QED BY <1>1, <2>1, <2>4 DEF WalletIInv
<1>21. ASSUME NEW b \in Buys, NEW cents \in 1..BuyCents, RefundBuy(b, cents) PROVE WalletIInv'
    <2>1. PICK sum, seen, dead : Refunding(b, sum, seen, dead)
        BY <1>21, RefundBuyIs
    <2>2. UNCHANGED <<txn, outside>>
        BY <1>21, RefundBuyIs
    <2>3. WalletTypes' /\ AccountsFit' /\ PurchasesFit' /\ PaymentsFit'
        <3>1. txn' \in [Txs -> TxnStates] /\ outside' \in [Clients -> [OutsideTypes -> Int]]
            BY <2>2 DEF WalletIInv, WalletTypes, WalletTypeOK
        <3> QED BY <1>21, <2>1, <3>1, RefundTypes, RefundAccounts, RefundPurchases, RefundBuyPayments
    <2>4. \A c \in Buys : bought[c] = "NONE" => bought'[c] = "NONE"
        BY <2>1 DEF Refunding, WalletIInv, WalletTypes
    <2>5. TransactionsFit'
        BY <1>19, <2>1, <2>2, <2>4 DEF Refunding
    <2> QED BY <1>1, <2>3, <2>5 DEF WalletIInv
<1>22. ASSUME NEW t \in Txs, CommitRestore(t) PROVE WalletIInv'
    <2>1. PICK b \in Buys : \E seen, dead :
              /\ Refunding(b, BuyCents, seen, dead)
              /\ End(t) /\ MoveOutside(OwnerOf[b], "REFUND", RestCents)
        BY <1>22, CommitRestoreIs
    <2>2. PICK seen, dead : Refunding(b, BuyCents, seen, dead)
        BY <2>1
    <2>3. txn' \in [Txs -> TxnStates] /\ outside' \in [Clients -> [OutsideTypes -> Int]]
        <3>1. OwnerOf[b] \in Clients /\ "REFUND" \in OutsideTypes /\ RestCents \in Int
            BY UsersAre, WalletAssumption DEF OutsideTypes
        <3> QED BY <2>1, <3>1, EndTypes, OutsideTyped DEF WalletIInv
    <2>4. WalletTypes' /\ AccountsFit' /\ PurchasesFit' /\ PaymentsFit'
        BY <1>22, <2>2, <2>3, RefundTypes, RefundAccounts, RefundPurchases, CommitRestorePayments
    <2>5. \A c \in Buys : bought[c] = "NONE" => bought'[c] = "NONE"
        BY <2>2 DEF Refunding, WalletIInv, WalletTypes
    <2>6. TransactionsFit'
        BY <2>1, <2>2, <2>5, TransactionsEnd DEF Refunding
    <2> QED BY <1>1, <2>4, <2>6 DEF WalletIInv
<1>23. CASE UNCHANGED walletVars
    <2>1. WalletTypes' /\ PaymentsFit'
        BY <1>23, PlainTypes, PaymentsStay DEF WalletIInv, walletVars, gatewayVars
    <2> QED BY <1>2, <1>23, <2>1 DEF walletVars
<1> QED
    BY <1>3, <1>4, <1>5, <1>6, <1>8, <1>9, <1>10, <1>11, <1>12, <1>13, <1>14, <1>16, <1>17, <1>18,
       <1>20, <1>21, <1>22, <1>23
    DEF WalletNext

\* What is still to come has cost nobody anything.
LEMMA InitWallet == ASSUME WalletInit PROVE WalletIInv
<1> DEFINE opening(u) == FundCents * Cardinality({f \in Funds : OwnerOf[f] = u})
           m(u) == [k \in MovementTypes |-> IF k = "TOP_UP" THEN opening(u) ELSE 0]
           none == [l \in Lots |-> 0]
<1>1. /\ balance = [u \in Clients |-> opening(u)] /\ moved = [u \in Clients |-> m(u)]
      /\ left = [l \in Lots |-> IF l \in Funds THEN FundCents ELSE 0]
      /\ lotStatus = [l \in Lots |-> IF l \in Funds THEN "AVAILABLE" ELSE "NONE"]
      /\ worth = left /\ expired = {} /\ reward = [r \in Rewards |-> "NONE"]
      /\ source = [r \in Rewards |-> "NONE"] /\ referred = {}
      /\ booked = [r \in Rewards |-> {}] /\ bought = [b \in Buys |-> "NONE"]
      /\ taken = [b \in Buys |-> none] /\ restored = taken /\ rows = [b \in Buys |-> <<>>]
      /\ refunded = [b \in Buys |-> 0] /\ sent = {} /\ txn = [t \in Txs |-> Idle]
      /\ outside = [u \in Clients |-> [k \in OutsideTypes |-> 0]]
      /\ split = {} /\ approved = {} /\ partly = [r \in Rewards |-> 0]
    BY DEF WalletInit
<1>2. /\ FundCents \in Nat /\ BuyCents \in Nat /\ BuyCents > 0 /\ SendCents \in Nat /\ DailyLimit \in Nat
    BY WalletAssumption
<1>3. ASSUME NEW u PROVE opening(u) \in Nat
    <2>1. IsFiniteSet({f \in Funds : OwnerOf[f] = u})
        BY WalletSetsFinite, FS_Subset
    <2>2. Cardinality({f \in Funds : OwnerOf[f] = u}) \in Nat
        BY <2>1, FS_CardinalityType
    <2> QED BY <1>2, <2>2
<1> HIDE DEF opening
<1>4. WalletTypes
    <2>1. balance \in [Clients -> Int]
        BY <1>1, <1>3
    <2>2. \A u \in Clients : m(u) \in [MovementTypes -> Int]
        BY <1>3
    <2> HIDE DEF m
    <2>3. moved \in [Clients -> [MovementTypes -> Int]]
        BY <1>1, <2>2
    <2>4. left \in [Lots -> Nat] /\ worth \in [Lots -> Nat] /\ lotStatus \in [Lots -> LotStatuses]
        BY <1>1, <1>2 DEF LotStatuses
    <2>5. /\ reward \in [Rewards -> RewardStatuses] /\ source \in [Rewards -> {"NONE", "PAID", "REFUNDED"}]
          /\ expired \subseteq Rewards /\ referred \subseteq Rewards /\ sent \subseteq Transfers
          /\ booked \in [Rewards -> SUBSET Postings]
        BY <1>1 DEF RewardStatuses
    <2>6. none \in [Lots -> Nat]
        OBVIOUS
    <2> HIDE DEF none
    <2>7. taken \in [Buys -> [Lots -> Nat]] /\ restored \in [Buys -> [Lots -> Nat]]
        BY <1>1, <2>6
    <2>8. Idle \in TxnStates
        BY DEF TxnStates, TxnKinds, Idle, RewardStatuses
    <2>9. txn \in [Txs -> TxnStates]
        BY <1>1, <2>8
    <2>10. /\ bought \in [Buys -> BuyStatuses] /\ refunded \in [Buys -> 0..BuyCents] /\ DOMAIN rows = Buys
        BY <1>1, <1>2 DEF BuyStatuses
    <2>11. /\ outside \in [Clients -> [OutsideTypes -> Int]] /\ split \subseteq Buys
           /\ approved \subseteq Rewards \cup Buys /\ partly \in [Rewards -> Nat]
        BY <1>1
    <2> QED BY <2>1, <2>3, <2>4, <2>5, <2>7, <2>9, <2>10, <2>11 DEF WalletTypes, WalletTypeOK
<1>5. AccountsFit
    <2> SUFFICES ASSUME NEW u \in Clients
                 PROVE  AccountFits(u, balance[u], moved[u], bought, sent, booked)
        BY DEF AccountsFit
    <2>1. balance[u] = opening(u) /\ moved[u] = m(u)
        BY <1>1
    <2>2. Bought(bought, u) = {} /\ SentBy(sent, u) = {} /\ SentTo(sent, u) = {} /\ Rewarded(booked, u) = {}
        BY <1>1 DEF Bought, SentBy, SentTo, Rewarded
    <2>3. Cardinality({}) = 0
        BY FS_EmptySet
    <2>4. \A x \in {"PURCHASE", "TRANSFER_OUT", "TRANSFER_IN", "REFERRAL_REWARD"} : m(u)[x] = 0
        BY DEF MovementTypes
    <2>5. SumOver(m(u), MovementTypes) = opening(u)
        <3> DEFINE zeros == [k \in MovementTypes |-> 0]
                   g == m(u)
        <3>1. SumOver(zeros, MovementTypes) = 0
            BY WalletSetsFinite, SumOfZeros
        <3>2. /\ "TOP_UP" \in MovementTypes /\ g["TOP_UP"] = opening(u) /\ zeros["TOP_UP"] = 0
              /\ \A y \in MovementTypes : zeros[y] \in Int /\ (y # "TOP_UP" => g[y] = zeros[y])
            BY DEF MovementTypes
        <3> HIDE DEF zeros, g
        <3>3. opening(u) \in Int
            BY <1>3
        <3>4. SumOver(g, MovementTypes) = SumOver(zeros, MovementTypes) - zeros["TOP_UP"] + g["TOP_UP"]
            BY <3>2, <3>3, WalletSetsFinite, SumUpdated
        <3>5. SumOver(g, MovementTypes) = opening(u)
            BY <3>1, <3>2, <3>3, <3>4
        <3> QED BY <3>5 DEF g
    <2>6. -BuyCents * 0 = 0 /\ -SendCents * 0 = 0 /\ SendCents * 0 = 0 /\ RewardCents * 0 = 0
        BY <1>2, RewardCentsIs
    <2> HIDE DEF m
    <2> QED BY <2>1, <2>2, <2>3, <2>4, <2>5, <2>6 DEF AccountFits
<1>6. RewardsFit
    BY <1>1 DEF RewardsFit, RewardFits
<1>7. PurchasesFit
    <2> SUFFICES ASSUME NEW b \in Buys
                 PROVE  PurchaseFits(bought[b], taken[b], restored[b], rows[b], refunded[b])
        BY DEF PurchasesFit
    <2>1. bought[b] = "NONE" /\ taken[b] = none /\ restored[b] = none /\ refunded[b] = 0
        BY <1>1
    <2> QED BY <1>2, <2>1 DEF PurchaseFits, BuyStatuses
<1>8. TransactionsFit
    <2>1. \A t \in Txs : txn[t] = Idle
        BY <1>1
    <2>2. Idle.kind = "idle"
        BY DEF Idle
    <2>3. \A t \in Txs : TxnKnows(txn[t], bought, sent)
        BY <1>4, <2>1, <2>2 DEF TxnKnows, WalletTypes
    <2>4. \A t, o \in Txs : t # o => Apart(txn[t], txn[o])
        BY <2>1, <2>2 DEF Apart
    <2>5. TransfersWithinLimit
        <3> SUFFICES ASSUME NEW u \in Clients
                     PROVE  SendCents * Cardinality({x \in sent : OwnerOf[x] = u}) <= DailyLimit
            BY DEF TransfersWithinLimit
        <3>1. {x \in sent : OwnerOf[x] = u} = {} /\ Cardinality({}) = 0 /\ SendCents * 0 = 0
            BY <1>1, <1>2, FS_EmptySet
        <3> QED BY <1>2, <3>1
    <2> QED BY <2>3, <2>4, <2>5 DEF TransactionsFit
<1>9. PaymentsFit
    <2>1. \A t \in Txs : txn[t] = Idle /\ Idle.kind = "idle"
        BY <1>1 DEF Idle
    <2>2. ASSUME NEW u \in Clients, NEW y \in OutsideTypes
          PROVE  outside[u][y] = SumOver(Says(y), PaidBy(u))
        <3> DEFINE S == PaidBy(u)
                   zeros == [g \in S |-> 0]
                   says == Says(y)
        <3>1. IsFiniteSet(S) /\ S \subseteq Rewards \cup Buys
            BY WalletSetsFinite, FS_Subset DEF PaidBy
        <3>2. \A g \in Rewards \cup Buys : SaysOutside(y, g) = 0
            BY <1>1 DEF SaysOutside
        <3>3. \A g \in S : says[g] = zeros[g]
            BY <3>1, <3>2 DEF Says
        <3> HIDE DEF S, says
        <3>4. SumOver(zeros, S) = 0
            BY <3>1, SumOfZeros
        <3> HIDE DEF zeros
        <3>5. SumOver(says, S) = SumOver(zeros, S)
            BY <3>1, <3>3, SumsAgree
        <3> QED BY <1>1, <3>4, <3>5 DEF S, says
    <2> QED BY <1>1, <2>1, <2>2 DEF PaymentsFit, OutsideFits, TxnReturns
<1> QED
    BY <1>4, <1>5, <1>6, <1>7, <1>8, <1>9 DEF WalletIInv

\* The invariant is what is asked of the wallet.
LEMMA WalletShown == ASSUME WalletIInv PROVE WalletInv /\ TransfersWithinLimit
<1>1. WalletTypeOK /\ TransfersWithinLimit
    BY DEF WalletIInv, WalletTypes, TransactionsFit
<1>2. BalanceIsCredit
    <2> SUFFICES ASSUME NEW u \in Clients
                 PROVE  LET mine(S) == {s \in S : OwnerOf[s] = u} IN
                        /\ balance[u] = Amount(u, MovementTypes)
                        /\ moved[u]["PURCHASE"] = -BuyCents * Cardinality({b \in mine(Buys) : bought[b] # "NONE"})
                        /\ moved[u]["TRANSFER_OUT"] = -SendCents * Cardinality(mine(sent))
                        /\ moved[u]["TRANSFER_IN"] = SendCents * Cardinality({x \in sent : Receiver[x] = u})
                        /\ moved[u]["REFERRAL_REWARD"] =
                                RewardCents * Cardinality({r \in mine(Rewards) : booked[r] # {}})
                        /\ \A type \in OutsideTypes :
                               outside[u][type] = Total([g \in Rewards \cup Buys |-> SaysOutside(type, g)],
                                                        {g \in Rewards \cup Buys : PayerOf(g) = u})
        BY DEF BalanceIsCredit
    <2>1. AccountFits(u, balance[u], moved[u], bought, sent, booked)
        BY DEF WalletIInv, AccountsFit
    <2>2. Amount(u, MovementTypes) = SumOver(moved[u], MovementTypes)
        BY DEF Amount, SumOver
    <2>3. /\ {b \in {s \in Buys : OwnerOf[s] = u} : bought[b] # "NONE"} = Bought(bought, u)
          /\ {r \in {s \in Rewards : OwnerOf[s] = u} : booked[r] # {}} = Rewarded(booked, u)
          /\ {s \in sent : OwnerOf[s] = u} = SentBy(sent, u)
          /\ {x \in sent : Receiver[x] = u} = SentTo(sent, u)
        BY DEF Bought, Rewarded, SentBy, SentTo
    <2>4. \A type \in OutsideTypes :
              outside[u][type] = Total([g \in Rewards \cup Buys |-> SaysOutside(type, g)],
                                       {g \in Rewards \cup Buys : PayerOf(g) = u})
        BY DEF WalletIInv, PaymentsFit, OutsideFits, Says, PaidBy, Total, SumOver
    <2> QED BY <2>1, <2>2, <2>3, <2>4 DEF AccountFits
<1>3. RefundFollowsPurchase
    <2> SUFFICES ASSUME NEW b \in Buys, bought[b] # "NONE"
                 PROVE  /\ Total(taken[b], Lots) = BuyCents
                        /\ refunded[b] <= Total(restored[b], Lots)
                        /\ \A l \in Lots : restored[b][l] <= taken[b][l]
                        /\ bought[b] = "REFUNDED" <=> refunded[b] = BuyCents
        BY DEF RefundFollowsPurchase
    <2>1. PurchaseFits(bought[b], taken[b], restored[b], rows[b], refunded[b])
        BY DEF WalletIInv, PurchasesFit
    <2>2. /\ Total(taken[b], Lots) = SumOver(taken[b], Lots)
          /\ Total(restored[b], Lots) = SumOver(restored[b], Lots)
        BY DEF Total, SumOver
    <2> QED BY <2>1, <2>2 DEF PurchaseFits
<1> QED
    BY <1>1, <1>2, <1>3 DEF WalletInv

\* Balances are the sums of the movements of credit, the other movements show
\* each payment at the gateway once when it was approved and once when it was
\* returned, purchases take what they cost and refunds give back no less than
\* their share, and nobody transfers more than the limit of the day
\* (referrals.service.ts, commerce.service.ts).
THEOREM WalletInvariance == WalletSpec => [](WalletInv /\ TransfersWithinLimit)
<1>1. WalletIInv /\ [WalletNext]_walletVars => WalletIInv'
    BY WalletStep
<1> QED
    BY <1>1, InitWallet, WalletShown, PTL DEF WalletSpec

-----------------------------------------------------------------------------
(***************************************************************************)
(* The platform                                                            *)
(***************************************************************************)
\* Of the parts that share no table only the one that runs is asked of, and
\* the others rest: the invariant of the part is an invariant of the whole.
\* What a wallet holds agrees with the movements of its credit, and those of
\* payments at the gateway with the payments; what is held for withdrawals and
\* the accounts of the ledger agree with their entries, however purchases,
\* refunds, transfers, expiries and decisions overlap (referrals.service.ts,
\* commerce.service.ts, withdrawals.service.ts, ledger.service.ts).
THEOREM MoneyInvariance == PlatformSpec => []MoneyInv
<1> DEFINE I == /\ Runs("wallet") => WalletIInv
                /\ Runs("withdrawals") => WithdrawalIInv
                /\ Runs("ledger") => LedgerIInv
<1>1. PlatformInit => I
    BY InitWallet, InitWithdrawals, InitLedger DEF PlatformInit
<1>2. I /\ [PlatformNext]_platformVars => I'
    <2> SUFFICES ASSUME I, [PlatformNext]_platformVars PROVE I'
        OBVIOUS
    <2>1. [WalletNext]_walletVars /\ [WithdrawalNext]_withdrawalVars /\ [LedgerNext]_ledgerVars
          /\ UNCHANGED part
        BY DEF PlatformNext, OthersRest, platformVars
    <2>2. Runs("wallet") => WalletIInv'
        BY <2>1, WalletStep
    <2>3. Runs("withdrawals") => WithdrawalIInv'
        BY <2>1, WithdrawalStep
    <2>4. Runs("ledger") => LedgerIInv'
        BY <2>1, LedgerStep
    <2> QED
        BY <2>1, <2>2, <2>3, <2>4 DEF Runs
<1>3. I => MoneyInv
    BY WalletShown, WithdrawalShown, LedgerShown DEF MoneyInv
<1> QED
    BY <1>1, <1>2, <1>3, PTL DEF PlatformSpec
=============================================================================
