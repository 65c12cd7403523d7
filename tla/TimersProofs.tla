---------------------------- MODULE TimersProofs ----------------------------
(***************************************************************************)
(* The invariants of the parts that timers drive, TopUps, Uploads and      *)
(* PushOutbox, and of Redemption, whose rights open, expire and are        *)
(* replaced in time, proved for any of their items, actors and bounds.     *)
(***************************************************************************)
EXTENDS TopUps, Uploads, PushOutbox, Redemption, FiniteSetTheorems, TLAPS

-----------------------------------------------------------------------------
(***************************************************************************)
(* TopUps                                                                  *)
(***************************************************************************)
-----------------------------------------------------------------------------
(* The inductive invariant.                                                *)

Handling == {"record", "apply", "finish"}
Closed == {"APPROVED", "REJECTED"}

\* The provider is told of what exists only.
AskedExists == \A t \in asked : topUp[t] # "NONE"

\* What a runner relies on between its transactions: an approval it was told of
\* still is one, and what it finishes has been applied.
RunnerKnows(h) ==
    LET r == runner[h] IN
    /\ r.pc # "idle" => r.of \in TopUps /\ topUp[r.of] # "NONE"
    /\ r.pc \in Handling => r.outcome \in PaymentOutcomes
    /\ r.outcome = "APPROVED" => r.of \in TopUps /\ payment[r.of] = "APPROVED"
    /\ r.pc = "finish" /\ r.outcome = "APPROVED" => topUp[r.of] \in Closed

TopUpIInv == TopUpInv /\ AskedExists /\ \A h \in Runners : RunnerKnows(h)

-----------------------------------------------------------------------------
(* Facts of several steps.                                                 *)

\* A runner that rests has its type, and knows what it needs.
LEMMA RestKnows ==
    ASSUME TopUpIInv, NEW h \in Runners, TopUpRests(h) \/ runner' = [runner EXCEPT ![h] = NotHandling],
           runner[h].pc # "idle",
           \A t \in TopUps : topUp[t] # "NONE" => topUp'[t] # "NONE",
           \A t \in TopUps : topUp[t] \in Closed => topUp'[t] \in Closed,
           UNCHANGED payment
    PROVE  /\ runner' \in [Runners -> [pc : RunnerPCs, of : TopUps \cup {NoTopUp},
                                       outcome : {"NONE"} \cup PaymentOutcomes, expires : BOOLEAN]]
           /\ \A g \in Runners : RunnerKnows(g)'
<1> DEFINE rest == runner'[h]
<1>1. /\ runner \in [Runners -> [pc : RunnerPCs, of : TopUps \cup {NoTopUp},
                                 outcome : {"NONE"} \cup PaymentOutcomes, expires : BOOLEAN]]
      /\ RunnerKnows(h)
  BY DEF TopUpIInv, TopUpInv, TopUpTypeOK
<1>2. /\ runner' = [runner EXCEPT ![h] = rest]
      /\ rest \in {NotHandling, Expiring(runner[h].of)}
  BY <1>1 DEF TopUpRests
<1>3. rest \in [pc : RunnerPCs, of : TopUps \cup {NoTopUp},
                outcome : {"NONE"} \cup PaymentOutcomes, expires : BOOLEAN]
  <2>1. runner[h].of \in TopUps \cup {NoTopUp}
    BY <1>1
  <2>2. /\ NotHandling \in [pc : RunnerPCs, of : TopUps \cup {NoTopUp},
                            outcome : {"NONE"} \cup PaymentOutcomes, expires : BOOLEAN]
        /\ Expiring(runner[h].of) \in [pc : RunnerPCs, of : TopUps \cup {NoTopUp},
                                       outcome : {"NONE"} \cup PaymentOutcomes, expires : BOOLEAN]
    BY <2>1 DEF NotHandling, Expiring, RunnerPCs
  <2>3. QED
    BY <1>2, <2>2
<1>4. ASSUME NEW g \in Runners PROVE RunnerKnows(g)'
  <2>1. CASE g = h
    <3>1. runner'[g] = rest
      BY <2>1
    <3>2. /\ rest.pc \notin Handling /\ rest.outcome = "NONE"
          /\ rest.pc # "idle" => rest.of = runner[h].of
      BY <1>2 DEF Handling, NotHandling, Expiring
    <3>3. runner[h].of \in TopUps /\ topUp'[runner[h].of] # "NONE"
      BY <1>1 DEF RunnerKnows
    <3>4. QED
      BY <3>1, <3>2, <3>3 DEF RunnerKnows, Handling
  <2>2. CASE g # h
    <3>1. runner'[g] = runner[g] /\ RunnerKnows(g)
      BY <1>1, <1>2, <2>2 DEF TopUpIInv
    <3>2. QED
      BY <3>1 DEF RunnerKnows
  <2>3. QED
    BY <2>1, <2>2
<1>5. QED
  BY <1>1, <1>2, <1>3, <1>4

\* A step that leaves the runners alone, keeps what exists or is closed, and
\* changes no approval, leaves them what they know.
LEMMA OthersKnow ==
    ASSUME TopUpIInv, UNCHANGED runner,
           \A t \in TopUps : topUp[t] # "NONE" => topUp'[t] # "NONE",
           \A t \in TopUps : topUp[t] \in Closed => topUp'[t] \in Closed,
           \A t \in TopUps : payment[t] = "APPROVED" => payment'[t] = "APPROVED"
    PROVE  \A g \in Runners : RunnerKnows(g)'
BY DEF TopUpIInv, RunnerKnows

\* A runner that begins with a top-up that exists knows what it needs.
LEMMA BeginnerKnows ==
    ASSUME TopUpIInv, NEW h \in Runners, NEW t \in TopUps, topUp[t] # "NONE",
           NEW r \in {[pc |-> "record", of |-> t, outcome |-> payment[t], expires |-> FALSE],
                      Querying(t)},
           runner' = [runner EXCEPT ![h] = r],
           UNCHANGED <<topUp, asked, payment, overdue, row, credits, deaths>>
    PROVE  TopUpIInv'
<1>0. /\ r \in [pc : RunnerPCs, of : TopUps \cup {NoTopUp},
                outcome : {"NONE"} \cup PaymentOutcomes, expires : BOOLEAN]
      /\ r.of = t /\ r.pc # "idle" /\ r.pc # "finish"
      /\ r.pc \in Handling => r.outcome \in PaymentOutcomes
      /\ r.outcome = "APPROVED" => payment[t] = "APPROVED"
  <2>1. payment[t] \in PaymentOutcomes
    BY DEF TopUpIInv, TopUpInv, TopUpTypeOK
  <2>2. CASE r = [pc |-> "record", of |-> t, outcome |-> payment[t], expires |-> FALSE]
    BY <2>1, <2>2 DEF RunnerPCs, Handling
  <2>3. CASE r = Querying(t)
    BY <2>3 DEF Querying, RunnerPCs, Handling
  <2>4. QED
    BY <2>2, <2>3
<1>1. TopUpTypeOK'
  BY <1>0 DEF TopUpIInv, TopUpInv, TopUpTypeOK
<1>2. CreditedOnce' /\ ProcessedIsApplied' /\ AskedExists'
  BY DEF TopUpIInv, TopUpInv, CreditedOnce, ProcessedIsApplied, AskedExists
<1>3. ASSUME NEW g \in Runners PROVE RunnerKnows(g)'
  <2>1. CASE g = h
    <3>1. runner'[h] = r
      BY DEF TopUpIInv, TopUpInv, TopUpTypeOK
    <3>2. QED
      BY <1>0, <2>1, <3>1 DEF RunnerKnows
  <2>2. CASE g # h
    <3>1. runner'[g] = runner[g] /\ RunnerKnows(g)
      BY <2>2 DEF TopUpIInv, TopUpInv, TopUpTypeOK
    <3>2. QED
      BY <3>1 DEF RunnerKnows
  <2>3. QED
    BY <2>1, <2>2
<1>4. QED
  BY <1>1, <1>2, <1>3 DEF TopUpIInv, TopUpInv

-----------------------------------------------------------------------------
(* The steps.                                                              *)

\* Nothing was asked, told or credited at first.
LEMMA InitTopUp == TopUpInit => TopUpIInv
BY TopUpsAssumption
   DEF TopUpInit, TopUpIInv, TopUpInv, TopUpTypeOK, CreditedOnce, ProcessedIsApplied, AskedExists,
       RunnerKnows, NotHandling, TopUpStatuses, PaymentOutcomes, RowStatuses, RunnerPCs, Handling

\* The steps of the customer, the provider and the clock.
LEMMA OutsideKeeps ==
    ASSUME TopUpIInv, NEW t \in TopUps, CreateTopUp(t) \/ ProviderDecides(t) \/ Overdue(t)
    PROVE  TopUpIInv'
<1> USE DEF TopUpIInv, TopUpInv
<1>1. TopUpTypeOK'
  BY DEF CreateTopUp, ProviderDecides, Overdue, TopUpTypeOK, TopUpStatuses, PaymentOutcomes
<1>2. /\ \A u \in TopUps : topUp[u] # "NONE" => topUp'[u] # "NONE"
      /\ \A u \in TopUps : topUp[u] \in Closed => topUp'[u] \in Closed
      /\ \A u \in TopUps : payment[u] = "APPROVED" => payment'[u] = "APPROVED"
      /\ UNCHANGED <<runner, row, credits>>
      /\ \A u \in TopUps : topUp'[u] = "APPROVED" <=> topUp[u] = "APPROVED"
  BY DEF CreateTopUp, ProviderDecides, Overdue, TopUpTypeOK, Closed
<1>3. \A g \in Runners : RunnerKnows(g)'
  BY <1>2, OthersKnow
<1>4. CreditedOnce'
  BY <1>2 DEF CreditedOnce
<1>5. ProcessedIsApplied'
  BY <1>2 DEF ProcessedIsApplied, Closed
<1>6. AskedExists'
  BY DEF CreateTopUp, ProviderDecides, Overdue, AskedExists, TopUpTypeOK
<1>7. QED
  BY <1>1, <1>3, <1>4, <1>5, <1>6

\* A runner begins with a top-up that exists.
LEMMA BeginKeeps ==
    ASSUME TopUpIInv, NEW h \in Runners, NEW t \in TopUps,
           Callback(h, t) \/ TakeOverdue(h, t) \/ Look(h, t)
    PROVE  TopUpIInv'
<1>1. topUp[t] # "NONE"
  BY DEF Callback, TakeOverdue, Look, TopUpIInv, AskedExists
<1>2. CASE Callback(h, t)
  BY <1>1, <1>2, BeginnerKnows DEF Callback
<1>3. CASE TakeOverdue(h, t) \/ Look(h, t)
  BY <1>1, <1>3, BeginnerKnows DEF TakeOverdue, Look
<1>4. QED
  BY <1>2, <1>3

\* The query tells what the provider says now.
LEMMA QueryKeeps ==
    ASSUME TopUpIInv, NEW h \in Runners, Query(h)
    PROVE  TopUpIInv'
<1> USE DEF TopUpIInv, TopUpInv
<1> DEFINE t == runner[h].of
<1>1. /\ t \in TopUps /\ topUp[t] # "NONE"
      /\ runner[h].pc = "query"
      /\ UNCHANGED <<topUp, asked, payment, overdue, row, credits, deaths>>
  BY DEF Query, RunnerKnows
<1>2. CreditedOnce' /\ ProcessedIsApplied' /\ AskedExists'
  BY <1>1 DEF CreditedOnce, ProcessedIsApplied, AskedExists
<1>3. CASE runner' = [runner EXCEPT ![h].pc = "record", ![h].outcome = payment[t]]
  <2>1. TopUpTypeOK'
    BY <1>1, <1>3 DEF TopUpTypeOK, RunnerPCs
  <2>2. ASSUME NEW g \in Runners PROVE RunnerKnows(g)'
    <3>1. RunnerKnows(g) /\ (g # h => runner'[g] = runner[g])
      BY <1>3 DEF TopUpTypeOK
    <3>2. /\ runner'[h].pc = "record" /\ runner'[h].of = t /\ runner'[h].outcome = payment[t]
          /\ payment[t] \in PaymentOutcomes
      BY <1>1, <1>3 DEF TopUpTypeOK
    <3>3. QED
      BY <1>1, <3>1, <3>2 DEF RunnerKnows
  <2>3. QED
    BY <1>2, <2>1, <2>2
<1>4. CASE TopUpRests(h)
  <2>1. /\ runner' \in [Runners -> [pc : RunnerPCs, of : TopUps \cup {NoTopUp},
                                    outcome : {"NONE"} \cup PaymentOutcomes, expires : BOOLEAN]]
        /\ \A g \in Runners : RunnerKnows(g)'
    BY <1>1, <1>4, RestKnows
  <2>2. QED
    BY <1>1, <1>2, <2>1 DEF TopUpTypeOK
<1>5. QED
  BY <1>3, <1>4 DEF Query

\* The row of an event is written first, as received.
LEMMA RecordKeeps ==
    ASSUME TopUpIInv, NEW h \in Runners, RecordEvent(h)
    PROVE  TopUpIInv'
<1> USE DEF TopUpIInv, TopUpInv
<1> DEFINE t == runner[h].of
           o == runner[h].outcome
<1>1. /\ t \in TopUps /\ o \in PaymentOutcomes
      /\ runner[h].pc = "record"
      /\ UNCHANGED <<topUp, asked, payment, overdue, credits, deaths>>
  BY DEF RecordEvent, RunnerKnows, Handling
<1>2. CreditedOnce' /\ AskedExists'
  BY <1>1 DEF CreditedOnce, AskedExists
<1>3. CASE row[t][o] \in {"PROCESSED", "IGNORED"}
  <2>1. TopUpRests(h) /\ UNCHANGED row
    BY <1>3 DEF RecordEvent
  <2>2. /\ runner' \in [Runners -> [pc : RunnerPCs, of : TopUps \cup {NoTopUp},
                                    outcome : {"NONE"} \cup PaymentOutcomes, expires : BOOLEAN]]
        /\ \A g \in Runners : RunnerKnows(g)'
    BY <1>1, <2>1, RestKnows
  <2>3. TopUpTypeOK' /\ ProcessedIsApplied'
    BY <1>1, <2>1, <2>2 DEF TopUpTypeOK, ProcessedIsApplied
  <2>4. QED
    BY <1>2, <2>2, <2>3
<1>4. CASE row[t][o] \notin {"PROCESSED", "IGNORED"}
  <2> DEFINE nextPc == IF o = "PENDING" THEN "finish" ELSE "apply"
  <2>1. /\ row' = [row EXCEPT ![t][o] = IF @ = "NONE" THEN "RECEIVED" ELSE @]
        /\ runner' = [runner EXCEPT ![h].pc = nextPc]
    BY <1>4 DEF RecordEvent, TopUpSteps
  <2>2. TopUpTypeOK'
    BY <1>1, <2>1 DEF TopUpTypeOK, RunnerPCs, RowStatuses
  <2>3. ProcessedIsApplied'
    BY <1>1, <2>1 DEF ProcessedIsApplied, TopUpTypeOK, PaymentOutcomes
  <2>4. ASSUME NEW g \in Runners PROVE RunnerKnows(g)'
    <3>1. RunnerKnows(g) /\ (g # h => runner'[g] = runner[g])
      BY <2>1 DEF TopUpTypeOK
    <3>2. runner'[h].pc = nextPc /\ runner'[h].of = t /\ runner'[h].outcome = o
      BY <2>1 DEF TopUpTypeOK
    <3>3. QED
      BY <1>1, <3>1, <3>2 DEF RunnerKnows
  <2>5. QED
    BY <1>2, <2>2, <2>3, <2>4
<1>5. QED
  BY <1>3, <1>4

\* The attempt takes the outcome, or has had another: an approval that is
\* applied closes it.
LEMMA ApplyKeeps ==
    ASSUME TopUpIInv, NEW h \in Runners, ApplyEvent(h)
    PROVE  TopUpIInv'
<1> USE DEF TopUpIInv, TopUpInv
<1> DEFINE t == runner[h].of
           o == runner[h].outcome
<1>1. /\ t \in TopUps /\ o \in PaymentOutcomes /\ topUp[t] # "NONE"
      /\ o = "APPROVED" => payment[t] = "APPROVED"
      /\ runner' = [runner EXCEPT ![h].pc = "finish"]
      /\ UNCHANGED <<asked, payment, overdue, row, deaths>>
  BY DEF ApplyEvent, RunnerKnows, Handling, TopUpSteps
<1>2. \/ /\ topUp[t] \in {"PENDING", "EXPIRED"}
         /\ topUp' = [topUp EXCEPT ![t] = o]
         /\ credits' = [credits EXCEPT ![t] = IF o = "APPROVED" THEN @ + 1 ELSE @]
      \/ /\ o = "APPROVED" => topUp[t] \in Closed
         /\ UNCHANGED <<topUp, credits>>
  BY <1>1 DEF ApplyEvent, Takes, TopUpTypeOK, TopUpStatuses, PaymentOutcomes, Closed
<1>3. /\ o = "APPROVED" => topUp'[t] \in Closed
      /\ \A u \in TopUps : topUp[u] # "NONE" => topUp'[u] # "NONE"
      /\ \A u \in TopUps : topUp[u] \in Closed => topUp'[u] \in Closed
  BY <1>1, <1>2 DEF TopUpTypeOK, PaymentOutcomes, Closed
<1>4. TopUpTypeOK'
  <2>1. runner' \in [Runners -> [pc : RunnerPCs, of : TopUps \cup {NoTopUp},
                                 outcome : {"NONE"} \cup PaymentOutcomes, expires : BOOLEAN]]
    BY <1>1 DEF TopUpTypeOK, RunnerPCs
  <2>2. topUp' \in [TopUps -> TopUpStatuses]
    BY <1>1, <1>2 DEF TopUpTypeOK, TopUpStatuses
  <2>3. credits' \in [TopUps -> Nat]
    BY <1>1, <1>2 DEF TopUpTypeOK
  <2>4. QED
    BY <1>1, <2>1, <2>2, <2>3 DEF TopUpTypeOK
<1>5. CreditedOnce'
  BY <1>1, <1>2 DEF CreditedOnce, TopUpTypeOK
<1>6. ProcessedIsApplied' /\ AskedExists'
  BY <1>1, <1>3 DEF ProcessedIsApplied, AskedExists, TopUpTypeOK, Closed
<1>7. ASSUME NEW g \in Runners PROVE RunnerKnows(g)'
  <2>1. RunnerKnows(g) /\ (g # h => runner'[g] = runner[g])
    BY <1>1 DEF TopUpTypeOK
  <2>2. runner'[h].pc = "finish" /\ runner'[h].of = t /\ runner'[h].outcome = o
    BY <1>1 DEF TopUpTypeOK
  <2>3. QED
    BY <1>1, <1>3, <2>1, <2>2 DEF RunnerKnows, Handling
<1>8. QED
  BY <1>4, <1>5, <1>6, <1>7

\* What is finished has been applied.
LEMMA FinishKeeps ==
    ASSUME TopUpIInv, NEW h \in Runners, FinishEvent(h)
    PROVE  TopUpIInv'
<1> USE DEF TopUpIInv, TopUpInv
<1> DEFINE t == runner[h].of
           o == runner[h].outcome
<1>1. /\ t \in TopUps /\ o \in PaymentOutcomes /\ runner[h].pc = "finish"
      /\ o = "APPROVED" => topUp[t] \in Closed
      /\ TopUpRests(h)
      /\ row' = [row EXCEPT ![t][o] = IF o = "PENDING" THEN "IGNORED" ELSE "PROCESSED"]
      /\ UNCHANGED <<topUp, asked, payment, overdue, credits, deaths>>
  BY DEF FinishEvent, RunnerKnows, Handling
<1>2. /\ runner' \in [Runners -> [pc : RunnerPCs, of : TopUps \cup {NoTopUp},
                                  outcome : {"NONE"} \cup PaymentOutcomes, expires : BOOLEAN]]
      /\ \A g \in Runners : RunnerKnows(g)'
  BY <1>1, RestKnows
<1>3. TopUpTypeOK'
  BY <1>1, <1>2 DEF TopUpTypeOK, RowStatuses
<1>4. CreditedOnce' /\ AskedExists'
  BY <1>1 DEF CreditedOnce, AskedExists
<1>5. ProcessedIsApplied'
  BY <1>1 DEF ProcessedIsApplied, TopUpTypeOK, PaymentOutcomes, Closed
<1>6. QED
  BY <1>2, <1>3, <1>4, <1>5

\* Only what waits expires.
LEMMA ExpireKeeps ==
    ASSUME TopUpIInv, NEW h \in Runners, ExpireTopUp(h)
    PROVE  TopUpIInv'
<1> USE DEF TopUpIInv, TopUpInv
<1> DEFINE t == runner[h].of
<1>1. /\ t \in TopUps /\ runner[h].pc = "expire"
      /\ topUp' = [topUp EXCEPT ![t] = IF @ = "PENDING" /\ t \in overdue THEN "EXPIRED" ELSE @]
      /\ runner' = [runner EXCEPT ![h] = NotHandling]
      /\ UNCHANGED <<asked, payment, overdue, row, credits, deaths>>
  BY DEF ExpireTopUp, RunnerKnows
<1>2. /\ \A u \in TopUps : topUp[u] # "NONE" => topUp'[u] # "NONE"
      /\ \A u \in TopUps : topUp[u] \in Closed => topUp'[u] \in Closed
      /\ \A u \in TopUps : topUp'[u] = "APPROVED" <=> topUp[u] = "APPROVED"
  BY <1>1 DEF TopUpTypeOK, Closed
<1>3. /\ runner' \in [Runners -> [pc : RunnerPCs, of : TopUps \cup {NoTopUp},
                                  outcome : {"NONE"} \cup PaymentOutcomes, expires : BOOLEAN]]
      /\ \A g \in Runners : RunnerKnows(g)'
  BY <1>1, <1>2, RestKnows
<1>4. TopUpTypeOK'
  BY <1>1, <1>3 DEF TopUpTypeOK, TopUpStatuses, PaymentOutcomes
<1>5. CreditedOnce'
  BY <1>1, <1>2 DEF CreditedOnce
<1>6. ProcessedIsApplied' /\ AskedExists'
  BY <1>1, <1>2 DEF ProcessedIsApplied, AskedExists, TopUpTypeOK, Closed
<1>7. QED
  BY <1>3, <1>4, <1>5, <1>6

\* A runner that dies forgets; what its transactions wrote stays.
LEMMA DieKeeps ==
    ASSUME TopUpIInv, NEW h \in Runners, Die(h)
    PROVE  TopUpIInv'
<1> USE DEF TopUpIInv, TopUpInv
<1>1. /\ runner' = [runner EXCEPT ![h] = NotHandling]
      /\ deaths' \in 0..MaxDeaths
      /\ UNCHANGED <<topUp, asked, payment, overdue, row, credits>>
  BY TopUpsAssumption DEF Die, TopUpTypeOK
<1>2. TopUpTypeOK'
  BY <1>1 DEF TopUpTypeOK, NotHandling, RunnerPCs
<1>3. CreditedOnce' /\ ProcessedIsApplied' /\ AskedExists'
  BY <1>1 DEF CreditedOnce, ProcessedIsApplied, AskedExists
<1>4. ASSUME NEW g \in Runners PROVE RunnerKnows(g)'
  <2>1. RunnerKnows(g) /\ (g # h => runner'[g] = runner[g])
    BY <1>1 DEF TopUpTypeOK
  <2>2. runner'[h] = NotHandling
    BY <1>1 DEF TopUpTypeOK
  <2>3. QED
    BY <1>1, <2>1, <2>2 DEF RunnerKnows, NotHandling, Handling
<1>5. QED
  BY <1>2, <1>3, <1>4

\* Every step keeps the invariant.
LEMMA TopUpStepKeeps ==
    ASSUME TopUpIInv, [TopUpNext]_topUpVars
    PROVE  TopUpIInv'
<1>1. CASE UNCHANGED topUpVars
  BY <1>1 DEF topUpVars, TopUpIInv, TopUpInv, TopUpTypeOK, CreditedOnce, ProcessedIsApplied,
              AskedExists, RunnerKnows
<1>2. CASE \E t \in TopUps : CreateTopUp(t) \/ ProviderDecides(t) \/ Overdue(t)
  BY <1>2, OutsideKeeps
<1>3. CASE \E h \in Runners, t \in TopUps : Callback(h, t) \/ TakeOverdue(h, t) \/ Look(h, t)
  BY <1>3, BeginKeeps
<1>4. CASE \E h \in Runners : RunnerStep(h)
  BY <1>4, QueryKeeps, RecordKeeps, ApplyKeeps, FinishKeeps, ExpireKeeps DEF RunnerStep
<1>5. CASE \E h \in Runners : Die(h)
  BY <1>5, DieKeeps
<1>6. QED
  BY <1>1, <1>2, <1>3, <1>4, <1>5 DEF TopUpNext

-----------------------------------------------------------------------------
(* The theorem.                                                            *)

\* Whatever number of callbacks, reconciliations and expiries overlap and die, a
\* top-up is credited once when it is approved, never otherwise, and only with
\* an approval of the provider; and an approval counts as processed only when
\* the attempt has had its say (processWalletTopUpEvent).
THEOREM TopUpInvariance == TopUpSpec => []TopUpInv
<1>1. TopUpInit => TopUpIInv
  BY InitTopUp
<1>2. TopUpIInv /\ [TopUpNext]_topUpVars => TopUpIInv'
  BY TopUpStepKeeps
<1>3. TopUpIInv => TopUpInv
  BY DEF TopUpIInv
<1>4. QED
  BY <1>1, <1>2, <1>3, PTL DEF TopUpSpec

-----------------------------------------------------------------------------
(***************************************************************************)
(* Uploads                                                                 *)
(***************************************************************************)
-----------------------------------------------------------------------------
(* The inductive invariant.                                                *)

Spent == {"USED", "GONE"}

\* An upload that was not confirmed twice at once is confirmed once, consumed
\* once, and shown or deleted only after it was consumed.
ConfirmedOnce(u) ==
    u \notin doubled =>
        /\ \A c, d \in Confirmers : confirmer[c] = u =>
               upload[u] \in {"PENDING", "GONE"} /\ (confirmer[d] = u => c = d)
        /\ \A p, q \in Places : image[p] = u => upload[u] \in Spent /\ (image[q] = u => p = q)
        /\ \A e \in Editors : editor[e].old = u => upload[u] \in Spent
        /\ deletion[u] # "NONE" => upload[u] \in Spent

\* Who consumes an upload began before it expired.
ConsumedFresh(u) == \A e \in Editors : editor[e].new = u /\ u \in stale => u \in late

\* What nobody was late to consume: the cleanup and those who show it do not meet.
CleanedApart(u) ==
    u \notin doubled \cup late =>
        /\ cleaning.of = u => u \in stale /\ upload[u] # "USED"
        /\ upload[u] = "TEMPORARY" /\ u \notin stale => u \in object
        /\ \A p \in Places : image[p] = u =>
               upload[u] = "USED" /\ (~raced => u \in object /\ deletion[u] = "NONE")

\* A request that changes a place, alone, knows its image.
EditorKnows(e) ==
    editor[e] # NotEditing =>
        /\ editor[e].place \in Places
        /\ ~raced => /\ editor[e].old = image[editor[e].place]
                     /\ \A f \in Editors : editor[f].place = editor[e].place => f = e

UploadKnows(u) == ConfirmedOnce(u) /\ ConsumedFresh(u) /\ CleanedApart(u)

UploadIInv ==
    /\ UploadTypeOK /\ NothingForgotten
    /\ \A u \in UploadIds : UploadKnows(u)
    /\ \A e \in Editors : EditorKnows(e)

-----------------------------------------------------------------------------
(* The upload.                                                             *)

\* Nothing is announced at first.
LEMMA InitUploads == UploadInit => UploadIInv
<1> SUFFICES ASSUME UploadInit PROVE UploadIInv
  OBVIOUS
<1> USE DEF UploadInit
<1>1. UploadTypeOK
  <2>1. NotEditing \in [place : Places \cup {NoUpload}, new : UploadIds \cup {NoUpload},
                        old : UploadIds \cup {NoUpload}]
    BY DEF NotEditing
  <2>2. NotCleaning \in [of : UploadIds \cup {NoUpload}, erased : BOOLEAN]
    BY DEF NotCleaning
  <2>3. QED
    BY <2>1, <2>2 DEF UploadTypeOK, UploadStatuses
<1>2. NothingForgotten
  BY DEF NothingForgotten
<1>3. ASSUME NEW u \in UploadIds PROVE UploadKnows(u)
  <2>1. u # NoUpload
    BY UploadAssumption
  <2>2. QED
    BY <2>1 DEF UploadKnows, ConfirmedOnce, ConsumedFresh, CleanedApart, NotEditing, NotCleaning
<1>4. \A e \in Editors : EditorKnows(e)
  BY DEF EditorKnows
<1>5. QED
  BY <1>1, <1>2, <1>3, <1>4 DEF UploadIInv

\* An upload is announced.
LEMMA AnnounceKeeps ==
    ASSUME UploadIInv, NEW u \in UploadIds, CreatePresignedUploadUrl(u)
    PROVE  UploadIInv'
<1> USE DEF UploadIInv
<1>1. UploadTypeOK'
  BY DEF CreatePresignedUploadUrl, UploadTypeOK, UploadStatuses
<1>2. ASSUME NEW v \in UploadIds PROVE UploadKnows(v)'
  <2>1. UploadKnows(v) /\ upload'[v] = IF v = u THEN "PENDING" ELSE upload[v]
    BY DEF CreatePresignedUploadUrl, UploadTypeOK
  <2>2. QED
    BY <2>1 DEF CreatePresignedUploadUrl, UploadKnows, ConfirmedOnce, ConsumedFresh, CleanedApart,
                Spent
<1>3. ASSUME NEW e \in Editors PROVE EditorKnows(e)'
  BY DEF CreatePresignedUploadUrl, EditorKnows
<1>4. NothingForgotten'
  BY DEF CreatePresignedUploadUrl, NothingForgotten, UploadTypeOK
<1>5. QED
  BY <1>1, <1>2, <1>3, <1>4

\* The client puts the object, or the upload expires.
LEMMA PutKeeps ==
    ASSUME UploadIInv, NEW u \in UploadIds, PutObject(u) \/ UploadExpires(u)
    PROVE  UploadIInv'
<1> USE DEF UploadIInv
<1>1. UploadTypeOK'
  BY DEF PutObject, UploadExpires, UploadTypeOK
<1>2. ASSUME NEW v \in UploadIds PROVE UploadKnows(v)'
  <2>1. UploadKnows(v)
    OBVIOUS
  <2>2. QED
    BY <2>1 DEF PutObject, UploadExpires, UploadKnows, ConfirmedOnce, ConsumedFresh, CleanedApart
<1>3. ASSUME NEW e \in Editors PROVE EditorKnows(e)'
  BY DEF PutObject, UploadExpires, EditorKnows
<1>4. NothingForgotten'
  BY DEF PutObject, UploadExpires, NothingForgotten
<1>5. QED
  BY <1>1, <1>2, <1>3, <1>4

\* A confirmation reads the upload; the second one at once is noted.
LEMMA ReadUploadKeeps ==
    ASSUME UploadIInv, NEW c \in Confirmers, NEW u \in UploadIds, ReadUpload(c, u)
    PROVE  UploadIInv'
<1> USE DEF UploadIInv
<1>1. UploadTypeOK'
  BY DEF ReadUpload, UploadTypeOK
<1>2. ASSUME NEW v \in UploadIds PROVE UploadKnows(v)'
  <2>1. /\ UploadKnows(v)
        /\ \A d \in Confirmers : confirmer'[d] = IF d = c THEN u ELSE confirmer[d]
    BY DEF ReadUpload, UploadTypeOK
  <2>2. ConfirmedOnce(v)'
    BY <2>1 DEF ReadUpload, UploadKnows, ConfirmedOnce
  <2>3. ConsumedFresh(v)' /\ CleanedApart(v)'
    BY <2>1 DEF ReadUpload, UploadKnows, ConsumedFresh, CleanedApart
  <2>4. QED
    BY <2>2, <2>3 DEF UploadKnows
<1>3. ASSUME NEW e \in Editors PROVE EditorKnows(e)'
  BY DEF ReadUpload, EditorKnows
<1>4. NothingForgotten'
  BY DEF ReadUpload, NothingForgotten
<1>5. QED
  BY <1>1, <1>2, <1>3, <1>4

\* A confirmation ends: alone, it found its upload pending, or gone.
LEMMA ConfirmKeeps ==
    ASSUME UploadIInv, NEW c \in Confirmers, ConfirmUpload(c) \/ ConfirmFails(c)
    PROVE  UploadIInv'
<1> USE DEF UploadIInv
<1> DEFINE u == confirmer[c]
<1>1. /\ u \in UploadIds
      /\ confirmer' = [confirmer EXCEPT ![c] = NoUpload]
      /\ UNCHANGED <<image, deletion, editor, cleaning, doubled, late, raced>>
  BY DEF ConfirmUpload, ConfirmFails, UploadTypeOK
<1>2. \/ /\ u \in object /\ upload[u] # "GONE"
         /\ upload' = [upload EXCEPT ![u] = "TEMPORARY"]
         /\ stale' = IF upload[u] = "USED" THEN stale \ {u} ELSE stale
         /\ object' = object
      \/ /\ upload' = IF upload[u] = "PENDING" THEN [upload EXCEPT ![u] = "GONE"] ELSE upload
         /\ stale' = stale /\ object' = object \ {u}
  BY DEF ConfirmUpload, ConfirmFails
<1>3. UploadTypeOK'
  BY <1>1, <1>2 DEF UploadTypeOK, UploadStatuses
<1>4. ASSUME NEW v \in UploadIds PROVE UploadKnows(v)'
  <2>1. /\ UploadKnows(v)
        /\ \A d \in Confirmers : confirmer'[d] = IF d = c THEN NoUpload ELSE confirmer[d]
        /\ NoUpload # v
    BY <1>1, UploadAssumption DEF UploadTypeOK
  <2>2. CASE v = u
    <3>1. v \notin doubled => /\ upload[v] \in {"PENDING", "GONE"}
                              /\ \A d \in Confirmers : confirmer'[d] # v
                              /\ \A p \in Places : image[p] = v => upload[v] = "GONE"
      BY <1>1, <2>1, <2>2 DEF UploadKnows, ConfirmedOnce, Spent
    <3>2. /\ v \notin doubled => stale' = stale
          /\ upload[v] = "GONE" => upload'[v] = "GONE"
          /\ upload'[v] = "TEMPORARY" => v \in object' \/ v \in doubled
          /\ v \notin doubled /\ upload[v] = "PENDING" => upload'[v] \in {"TEMPORARY", "GONE"}
      BY <1>2, <2>2, <3>1 DEF UploadTypeOK
    <3>3. ConfirmedOnce(v)'
      BY <1>1, <2>1, <3>1, <3>2 DEF UploadKnows, ConfirmedOnce, Spent
    <3>4. ConsumedFresh(v)'
      BY <1>1, <1>2, <2>1, <3>2 DEF UploadKnows, ConsumedFresh
    <3>5. CleanedApart(v)'
      BY <1>1, <2>1, <3>1, <3>2 DEF UploadKnows, CleanedApart
    <3>6. QED
      BY <3>3, <3>4, <3>5 DEF UploadKnows
  <2>3. CASE v # u
    <3>1. /\ upload'[v] = upload[v]
          /\ v \in stale' <=> v \in stale
          /\ v \in object' <=> v \in object
      BY <1>2, <2>3 DEF UploadTypeOK
    <3>2. ConfirmedOnce(v)'
      BY <1>1, <2>1, <3>1 DEF UploadKnows, ConfirmedOnce
    <3>3. ConsumedFresh(v)' /\ CleanedApart(v)'
      BY <1>1, <2>1, <3>1 DEF UploadKnows, ConsumedFresh, CleanedApart
    <3>4. QED
      BY <3>2, <3>3 DEF UploadKnows
  <2>4. QED
    BY <2>2, <2>3
<1>5. ASSUME NEW e \in Editors PROVE EditorKnows(e)'
  BY <1>1 DEF EditorKnows
<1>6. NothingForgotten'
  <2>1. \A v \in UploadIds : upload'[v] = "USED" /\ v \in object' => upload[v] = "USED" /\ v \in object
    BY <1>1, <1>2 DEF UploadTypeOK
  <2>2. QED
    BY <1>1, <2>1 DEF NothingForgotten
<1>7. QED
  BY <1>3, <1>4, <1>5, <1>6

-----------------------------------------------------------------------------
(* A place changes its image.                                              *)

\* A request reads the image it replaces and the upload it brings.
LEMMA BeginEditKeeps ==
    ASSUME UploadIInv, NEW e \in Editors, NEW p \in Places, BeginEdit(e, p)
    PROVE  UploadIInv'
<1> USE DEF UploadIInv
<1>1. PICK n \in UploadIds \cup {NoUpload} :
        /\ n # NoUpload => upload[n] = "TEMPORARY" /\ n \notin stale
        /\ editor' = [editor EXCEPT ![e] = [place |-> p, new |-> n, old |-> image[p]]]
  BY DEF BeginEdit
<1>2. /\ editor[e] = NotEditing /\ raced' = (raced \/ Editing(p))
      /\ UNCHANGED <<upload, object, stale, image, deletion, confirmer, cleaning, doubled, late>>
  BY DEF BeginEdit
<1>3. /\ editor'[e].place = p /\ editor'[e].new = n /\ editor'[e].old = image[p]
      /\ \A f \in Editors : f # e => editor'[f] = editor[f]
  BY <1>1 DEF UploadTypeOK
<1>4. raced' \in BOOLEAN /\ (~raced' => ~raced /\ \A f \in Editors : editor[f].place # p)
  BY <1>2 DEF Editing, UploadTypeOK
<1>5. UploadTypeOK'
  BY <1>1, <1>2, <1>4 DEF UploadTypeOK
<1>6. ASSUME NEW v \in UploadIds PROVE UploadKnows(v)'
  <2>1. UploadKnows(v) /\ v # NoUpload
    BY UploadAssumption
  <2>2. ConfirmedOnce(v)'
    BY <1>2, <1>3, <2>1 DEF UploadKnows, ConfirmedOnce
  <2>3. ConsumedFresh(v)'
    BY <1>1, <1>2, <1>3, <2>1 DEF UploadKnows, ConsumedFresh
  <2>4. CleanedApart(v)'
    BY <1>2, <1>4, <2>1 DEF UploadKnows, CleanedApart
  <2>5. QED
    BY <2>2, <2>3, <2>4 DEF UploadKnows
<1>7. ASSUME NEW f \in Editors PROVE EditorKnows(f)'
  <2>1. CASE f = e
    BY <1>2, <1>3, <1>4, <2>1 DEF EditorKnows
  <2>2. CASE f # e
    BY <1>2, <1>3, <1>4, <2>2 DEF EditorKnows
  <2>3. QED
    BY <2>1, <2>2
<1>8. NothingForgotten'
  BY <1>2, <1>4 DEF NothingForgotten
<1>9. QED
  BY <1>5, <1>6, <1>7, <1>8

\* An editor that has ended.
LEMMA EndsEdit ==
    ASSUME UploadIInv, NEW e \in Editors, editor' = [editor EXCEPT ![e] = NotEditing]
    PROVE  /\ editor'[e] = NotEditing
           /\ \A f \in Editors : f # e => editor'[f] = editor[f]
           /\ editor' \in [Editors -> [place : Places \cup {NoUpload}, new : UploadIds \cup {NoUpload},
                                       old : UploadIds \cup {NoUpload}]]
BY DEF UploadIInv, UploadTypeOK, NotEditing

\* A request that fails forgets.
LEMMA EditFailsKeeps ==
    ASSUME UploadIInv, NEW e \in Editors, EditFails(e)
    PROVE  UploadIInv'
<1> USE DEF UploadIInv
<1>1. /\ editor' = [editor EXCEPT ![e] = NotEditing]
      /\ UNCHANGED <<upload, object, stale, image, deletion, confirmer, cleaning, doubled, late, raced>>
  BY DEF EditFails
<1>2. /\ editor'[e] = NotEditing
      /\ \A f \in Editors : f # e => editor'[f] = editor[f]
  BY <1>1, EndsEdit
<1>3. UploadTypeOK'
  BY <1>1, EndsEdit DEF UploadTypeOK
<1>4. ASSUME NEW v \in UploadIds PROVE UploadKnows(v)'
  <2>1. UploadKnows(v) /\ v # NoUpload
    BY UploadAssumption
  <2>2. QED
    BY <1>1, <1>2, <2>1 DEF UploadKnows, ConfirmedOnce, ConsumedFresh, CleanedApart, NotEditing
<1>5. ASSUME NEW f \in Editors PROVE EditorKnows(f)'
  BY <1>1, <1>2, UploadAssumption DEF EditorKnows, NotEditing
<1>6. NothingForgotten'
  BY <1>1 DEF NothingForgotten
<1>7. QED
  BY <1>3, <1>4, <1>5, <1>6

\* A request consumes its upload and queues the image it replaces.
LEMMA CommitEditKeeps ==
    ASSUME UploadIInv, NEW e \in Editors, CommitEdit(e)
    PROVE  UploadIInv'
<1> USE DEF UploadIInv
<1> DEFINE new == editor[e].new
           old == editor[e].old
           p == editor[e].place
<1>1. /\ editor[e] # NotEditing
      /\ new # NoUpload => upload[new] = "TEMPORARY"
      /\ IF new = NoUpload THEN UNCHANGED <<upload, stale>>
         ELSE upload' = [upload EXCEPT ![new] = "USED"] /\ stale' = stale \ {new}
      /\ deletion' = IF old # NoUpload /\ old # new THEN [deletion EXCEPT ![old] = "DUE"] ELSE deletion
      /\ image' = [image EXCEPT ![p] = new]
      /\ editor' = [editor EXCEPT ![e] = NotEditing]
      /\ UNCHANGED <<object, confirmer, cleaning, doubled, late, raced>>
  BY DEF CommitEdit, Consumable, Queues
<1>2. /\ editor'[e] = NotEditing
      /\ \A f \in Editors : f # e => editor'[f] = editor[f]
  BY <1>1, EndsEdit
<1>3. /\ new \in UploadIds \cup {NoUpload} /\ old \in UploadIds \cup {NoUpload} /\ p \in Places
      /\ ~raced => old = image[p] /\ \A f \in Editors : editor[f].place = p => f = e
  BY <1>1 DEF UploadTypeOK, EditorKnows
<1>4. \A q \in Places : image'[q] = IF q = p THEN new ELSE image[q]
  BY <1>1 DEF UploadTypeOK
<1>5. ASSUME NEW v \in UploadIds
      PROVE  /\ v # NoUpload
             /\ upload'[v] = IF v = new THEN "USED" ELSE upload[v]
             /\ v \in stale' <=> v \in stale /\ v # new
             /\ deletion'[v] = IF v = old /\ old # new THEN "DUE" ELSE deletion[v]
  BY <1>1, <1>3, UploadAssumption DEF UploadTypeOK
<1>6. UploadTypeOK'
  <2>1. upload' \in [UploadIds -> UploadStatuses] /\ stale' \subseteq UploadIds
    BY <1>1, <1>3 DEF UploadTypeOK, UploadStatuses
  <2>2. deletion' \in [UploadIds -> {"NONE", "DUE", "DONE"}]
    BY <1>1, <1>3 DEF UploadTypeOK
  <2>3. image' \in [Places -> UploadIds \cup {NoUpload}]
    BY <1>1, <1>3 DEF UploadTypeOK
  <2>4. QED
    BY <1>1, <2>1, <2>2, <2>3, EndsEdit DEF UploadTypeOK
<1>7. ASSUME NEW v \in UploadIds PROVE UploadKnows(v)'
  <2>1. UploadKnows(v)
    OBVIOUS
  <2>2. CASE v = new
    <3>1. upload[v] = "TEMPORARY" /\ upload'[v] = "USED"
      BY <1>1, <1>5, <2>2
    <3>2. v \notin doubled => /\ \A q \in Places : image[q] # v
                              /\ \A c \in Confirmers : confirmer[c] # v
                              /\ deletion[v] = "NONE"
      BY <2>1, <3>1 DEF UploadKnows, ConfirmedOnce, Spent
    <3>3. v \in stale => v \in late
      BY <2>1, <2>2 DEF UploadKnows, ConsumedFresh
    <3>4. ConfirmedOnce(v)'
      BY <1>1, <1>4, <3>1, <3>2 DEF ConfirmedOnce, Spent
    <3>5. ConsumedFresh(v)'
      BY <1>5, <2>2 DEF ConsumedFresh
    <3>6. v \notin doubled \cup late => v \in object /\ cleaning.of # v /\ deletion'[v] = "NONE"
      BY <1>5, <2>1, <2>2, <3>1, <3>2, <3>3 DEF UploadKnows, CleanedApart
    <3>7. CleanedApart(v)'
      BY <1>1, <3>1, <3>6 DEF CleanedApart
    <3>8. QED
      BY <3>4, <3>5, <3>7 DEF UploadKnows
  <2>3. CASE v # new
    <3>1. /\ upload'[v] = upload[v] /\ (v \in stale' <=> v \in stale)
          /\ \A q \in Places : image'[q] = v => image[q] = v /\ q # p
          /\ \A f \in Editors : /\ editor'[f].old = v => editor[f].old = v
                                /\ editor'[f].new = v => editor[f].new = v
      BY <1>2, <1>4, <1>5, <2>3 DEF NotEditing
    <3>2. v \notin doubled /\ deletion'[v] # "NONE" => upload[v] \in Spent
      BY <1>5, <2>1 DEF UploadKnows, ConfirmedOnce
    <3>3. ConfirmedOnce(v)'
      BY <1>1, <2>1, <3>1, <3>2 DEF UploadKnows, ConfirmedOnce
    <3>4. ConsumedFresh(v)'
      BY <1>1, <2>1, <3>1 DEF UploadKnows, ConsumedFresh
    <3>5. ASSUME NEW q \in Places, image'[q] = v, ~raced, v \notin doubled
          PROVE  deletion'[v] = deletion[v]
      <4>1. image[q] = v /\ q # p
        BY <3>1, <3>5
      <4>2. image[p] # v
        BY <1>3, <2>1, <3>5, <4>1 DEF UploadKnows, ConfirmedOnce
      <4>3. QED
        BY <1>3, <1>5, <3>5, <4>2
    <3>6. CleanedApart(v)'
      BY <1>1, <2>1, <3>1, <3>5 DEF UploadKnows, CleanedApart
    <3>7. QED
      BY <3>3, <3>4, <3>6 DEF UploadKnows
  <2>4. QED
    BY <2>2, <2>3
<1>8. ASSUME NEW f \in Editors PROVE EditorKnows(f)'
  <2>1. CASE f = e
    BY <1>2, <2>1 DEF EditorKnows
  <2>2. CASE f # e
    <3>1. EditorKnows(f) /\ editor'[f] = editor[f] /\ NotEditing.place \notin Places
      BY <1>2, <2>2, UploadAssumption DEF NotEditing
    <3>2. QED
      BY <1>1, <1>2, <1>3, <1>4, <2>2, <3>1 DEF EditorKnows
  <2>3. QED
    BY <2>1, <2>2
<1>9. NothingForgotten'
  <2>1. ASSUME NEW v \in UploadIds, ~raced, upload'[v] = "USED", v \in object,
               v \notin doubled, deletion'[v] = "NONE"
        PROVE  \E q \in Places : image'[q] = v
    <3>1. CASE v = new
      BY <1>3, <1>4, <3>1
    <3>2. CASE v # new
      <4>1. upload[v] = "USED" /\ deletion[v] = "NONE" /\ v # old
        BY <1>5, <2>1, <3>2
      <4>2. PICK q \in Places : image[q] = v
        BY <2>1, <4>1 DEF NothingForgotten
      <4>3. q # p
        BY <1>3, <2>1, <4>1, <4>2
      <4>4. QED
        BY <1>4, <4>2, <4>3
    <3>3. QED
      BY <3>1, <3>2
  <2>2. QED
    BY <1>1, <2>1 DEF NothingForgotten
<1>10. QED
  BY <1>6, <1>7, <1>8, <1>9

-----------------------------------------------------------------------------
(* The cleanup.                                                            *)

\* The cleanup lists an upload, erases its object, deletes its row.
LEMMA CleaningKeeps ==
    ASSUME UploadIInv, (\E u \in UploadIds : ListExpired(u)) \/ EraseExpired \/ DeleteExpired
    PROVE  UploadIInv'
<1> USE DEF UploadIInv
<1>1. UNCHANGED <<stale, image, deletion, confirmer, editor, doubled, late, raced>>
  BY DEF ListExpired, EraseExpired, DeleteExpired
<1>2. UploadTypeOK'
  <2>1. cleaning' \in [of : UploadIds \cup {NoUpload}, erased : BOOLEAN]
    <3>1. CASE \E u \in UploadIds : ListExpired(u)
      BY <3>1 DEF ListExpired
    <3>2. CASE EraseExpired
      BY <3>2 DEF EraseExpired, UploadTypeOK
    <3>3. CASE DeleteExpired
      BY <3>3 DEF DeleteExpired, NotCleaning
    <3>4. QED
      BY <3>1, <3>2, <3>3
  <2>2. upload' \in [UploadIds -> UploadStatuses] /\ object' \subseteq UploadIds
    BY DEF ListExpired, EraseExpired, DeleteExpired, UploadTypeOK, UploadStatuses
  <2>3. QED
    BY <1>1, <2>1, <2>2 DEF UploadTypeOK
<1>3. ASSUME NEW v \in UploadIds PROVE UploadKnows(v)'
  <2>1. UploadKnows(v) /\ v # NoUpload
    BY UploadAssumption
  <2>2. /\ cleaning'.of = v => cleaning.of = v \/ (v \in stale /\ upload'[v] # "USED")
        /\ upload'[v] # upload[v] => upload'[v] = "GONE" /\ cleaning.of = v
        /\ v \in object => v \in object' \/ cleaning.of = v
    <3>1. ASSUME NEW u \in UploadIds, ListExpired(u)
          PROVE  /\ cleaning'.of = u /\ u \in stale /\ upload[u] # "USED"
                 /\ upload' = upload /\ object' = object
      BY <3>1 DEF ListExpired, Expired
    <3>2. CASE EraseExpired
      BY <3>2 DEF EraseExpired
    <3>3. CASE DeleteExpired
      <4>1. cleaning'.of = NoUpload /\ object' = object
        BY <3>3 DEF DeleteExpired, NotCleaning
      <4>2. upload'[v] = IF v = cleaning.of THEN "GONE" ELSE upload[v]
        BY <3>3 DEF DeleteExpired, UploadTypeOK
      <4>3. QED
        BY <2>1, <4>1, <4>2
    <3>4. QED
      BY <3>1, <3>2, <3>3
  <2>3. ConfirmedOnce(v)' /\ ConsumedFresh(v)'
    BY <1>1, <2>1, <2>2 DEF UploadKnows, ConfirmedOnce, ConsumedFresh, Spent
  <2>4. CleanedApart(v)'
    <3>1. upload'[v] = "TEMPORARY" => upload[v] = "TEMPORARY"
      BY <2>2
    <3>2. cleaning.of = v /\ v \notin doubled \cup late =>
            v \in stale /\ upload[v] # "USED" /\ \A p \in Places : image[p] # v
      BY <2>1 DEF UploadKnows, CleanedApart
    <3>3. QED
      BY <1>1, <2>1, <2>2, <3>1, <3>2 DEF UploadKnows, CleanedApart
  <2>5. QED
    BY <2>3, <2>4 DEF UploadKnows
<1>4. ASSUME NEW e \in Editors PROVE EditorKnows(e)'
  BY <1>1 DEF EditorKnows
<1>5. NothingForgotten'
  <2>1. \A v \in UploadIds : upload'[v] = "USED" /\ v \in object' => upload[v] = "USED" /\ v \in object
    BY DEF ListExpired, EraseExpired, DeleteExpired, UploadTypeOK
  <2>2. QED
    BY <1>1, <2>1 DEF NothingForgotten
<1>6. QED
  BY <1>2, <1>3, <1>4, <1>5

\* A replaced image is deleted.
LEMMA DeletionKeeps ==
    ASSUME UploadIInv, NEW u \in UploadIds, ProcessDeletion(u)
    PROVE  UploadIInv'
<1> USE DEF UploadIInv
<1>1. /\ deletion[u] = "DUE" /\ deletion' = [deletion EXCEPT ![u] = "DONE"]
      /\ object' = object \ {u}
      /\ UNCHANGED <<upload, stale, image, confirmer, editor, cleaning, doubled, late, raced>>
  BY DEF ProcessDeletion
<1>2. UploadTypeOK'
  BY <1>1 DEF UploadTypeOK
<1>3. ASSUME NEW v \in UploadIds PROVE UploadKnows(v)'
  <2>1. /\ UploadKnows(v)
        /\ deletion'[v] = IF v = u THEN "DONE" ELSE deletion[v]
        /\ v # u => (v \in object' <=> v \in object)
    BY <1>1 DEF UploadTypeOK
  <2>2. ConfirmedOnce(v)' /\ ConsumedFresh(v)'
    BY <1>1, <2>1 DEF UploadKnows, ConfirmedOnce, ConsumedFresh
  <2>3. v = u /\ v \notin doubled => upload[v] \in Spent
    BY <1>1, <2>1 DEF UploadKnows, ConfirmedOnce
  <2>4. CleanedApart(v)'
    BY <1>1, <2>1, <2>3 DEF UploadKnows, CleanedApart, Spent
  <2>5. QED
    BY <2>2, <2>4 DEF UploadKnows
<1>4. ASSUME NEW e \in Editors PROVE EditorKnows(e)'
  BY <1>1 DEF EditorKnows
<1>5. NothingForgotten'
  BY <1>1 DEF NothingForgotten, UploadTypeOK
<1>6. QED
  BY <1>2, <1>3, <1>4, <1>5

-----------------------------------------------------------------------------
(* The theorem.                                                            *)

\* Every step keeps the invariant.
LEMMA UploadStepKeeps ==
    ASSUME UploadIInv, [UploadNext]_uploadVars
    PROVE  UploadIInv'
<1>1. CASE UNCHANGED uploadVars
  BY <1>1 DEF uploadVars, UploadIInv, UploadTypeOK, NothingForgotten, UploadKnows, ConfirmedOnce,
              ConsumedFresh, CleanedApart, EditorKnows
<1>2. CASE UploadNext
  BY <1>2, AnnounceKeeps, PutKeeps, ReadUploadKeeps, ConfirmKeeps, BeginEditKeeps, EditFailsKeeps,
     CommitEditKeeps, CleaningKeeps, DeletionKeeps DEF UploadNext
<1>3. QED
  BY <1>1, <1>2

\* However confirmations, edits, the cleanup and the queue of deletions overlap,
\* what is shown is in the bucket, shown once, and nothing that was consumed is
\* forgotten (UploadsService, UploadsCleanupService), but for the races named.
THEOREM UploadInvariance == UploadSpec => []UploadInv
<1>1. UploadInit => UploadIInv
  BY InitUploads
<1>2. UploadIInv /\ [UploadNext]_uploadVars => UploadIInv'
  BY UploadStepKeeps
<1>3. UploadIInv => UploadInv
  <2>1. ASSUME UploadIInv PROVE ImageIsThere
    BY <2>1 DEF UploadIInv, UploadTypeOK, UploadKnows, CleanedApart, ImageIsThere
  <2>2. ASSUME UploadIInv PROVE ConsumedOnce
    BY <2>2 DEF UploadIInv, UploadTypeOK, UploadKnows, ConfirmedOnce, ConsumedOnce
  <2>3. QED
    BY <2>1, <2>2 DEF UploadIInv, UploadInv
<1>4. QED
  BY <1>1, <1>2, <1>3, PTL DEF UploadSpec

-----------------------------------------------------------------------------
(***************************************************************************)
(* PushOutbox                                                              *)
(***************************************************************************)
-----------------------------------------------------------------------------
(* The inductive invariant.                                                *)

\* A dispatcher, by what it is made of.
DispatcherStates ==
    [pc : DispatcherPCs, attempt : Nat, stored : BOOLEAN, mine : SUBSET Devices, count : Nat,
     left : SUBSET Devices, batch : SUBSET Devices, bad : SUBSET Devices]

\* A dispatcher that has claimed the delivery.
AtWork(r) == dispatcher[r].pc \notin {"idle", "claim"}

\* What a dispatcher read of the delivery is what is stored.
Knows(r) ==
    /\ dispatcher[r].stored = snapshot
    /\ dispatcher[r].mine = pending
    /\ dispatcher[r].count = sent

\* Without overruns one instance at a time is at work, on the delivery it
\* claimed; who is about to claim it knows it, unless it was claimed meanwhile.
ClaimIsAlone(r) ==
    /\ dispatcher[r].attempt <= attempts
    /\ AtWork(r) =>
           /\ push = "PENDING" /\ ~ripe /\ dispatcher[r].attempt = attempts
           /\ \A q \in Dispatchers : AtWork(q) => q = r
    /\ dispatcher[r].pc = "claim" /\ dispatcher[r].attempt = attempts =>
           Knows(r) /\ \A q \in Dispatchers : ~AtWork(q)
    /\ dispatcher[r].pc = "prepare" => Knows(r)

\* What an attempt still has to send is of the first recipients, has not been
\* pushed to, and is what the delivery still has to send after a checkpoint.
AttemptIsSound(r) ==
    LET d == dispatcher[r] IN
    d.pc \in {"send", "checkpoint", "end"} =>
        /\ snapshot
        /\ d.left \subseteq d.mine /\ d.mine \subseteq recipients
        /\ d.count + Cardinality(d.mine) <= Cardinality(recipients)
        /\ d.pc # "checkpoint" => d.mine = pending /\ d.count = sent
        /\ faults = 0 => \A x \in d.mine : pushes[x] = 0

\* What is pending is of the first recipients; without faults nobody is
\* pushed to twice and what is pending was not pushed.
DeliveryIsSound ==
    /\ pending \subseteq recipients
    /\ ~snapshot => pending = {} /\ recipients = {} /\ sent = 0 /\ \A d \in Devices : pushes[d] = 0
    /\ sent + Cardinality(pending) <= Cardinality(recipients)
    /\ \A d \in Devices : pushes[d] > 0 => d \in recipients
    /\ faults = 0 =>
           /\ \A d \in Devices : pushes[d] <= 1
           /\ (\A r \in Dispatchers : dispatcher[r].pc # "checkpoint") =>
                  \A d \in pending : pushes[d] = 0

\* What holds while no attempt outlives its lease.
WithoutOverruns ==
    /\ \A r \in Dispatchers : ClaimIsAlone(r) /\ AttemptIsSound(r)
    /\ DeliveryIsSound

\* The inductive invariant.
PushIInv ==
    /\ PushTypeOK
    /\ pending \in SUBSET Devices /\ recipients \in SUBSET Devices /\ enabled \in SUBSET Devices
    /\ dispatcher \in [Dispatchers -> DispatcherStates]
    /\ faults \in Nat /\ overruns \in Nat
    /\ outbox # "queued" => push = "NONE"
    /\ overruns = 0 => WithoutOverruns

-----------------------------------------------------------------------------
(* The steps.                                                              *)

\* Who rests is a dispatcher.
LEMMA RestingIsState == Resting \in DispatcherStates /\ Resting.pc = "idle"
BY DEF Resting, DispatcherStates, DispatcherPCs

\* Nobody is at work at first, and nothing has been sent.
LEMMA InitPush == PushInit => PushIInv
<1> SUFFICES ASSUME PushInit PROVE PushIInv
  OBVIOUS
<1> USE DEF PushInit
<1>1. dispatcher \in [Dispatchers -> DispatcherStates] /\ \A r \in Dispatchers : dispatcher[r] = Resting
  BY RestingIsState
<1>2. PushTypeOK
  BY <1>1, RestingIsState DEF PushTypeOK, DeliveryStatuses, DispatcherStates
<1>3. DeliveryIsSound
  BY FS_EmptySet DEF DeliveryIsSound
<1>4. ASSUME NEW r \in Dispatchers PROVE ClaimIsAlone(r) /\ AttemptIsSound(r)
  BY <1>1, RestingIsState DEF ClaimIsAlone, AttemptIsSound, AtWork, Resting
<1>5. QED
  BY <1>1, <1>2, <1>3, <1>4 DEF PushIInv, WithoutOverruns

\* The user and the outbox: nobody is at work on what does not exist yet, and
\* the devices enabled matter only to an attempt that begins.
LEMMA UserKeeps ==
  ASSUME PushIInv, \/ WriteOutbox \/ UpdatePreference \/ Enqueue
                   \/ \E d \in Devices : RemoveDevice(d) \/ RegisterDevice(d)
  PROVE  PushIInv'
<1> USE DEF deliveryVars
<1>1. /\ UNCHANGED <<attempts, ripe, snapshot, pending, sent, dispatcher, recipients, pushes,
                     faults, overruns>>
      /\ enabled' \in SUBSET Devices
  BY DEF PushIInv, WriteOutbox, UpdatePreference, Enqueue, RemoveDevice, RegisterDevice
<1>2. /\ push' = push \/ push = "NONE"
      /\ outbox' # "queued" => push' = "NONE"
      /\ outbox' \in {"none", "written", "queued"} /\ wantsPush' \in BOOLEAN
      /\ push' \in DeliveryStatuses
  BY DEF PushIInv, PushTypeOK, DeliveryStatuses, WriteOutbox, UpdatePreference, Enqueue,
         RemoveDevice, RegisterDevice
<1>3. PushTypeOK'
  BY <1>1, <1>2 DEF PushIInv, PushTypeOK
<1>4. ASSUME overruns = 0, NEW r \in Dispatchers PROVE ClaimIsAlone(r)' /\ AttemptIsSound(r)'
  BY <1>1, <1>2, <1>4 DEF PushIInv, WithoutOverruns, ClaimIsAlone, AttemptIsSound, AtWork, Knows
<1>5. ASSUME overruns = 0 PROVE DeliveryIsSound'
  BY <1>1, <1>5 DEF PushIInv, WithoutOverruns, DeliveryIsSound
<1>6. QED
  BY <1>1, <1>2, <1>3, <1>4, <1>5 DEF PushIInv, WithoutOverruns

\* The frame of a step of a dispatcher r: the others stay as they are.
OthersStay(r) == \A q \in Dispatchers : q # r => dispatcher'[q] = dispatcher[q]

\* A step of r that leaves the delivery alone, but for its status.
SameDelivery ==
    /\ UNCHANGED <<inboxVars, attempts, ripe, snapshot, pending, sent, recipients, pushes, overruns>>
    /\ faults' \in Nat /\ faults' >= faults

\* The other dispatchers stay as they are; this one rests, or reads the
\* delivery it is about to claim.
OnlyDispatcher(r) == dispatcher' \in [Dispatchers -> DispatcherStates] /\ OthersStay(r)
ItRests(r) ==
    /\ dispatcher'[r].pc = "idle" /\ dispatcher'[r].attempt = 0
    /\ push' = push \/ (push' \in DeliveryStatuses /\ push # "NONE" /\ AtWork(r))
    /\ dispatcher[r].pc = "checkpoint" => faults' # faults
ItReads(r) ==
    /\ dispatcher[r].pc = "idle" /\ dispatcher'[r].pc = "claim"
    /\ dispatcher'[r].attempt = attempts /\ Knows(r)'
    /\ push' = push /\ push = "PENDING" /\ ripe

\* A dispatcher that rests or reads leaves the delivery as it was.
LEMMA ReadsOrRests ==
  ASSUME PushIInv, NEW r \in Dispatchers, SameDelivery, OnlyDispatcher(r), ItRests(r) \/ ItReads(r)
  PROVE  PushIInv'
<1> USE DEF OthersStay, SameDelivery, OnlyDispatcher, ItRests, ItReads
<1>1. PushTypeOK'
  BY DEF PushIInv, PushTypeOK, inboxVars, DispatcherStates
<1>2. ASSUME overruns = 0, NEW q \in Dispatchers PROVE ClaimIsAlone(q)' /\ AttemptIsSound(q)'
  <2> USE <1>2 DEF PushIInv, WithoutOverruns
  <2>1. \A p \in Dispatchers : AtWork(p)' => AtWork(p) /\ p # r
    BY DEF AtWork
  <2>2. CASE q = r
    BY <2>1, <2>2 DEF ClaimIsAlone, AttemptIsSound, AtWork, Knows, PushTypeOK
  <2>3. CASE q # r
    <3>1. ClaimIsAlone(q)'
      BY <2>1, <2>3 DEF ClaimIsAlone, AtWork, Knows
    <3>2. AttemptIsSound(q)'
      BY <2>3 DEF AttemptIsSound
    <3>3. QED
      BY <3>1, <3>2
  <2>4. QED
    BY <2>2, <2>3
<1>3. ASSUME overruns = 0 PROVE DeliveryIsSound'
  <2>1. faults' = 0 /\ (\A p \in Dispatchers : dispatcher'[p].pc # "checkpoint") =>
            \A p \in Dispatchers : dispatcher[p].pc # "checkpoint"
    BY <1>3 DEF PushIInv
  <2>2. QED
    BY <1>3, <2>1 DEF PushIInv, WithoutOverruns, DeliveryIsSound
<1>4. outbox' # "queued" => push' = "NONE"
  BY DEF PushIInv, inboxVars
<1>5. QED
  BY <1>1, <1>2, <1>3, <1>4 DEF PushIInv, WithoutOverruns, inboxVars

\* The delivery is read.
LEMMA ReadDeliveryKeeps ==
  ASSUME PushIInv, NEW r \in Dispatchers, ReadDelivery(r)
  PROVE  PushIInv'
<1>1. OnlyDispatcher(r)
  BY DEF PushIInv, PushTypeOK, ReadDelivery, OthersStay, DispatcherStates, DispatcherPCs,
         OnlyDispatcher
<1>2. ItReads(r)
  BY DEF PushIInv, ReadDelivery, ItReads, Knows, deliveryVars
<1>3. SameDelivery
  BY DEF PushIInv, ReadDelivery, SameDelivery, deliveryVars
<1>4. QED
  BY <1>1, <1>2, <1>3, ReadsOrRests

\* What resting is.
LEMMA RestIs ==
  ASSUME PushIInv, NEW r \in Dispatchers, Rest(r)
  PROVE  OnlyDispatcher(r) /\ dispatcher'[r].pc = "idle" /\ dispatcher'[r].attempt = 0
BY RestingIsState DEF PushIInv, Rest, Resting, OthersStay, OnlyDispatcher

\* A dispatcher dies.
LEMMA DispatcherDiesKeeps ==
  ASSUME PushIInv, NEW r \in Dispatchers, DispatcherDies(r)
  PROVE  PushIInv'
<1>1. Rest(r)
  BY DEF DispatcherDies
<1>2. SameDelivery /\ ItRests(r)
  BY <1>1, RestIs DEF PushIInv, DispatcherDies, SameDelivery, ItRests, deliveryVars
<1>3. QED
  BY <1>1, <1>2, RestIs, ReadsOrRests

\* The attempt ends, done or to be tried again.
LEMMA EndAttemptKeeps ==
  ASSUME PushIInv, NEW r \in Dispatchers, EndAttempt(r)
  PROVE  PushIInv'
<1>1. Rest(r) /\ dispatcher[r].pc \in {"end", "error"}
  BY DEF EndAttempt
<1>2. push' = push \/ (push' \in DeliveryStatuses /\ push # "NONE")
  BY DEF EndAttempt, EndStatus, DeliveryStatuses, Claimed
<1>3. ItRests(r)
  BY <1>1, <1>2, RestIs DEF ItRests, AtWork
<1>4. SameDelivery
  BY DEF PushIInv, EndAttempt, SameDelivery
<1>5. QED
  BY <1>1, <1>3, <1>4, RestIs, ReadsOrRests

\* Whoever finds that the delivery is not his any more rests.
LEMMA GivesUpKeeps ==
  ASSUME PushIInv, NEW r \in Dispatchers, Rest(r), dispatcher[r].pc # "checkpoint" \/ overruns # 0,
         UNCHANGED <<inboxVars, push, attempts, ripe, snapshot, pending, sent, recipients, pushes,
                     faults, overruns>>
  PROVE  PushIInv'
<1>1. SameDelivery
  BY DEF PushIInv, SameDelivery
<1>2. CASE overruns # 0
  BY <1>1, <1>2, RestIs DEF PushIInv, PushTypeOK, OnlyDispatcher, SameDelivery, DispatcherStates,
                            inboxVars
<1>3. CASE dispatcher[r].pc # "checkpoint"
  BY <1>1, <1>3, RestIs, ReadsOrRests DEF ItRests
<1>4. QED
  BY <1>2, <1>3

\* The claim begins an attempt that knows the delivery.
LEMMA ClaimKeeps ==
  ASSUME PushIInv, NEW r \in Dispatchers, ClaimDelivery(r)
  PROVE  PushIInv'
<1> USE DEF OthersStay
<1>1. CASE ~(Claimed(r) /\ ripe)
  <2>1. Rest(r) /\ dispatcher[r].pc = "claim"
        /\ UNCHANGED <<inboxVars, push, attempts, ripe, snapshot, pending, sent, recipients, pushes,
                       faults, overruns>>
    BY <1>1 DEF ClaimDelivery
  <2>2. QED
    BY <2>1, GivesUpKeeps
<1>2. CASE Claimed(r) /\ ripe
  <2>1. /\ dispatcher[r].pc = "claim" /\ push = "PENDING" /\ dispatcher[r].attempt = attempts
        /\ attempts' = attempts + 1 /\ ripe' = FALSE
        /\ dispatcher' = [dispatcher EXCEPT ![r].pc = "prepare", ![r].attempt = @ + 1]
        /\ UNCHANGED <<inboxVars, push, snapshot, pending, sent, recipients, pushes, faults, overruns>>
    BY <1>2 DEF ClaimDelivery, Claimed, NextAttempt
  <2>2. /\ dispatcher' \in [Dispatchers -> DispatcherStates]
        /\ OthersStay(r)
        /\ dispatcher'[r].pc = "prepare" /\ dispatcher'[r].attempt = attempts'
        /\ dispatcher'[r].stored = dispatcher[r].stored /\ dispatcher'[r].mine = dispatcher[r].mine
        /\ dispatcher'[r].count = dispatcher[r].count
    BY <2>1 DEF PushIInv, DispatcherStates, DispatcherPCs
  <2>3. PushTypeOK'
    BY <2>1, <2>2 DEF PushIInv, PushTypeOK, inboxVars, DispatcherStates
  <2>4. ASSUME overruns = 0, NEW q \in Dispatchers PROVE ClaimIsAlone(q)' /\ AttemptIsSound(q)'
    <3> USE <2>4 DEF PushIInv, WithoutOverruns
    <3>1. Knows(r) /\ \A p \in Dispatchers : ~AtWork(p)
      BY <2>1 DEF ClaimIsAlone
    <3>2. \A p \in Dispatchers : AtWork(p)' => p = r
      BY <2>2, <3>1 DEF AtWork
    <3>3. CASE q = r
      BY <2>1, <2>2, <3>1, <3>2, <3>3 DEF ClaimIsAlone, AttemptIsSound, AtWork, Knows, PushTypeOK
    <3>4. CASE q # r
      <4>1. dispatcher[q].attempt <= attempts /\ dispatcher'[q] = dispatcher[q] /\ ~AtWork(q)
            /\ dispatcher[q].attempt \in Nat /\ attempts \in Nat
        BY <2>2, <3>1, <3>4 DEF ClaimIsAlone, PushTypeOK, DispatcherStates
      <4>2. attempts' = attempts + 1
        BY <2>1
      <4>3. dispatcher'[q].attempt <= attempts' /\ dispatcher'[q].attempt # attempts'
        BY <4>1, <4>2
      <4>4. QED
        BY <4>1, <4>3 DEF ClaimIsAlone, AttemptIsSound, AtWork
    <3>5. QED
      BY <3>3, <3>4
  <2>5. ASSUME overruns = 0 PROVE DeliveryIsSound'
    <3>1. (\A p \in Dispatchers : dispatcher'[p].pc # "checkpoint") =>
              \A p \in Dispatchers : dispatcher[p].pc # "checkpoint"
      BY <2>1, <2>2
    <3>2. QED
      BY <2>1, <2>5, <3>1 DEF PushIInv, WithoutOverruns, DeliveryIsSound
  <2>6. QED
    BY <2>1, <2>2, <2>3, <2>4, <2>5 DEF PushIInv, WithoutOverruns, inboxVars
<1>3. QED
  BY <1>1, <1>2

\* Nobody gives up while no claim ended early: who is at work holds the claim.
LEMMA HoldsItsClaim ==
  ASSUME PushIInv, NEW r \in Dispatchers, AtWork(r), overruns = 0
  PROVE  Claimed(r) /\ ~ripe /\ \A q \in Dispatchers : AtWork(q) => q = r
BY DEF PushIInv, WithoutOverruns, ClaimIsAlone, Claimed

\* What a step of the one that is at work must show of the delivery and of its
\* attempt; the others are idle or about to claim an attempt that is over.
LEMMA WorkerKeeps ==
  ASSUME PushIInv, NEW r \in Dispatchers, AtWork(r), OnlyDispatcher(r), PushTypeOK',
         pending' \in SUBSET Devices, recipients' \in SUBSET Devices, enabled' \in SUBSET Devices,
         faults' \in Nat, UNCHANGED <<outbox, push, attempts, overruns>>,
         overruns = 0 =>
             /\ ~ripe' /\ AtWork(r)' /\ dispatcher'[r].pc # "prepare"
             /\ dispatcher'[r].attempt = attempts
             /\ AttemptIsSound(r)' /\ DeliveryIsSound'
  PROVE  PushIInv'
<1>1. ASSUME overruns = 0, NEW q \in Dispatchers PROVE ClaimIsAlone(q)' /\ AttemptIsSound(q)'
  <2>1. /\ push = "PENDING" /\ dispatcher[r].attempt = attempts
        /\ \A p \in Dispatchers : AtWork(p) => p = r
        /\ \A p \in Dispatchers : dispatcher[p].attempt <= attempts
    BY <1>1 DEF PushIInv, WithoutOverruns, ClaimIsAlone
  <2>2. \A p \in Dispatchers : AtWork(p)' => p = r
    BY <2>1 DEF OnlyDispatcher, OthersStay, AtWork
  <2>3. CASE q = r
    BY <1>1, <2>1, <2>2, <2>3 DEF ClaimIsAlone, AtWork, PushIInv, PushTypeOK
  <2>4. CASE q # r
    <3>1. dispatcher'[q] = dispatcher[q] /\ ~AtWork(q)
      BY <2>1, <2>4 DEF OnlyDispatcher, OthersStay
    <3>2. ~(dispatcher[q].pc = "claim" /\ dispatcher[q].attempt = attempts)
      BY <1>1 DEF PushIInv, WithoutOverruns, ClaimIsAlone
    <3>3. QED
      BY <2>1, <3>1, <3>2 DEF ClaimIsAlone, AttemptIsSound, AtWork
  <2>5. QED
    BY <2>3, <2>4
<1>2. QED
  BY <1>1 DEF PushIInv, WithoutOverruns, OnlyDispatcher

\* The recipients are stored before the first push.
LEMMA PrepareKeeps ==
  ASSUME PushIInv, NEW r \in Dispatchers, Prepare(r)
  PROVE  PushIInv'
<1> DEFINE d    == dispatcher[r]
           mine == Recipients(r)
<1>1. d.pc = "prepare" /\ AtWork(r) /\ d \in DispatcherStates /\ mine \in SUBSET Devices
  BY DEF PushIInv, Prepare, AtWork, Recipients, DispatcherStates
<1>2. CASE ~Claimed(r)
  <2>1. Rest(r) /\ UNCHANGED <<inboxVars, push, attempts, ripe, snapshot, pending, sent, recipients,
                               pushes, faults, overruns>>
    BY <1>2 DEF Prepare
  <2>2. QED
    BY <1>1, <2>1, GivesUpKeeps
<1>3. CASE Claimed(r)
  <2>1. /\ snapshot' = TRUE /\ pending' = mine /\ sent' = d.count /\ ripe' = FALSE
        /\ recipients' = IF snapshot THEN recipients ELSE mine
        /\ dispatcher' = [dispatcher EXCEPT ![r].mine = mine, ![r].left = mine,
                                            ![r].pc = IF mine = {} THEN "end" ELSE "send"]
        /\ UNCHANGED <<outbox, wantsPush, enabled, push, attempts, pushes, faults, overruns>>
    BY <1>3 DEF Prepare, inboxVars
  <2>2. OnlyDispatcher(r) /\ dispatcher'[r].pc \in {"end", "send"}
        /\ dispatcher'[r].mine = mine /\ dispatcher'[r].left = mine
        /\ dispatcher'[r].count = d.count /\ dispatcher'[r].attempt = d.attempt
    BY <1>1, <2>1 DEF PushIInv, OnlyDispatcher, OthersStay, DispatcherStates, DispatcherPCs
  <2>3. PushTypeOK' /\ recipients' \in SUBSET Devices
    BY <1>1, <2>1, <2>2 DEF PushIInv, PushTypeOK, OnlyDispatcher, DispatcherStates
  <2>4. ASSUME overruns = 0
        PROVE  AttemptIsSound(r)' /\ DeliveryIsSound' /\ d.attempt = attempts
    <3>1. Knows(r) /\ d.attempt = attempts /\ \A q \in Dispatchers : AtWork(q) => q = r
      BY <1>1, <2>4 DEF PushIInv, WithoutOverruns, ClaimIsAlone
    <3>2. DeliveryIsSound /\ \A q \in Dispatchers : dispatcher[q].pc # "checkpoint"
      BY <1>1, <2>4, <3>1 DEF PushIInv, WithoutOverruns, AtWork
    <3>3. IsFiniteSet(pending) /\ IsFiniteSet(mine) /\ Cardinality(mine) \in Nat
          /\ Cardinality(pending) \in Nat /\ Cardinality(recipients) \in Nat
      BY <1>1, PushAssumption, FS_Subset, FS_CardinalityType DEF PushIInv
    <3>4. /\ mine \subseteq recipients'
          /\ sent' + Cardinality(mine) <= Cardinality(recipients')
          /\ snapshot => Cardinality(mine) <= Cardinality(pending)
          /\ faults = 0 => \A x \in mine : pushes[x] = 0
      <4>1. CASE snapshot
        <5>1. mine \subseteq pending /\ sent' = sent /\ recipients' = recipients
          BY <2>1, <3>1, <4>1 DEF Recipients, Knows
        <5>2. Cardinality(mine) <= Cardinality(pending)
          BY <3>3, <5>1, FS_Subset
        <5>3. sent \in Nat /\ sent + Cardinality(pending) <= Cardinality(recipients)
              /\ pending \subseteq recipients
          BY <3>2 DEF DeliveryIsSound, PushIInv, PushTypeOK
        <5>4. sent + Cardinality(mine) <= Cardinality(recipients)
          BY <3>3, <5>2, <5>3
        <5>5. faults = 0 => \A x \in mine : pushes[x] = 0
          BY <3>2, <5>1 DEF DeliveryIsSound
        <5>6. QED
          BY <5>1, <5>2, <5>3, <5>4, <5>5
      <4>2. CASE ~snapshot
        <5>1. sent' = 0 /\ recipients' = mine /\ \A x \in mine : pushes[x] = 0
          BY <1>1, <2>1, <3>1, <3>2, <4>2 DEF Knows, DeliveryIsSound
        <5>2. QED
          BY <3>3, <4>2, <5>1
      <4>3. QED
        BY <4>1, <4>2
    <3>5. DeliveryIsSound'
      BY <2>1, <3>1, <3>2, <3>4 DEF DeliveryIsSound
    <3>6. AttemptIsSound(r)'
      BY <2>1, <2>2, <3>4 DEF AttemptIsSound
    <3>7. QED
      BY <3>1, <3>5, <3>6
  <2>5. AtWork(r)' /\ dispatcher'[r].pc # "prepare"
    BY <2>2 DEF AtWork
  <2>6. QED
    BY <1>1, <2>1, <2>2, <2>3, <2>4, <2>5, WorkerKeeps DEF PushIInv
<1>4. QED
  BY <1>2, <1>3

\* What the provider pushed to is not to be sent to again.
LEMMA LessIsLeft ==
  ASSUME NEW mine \in SUBSET Devices, NEW ok \in SUBSET mine, NEW bad \in SUBSET mine
  PROVE  /\ Cardinality(ok) \in Nat /\ Cardinality(mine) \in Nat
         /\ Cardinality(mine \ (ok \cup bad)) \in Nat
         /\ Cardinality(ok) + Cardinality(mine \ (ok \cup bad)) <= Cardinality(mine)
<1>1. IsFiniteSet(mine) /\ IsFiniteSet(ok) /\ IsFiniteSet(mine \ ok)
  BY PushAssumption, FS_Subset
<1>2. Cardinality(mine \ ok) = Cardinality(mine) - Cardinality(mine \cap ok) /\ mine \cap ok = ok
  BY <1>1, FS_Difference
<1>3. mine \ (ok \cup bad) \in SUBSET (mine \ ok)
  OBVIOUS
<1>4. Cardinality(mine \ (ok \cup bad)) <= Cardinality(mine \ ok)
      /\ IsFiniteSet(mine \ (ok \cup bad))
  BY <1>1, <1>3, FS_Subset
<1>5. /\ Cardinality(ok) \in Nat /\ Cardinality(mine) \in Nat
      /\ Cardinality(mine \ (ok \cup bad)) \in Nat /\ Cardinality(mine \ ok) \in Nat
  BY <1>1, <1>4, FS_CardinalityType
<1>6. Cardinality(mine \ ok) = Cardinality(mine) - Cardinality(ok)
  BY <1>2
<1>7. QED
  BY <1>4, <1>5, <1>6

\* A batch is pushed.
LEMMA SendKeeps ==
  ASSUME PushIInv, NEW r \in Dispatchers, SendPushBatch(r)
  PROVE  PushIInv'
<1> DEFINE d == dispatcher[r]
<1>1. d.pc = "send" /\ AtWork(r) /\ d \in DispatcherStates
      /\ UNCHANGED <<inboxVars, deliveryVars, recipients, faults, overruns>>
  BY DEF PushIInv, SendPushBatch, AtWork
<1>2. PICK batch \in SUBSET d.left : \E ok \in SUBSET batch : \E bad \in SUBSET (batch \ ok) :
              /\ pushes' = [x \in Devices |-> IF x \in ok THEN pushes[x] + 1 ELSE pushes[x]]
              /\ dispatcher' = [dispatcher EXCEPT ![r].pc = "checkpoint",
                     ![r].mine = @ \ (ok \cup bad), ![r].count = @ + Cardinality(ok),
                     ![r].left = @ \ batch, ![r].batch = batch, ![r].bad = bad]
  BY DEF SendPushBatch
<1>3. PICK ok \in SUBSET batch : \E bad \in SUBSET (batch \ ok) :
              /\ pushes' = [x \in Devices |-> IF x \in ok THEN pushes[x] + 1 ELSE pushes[x]]
              /\ dispatcher' = [dispatcher EXCEPT ![r].pc = "checkpoint",
                     ![r].mine = @ \ (ok \cup bad), ![r].count = @ + Cardinality(ok),
                     ![r].left = @ \ batch, ![r].batch = batch, ![r].bad = bad]
  BY <1>2
<1>4. PICK bad \in SUBSET (batch \ ok) :
              /\ pushes' = [x \in Devices |-> IF x \in ok THEN pushes[x] + 1 ELSE pushes[x]]
              /\ dispatcher' = [dispatcher EXCEPT ![r].pc = "checkpoint",
                     ![r].mine = @ \ (ok \cup bad), ![r].count = @ + Cardinality(ok),
                     ![r].left = @ \ batch, ![r].batch = batch, ![r].bad = bad]
  BY <1>3
<1>5. ok \in SUBSET Devices /\ bad \in SUBSET Devices /\ batch \in SUBSET Devices
      /\ Cardinality(ok) \in Nat
  BY <1>1, PushAssumption, FS_Subset, FS_CardinalityType DEF DispatcherStates
<1>6. /\ OnlyDispatcher(r) /\ dispatcher'[r].pc = "checkpoint"
      /\ dispatcher'[r].attempt = d.attempt
      /\ dispatcher'[r].mine = d.mine \ (ok \cup bad) /\ dispatcher'[r].left = d.left \ batch
      /\ dispatcher'[r].count = d.count + Cardinality(ok)
  <2>1. d.mine \ (ok \cup bad) \in SUBSET Devices /\ d.count + Cardinality(ok) \in Nat
        /\ d.left \ batch \in SUBSET Devices
    BY <1>1, <1>5 DEF DispatcherStates
  <2>2. dispatcher \in [Dispatchers -> DispatcherStates]
    BY DEF PushIInv
  <2>3. QED
    BY <1>1, <1>4, <1>5, <2>1, <2>2 DEF OnlyDispatcher, OthersStay, DispatcherStates, DispatcherPCs
<1>7. PushTypeOK'
  <2>1. pushes' \in [Devices -> Nat]
    BY <1>4 DEF PushIInv, PushTypeOK
  <2>2. QED
    BY <1>1, <1>6, <2>1 DEF PushIInv, PushTypeOK, inboxVars, deliveryVars, OnlyDispatcher,
                            DispatcherStates
<1>8. ASSUME overruns = 0
      PROVE  AttemptIsSound(r)' /\ DeliveryIsSound' /\ d.attempt = attempts /\ ~ripe
  <2>1. d.attempt = attempts /\ ~ripe
    BY <1>1, <1>8 DEF PushIInv, WithoutOverruns, ClaimIsAlone
  <2>2. /\ snapshot /\ d.left \subseteq d.mine /\ d.mine \subseteq recipients
        /\ d.count + Cardinality(d.mine) <= Cardinality(recipients)
        /\ d.mine = pending /\ d.count = sent
        /\ faults = 0 => \A x \in d.mine : pushes[x] = 0
    BY <1>1, <1>8 DEF PushIInv, WithoutOverruns, AttemptIsSound
  <2>3. d.mine \in SUBSET Devices /\ ok \in SUBSET d.mine /\ bad \in SUBSET d.mine
    BY <1>1, <2>2 DEF DispatcherStates
  <2>4. dispatcher'[r].count + Cardinality(dispatcher'[r].mine) <= Cardinality(recipients)
    <3>1. /\ Cardinality(ok) \in Nat /\ Cardinality(d.mine) \in Nat
          /\ Cardinality(d.mine \ (ok \cup bad)) \in Nat
          /\ Cardinality(ok) + Cardinality(d.mine \ (ok \cup bad)) <= Cardinality(d.mine)
      BY <2>3, LessIsLeft
    <3>2. d.count \in Nat /\ Cardinality(recipients) \in Nat
      BY <1>1, PushAssumption, FS_Subset, FS_CardinalityType DEF DispatcherStates, PushIInv
    <3>3. (d.count + Cardinality(ok)) + Cardinality(d.mine \ (ok \cup bad)) <= Cardinality(recipients)
      BY <2>2, <3>1, <3>2
    <3>4. QED
      BY <1>6, <3>3
  <2>5. DeliveryIsSound
    BY <1>8 DEF PushIInv, WithoutOverruns
  <2>6. DeliveryIsSound'
    <3>1. \A x \in Devices : pushes'[x] > 0 => x \in recipients
      BY <1>4, <2>2, <2>3, <2>5 DEF DeliveryIsSound
    <3>2. faults = 0 => \A x \in Devices : pushes'[x] <= 1
      BY <1>4, <2>2, <2>3, <2>5 DEF DeliveryIsSound
    <3>3. QED
      BY <1>1, <1>6, <2>2, <2>5, <3>1, <3>2 DEF DeliveryIsSound, deliveryVars
  <2>7. AttemptIsSound(r)'
    <3>1. faults = 0 => \A x \in d.mine \ (ok \cup bad) : pushes'[x] = 0
      BY <1>4, <2>2, <2>3
    <3>2. d.left \ batch \subseteq d.mine \ (ok \cup bad)
      BY <2>2
    <3>3. QED
      BY <1>1, <1>6, <2>2, <2>4, <3>1, <3>2 DEF AttemptIsSound, deliveryVars
  <2>8. QED
    BY <2>1, <2>6, <2>7
<1>9. AtWork(r)' /\ dispatcher'[r].pc # "prepare"
  BY <1>6 DEF AtWork
<1>10. UNCHANGED <<outbox, enabled, push, attempts, ripe, pending, recipients, faults, overruns>>
  BY <1>1 DEF inboxVars, deliveryVars
<1>11. QED
  BY <1>1, <1>6, <1>7, <1>8, <1>9, <1>10, WorkerKeeps DEF PushIInv

\* The provider fails for a batch, of which some were pushed to.
LEMMA ThrowsKeeps ==
  ASSUME PushIInv, NEW r \in Dispatchers, SendThrows(r)
  PROVE  PushIInv'
<1> DEFINE d == dispatcher[r]
<1>1. d.pc = "send" /\ AtWork(r) /\ d \in DispatcherStates
      /\ UNCHANGED <<outbox, wantsPush, enabled, deliveryVars, recipients, overruns>>
      /\ faults' \in Nat
      /\ \/ UNCHANGED <<pushes, faults>>
         \/ /\ faults' # 0
            /\ \E x \in d.left : pushes' = [pushes EXCEPT ![x] = @ + 1]
  BY DEF PushIInv, SendThrows, AtWork, inboxVars
<1>2. OnlyDispatcher(r) /\ dispatcher'[r].pc = "error" /\ dispatcher'[r].attempt = d.attempt
  BY DEF PushIInv, SendThrows, Step, OnlyDispatcher, OthersStay, DispatcherStates, DispatcherPCs
<1>3. PushTypeOK'
  <2>1. pushes' \in [Devices -> Nat]
    BY <1>1 DEF PushIInv, PushTypeOK, DispatcherStates
  <2>2. QED
    BY <1>1, <1>2, <2>1 DEF PushIInv, PushTypeOK, deliveryVars, OnlyDispatcher, DispatcherStates
<1>4. ASSUME overruns = 0 PROVE DeliveryIsSound' /\ d.attempt = attempts /\ ~ripe
  <2>1. d.attempt = attempts /\ ~ripe /\ \A q \in Dispatchers : AtWork(q) => q = r
    BY <1>1, <1>4 DEF PushIInv, WithoutOverruns, ClaimIsAlone
  <2>2. DeliveryIsSound /\ d.left \subseteq recipients /\ snapshot
        /\ \A q \in Dispatchers : dispatcher[q].pc # "checkpoint"
    BY <1>1, <1>4, <2>1 DEF PushIInv, WithoutOverruns, AttemptIsSound, AtWork
  <2>3. faults = 0 => \A x \in pending : pushes[x] = 0
    BY <2>2 DEF DeliveryIsSound
  <2>4. CASE UNCHANGED <<pushes, faults>>
    BY <1>1, <2>1, <2>2, <2>3, <2>4 DEF DeliveryIsSound, deliveryVars
  <2>5. CASE faults' # 0 /\ \E x \in d.left : pushes' = [pushes EXCEPT ![x] = @ + 1]
    <3>1. \A x \in Devices : pushes'[x] > 0 => x \in recipients
      BY <2>2, <2>5 DEF DeliveryIsSound, PushIInv, PushTypeOK
    <3>2. QED
      BY <1>1, <2>1, <2>2, <2>5, <3>1 DEF DeliveryIsSound, deliveryVars, PushIInv
  <2>6. QED
    BY <1>1, <2>1, <2>4, <2>5
<1>5. AtWork(r)' /\ dispatcher'[r].pc # "prepare" /\ AttemptIsSound(r)'
  BY <1>2 DEF AtWork, AttemptIsSound
<1>6. UNCHANGED <<outbox, enabled, push, attempts, ripe, pending, recipients, overruns>>
  BY <1>1 DEF deliveryVars
<1>7. QED
  BY <1>1, <1>2, <1>3, <1>4, <1>5, <1>6, WorkerKeeps DEF PushIInv

\* What was pushed is stored.
LEMMA CheckpointKeeps ==
  ASSUME PushIInv, NEW r \in Dispatchers, Checkpoint(r)
  PROVE  PushIInv'
<1> DEFINE d == dispatcher[r]
<1>1. d.pc = "checkpoint" /\ AtWork(r) /\ d \in DispatcherStates
  BY DEF PushIInv, Checkpoint, AtWork
<1>2. CASE ~Claimed(r)
  <2>1. Rest(r) /\ UNCHANGED <<inboxVars, push, attempts, ripe, snapshot, pending, sent, recipients,
                               pushes, faults, overruns>>
    BY <1>2 DEF Checkpoint, inboxVars
  <2>2. overruns # 0
    BY <1>1, <1>2, HoldsItsClaim
  <2>3. QED
    BY <2>1, <2>2, GivesUpKeeps
<1>3. CASE Claimed(r)
  <2>1. /\ pending' = d.mine /\ sent' = d.count /\ ripe' = FALSE
        /\ enabled' = enabled \ d.bad
        /\ dispatcher' = [dispatcher EXCEPT ![r].pc = IF d.left = {} THEN "end" ELSE "send",
                                            ![r].batch = {}, ![r].bad = {}]
        /\ UNCHANGED <<outbox, wantsPush, push, attempts, snapshot, recipients, pushes,
                       faults, overruns>>
    BY <1>3 DEF Checkpoint
  <2>2. OnlyDispatcher(r) /\ dispatcher'[r].pc \in {"end", "send"}
        /\ dispatcher'[r].mine = d.mine /\ dispatcher'[r].left = d.left
        /\ dispatcher'[r].count = d.count /\ dispatcher'[r].attempt = d.attempt
    BY <1>1, <2>1 DEF PushIInv, OnlyDispatcher, OthersStay, DispatcherStates, DispatcherPCs
  <2>3. PushTypeOK' /\ pending' \in SUBSET Devices /\ enabled' \in SUBSET Devices
    BY <1>1, <2>1, <2>2 DEF PushIInv, PushTypeOK, OnlyDispatcher, DispatcherStates
  <2>4. ASSUME overruns = 0 PROVE AttemptIsSound(r)' /\ DeliveryIsSound' /\ d.attempt = attempts
    <3>1. d.attempt = attempts
      BY <1>1, <2>4 DEF PushIInv, WithoutOverruns, ClaimIsAlone
    <3>2. /\ snapshot /\ d.left \subseteq d.mine /\ d.mine \subseteq recipients
          /\ d.count + Cardinality(d.mine) <= Cardinality(recipients)
          /\ faults = 0 => \A x \in d.mine : pushes[x] = 0
      BY <1>1, <2>4 DEF PushIInv, WithoutOverruns, AttemptIsSound
    <3>3. AttemptIsSound(r)'
      BY <2>1, <2>2, <3>2 DEF AttemptIsSound
    <3>4. DeliveryIsSound'
      BY <2>1, <2>4, <3>2 DEF PushIInv, WithoutOverruns, DeliveryIsSound
    <3>5. QED
      BY <3>1, <3>3, <3>4
  <2>5. AtWork(r)' /\ dispatcher'[r].pc # "prepare"
    BY <2>2 DEF AtWork
  <2>6. recipients' \in SUBSET Devices /\ faults' \in Nat
    BY <2>1 DEF PushIInv
  <2>7. QED
    BY <1>1, <2>1, <2>2, <2>3, <2>4, <2>5, <2>6, WorkerKeeps
<1>4. QED
  BY <1>2, <1>3

\* The claim ends: without overruns nobody is at work then.
LEMMA RipensKeeps ==
  ASSUME PushIInv, Ripens
  PROVE  PushIInv'
<1>1. /\ push = "PENDING" /\ ripe' = TRUE
      /\ overruns' = IF \E r \in Dispatchers : Working(r) THEN overruns + 1 ELSE overruns
      /\ UNCHANGED <<outbox, wantsPush, enabled, push, attempts, snapshot, pending, sent, dispatcher,
                     recipients, pushes, faults>>
  BY DEF Ripens, inboxVars
<1>2. PushTypeOK' /\ overruns' \in Nat
  BY <1>1 DEF PushIInv, PushTypeOK
<1>3. ASSUME overruns' = 0 PROVE WithoutOverruns'
  <2>1. overruns = 0 /\ \A r \in Dispatchers : ~Working(r)
    BY <1>1, <1>3 DEF PushIInv
  <2>2. \A r \in Dispatchers : ClaimIsAlone(r) /\ AttemptIsSound(r) /\ ~AtWork(r)
    BY <2>1 DEF PushIInv, WithoutOverruns, ClaimIsAlone, AtWork, Working
  <2>3. \A r \in Dispatchers : ClaimIsAlone(r)' /\ AttemptIsSound(r)'
    BY <1>1, <2>2 DEF ClaimIsAlone, AttemptIsSound, AtWork, Knows
  <2>4. DeliveryIsSound'
    BY <1>1, <2>1 DEF PushIInv, WithoutOverruns, DeliveryIsSound
  <2>5. QED
    BY <2>3, <2>4 DEF WithoutOverruns
<1>4. QED
  BY <1>1, <1>2, <1>3 DEF PushIInv

\* Every step of the outbox keeps the invariant.
LEMMA PushStepKeeps == PushIInv /\ [PushNext]_pushVars => PushIInv'
<1> SUFFICES ASSUME PushIInv, [PushNext]_pushVars PROVE PushIInv'
  OBVIOUS
<1>1. CASE UNCHANGED pushVars
  BY <1>1 DEF PushIInv, PushTypeOK, WithoutOverruns, ClaimIsAlone, AttemptIsSound, DeliveryIsSound,
              AtWork, Knows, pushVars, inboxVars, deliveryVars
<1>2. CASE \/ WriteOutbox \/ UpdatePreference \/ Enqueue
           \/ \E d \in Devices : RemoveDevice(d) \/ RegisterDevice(d)
  BY <1>2, UserKeeps
<1>3. ASSUME NEW r \in Dispatchers, DispatcherStep(r) \/ DispatcherDies(r) PROVE PushIInv'
  BY <1>3, ReadDeliveryKeeps, ClaimKeeps, PrepareKeeps, SendKeeps, ThrowsKeeps, CheckpointKeeps,
     EndAttemptKeeps, DispatcherDiesKeeps DEF DispatcherStep
<1>4. CASE Ripens
  BY <1>4, RipensKeeps
<1>5. QED
  BY <1>1, <1>2, <1>3, <1>4 DEF PushNext

\* Nobody is pushed to twice unless an attempt outlived its lease or a fault
\* hid what was sent, and nobody but the first recipients
\* (push-dispatcher.service.ts).
THEOREM PushInvariance == PushSpec => []PushInv
<1>1. PushIInv => PushInv
  BY DEF PushIInv, PushInv, WithoutOverruns, DeliveryIsSound, OnlyFirstRecipients, CheckpointsHold
<1>2. QED
  BY <1>1, InitPush, PushStepKeeps, PTL DEF PushSpec
-----------------------------------------------------------------------------
(***************************************************************************)
(* Redemption                                                              *)
(***************************************************************************)
USE DEF Rights

-----------------------------------------------------------------------------
(* One right at a time.                                                    *)

\* What the invariants say of one right.
RightInv(r) ==
    /\ validations[r] <= 1 + reversals[r] + exits[r]
    /\ status[r] = "AVAILABLE" => validations[r] <= reversals[r] + exits[r]
    /\ r \notin Deliveries => count[r] = validations[r] - reversals[r]

\* The invariants of the rights are those of each right.
LEMMA RightByRight ==
    UsesAreJustified /\ CountsAreAudited /\ AvailableHasUseLeft
        <=> \A r \in Rights : RightInv(r)
BY DEF UsesAreJustified, CountsAreAudited, AvailableHasUseLeft, RightInv

\* Taking rights back touches neither their counters nor their audit trail, and
\* none becomes available.
LEMMA RevokeKeeps ==
    ASSUME RedemptionTypeOK, NEW R, Revoke(R), UNCHANGED exits,
           \A r \in Rights : RightInv(r)
    PROVE  /\ status' \in [Rights -> RightStatuses]
           /\ revoked' \in [Rights -> BOOLEAN]
           /\ \A r \in Rights : RightInv(r)'
<1> DEFINE taken == {r \in R : status[r] = "AVAILABLE"}
<1>1. /\ status' = [r \in Rights |-> IF r \in taken THEN "CANCELLED" ELSE status[r]]
      /\ revoked' = [r \in Rights |-> r \in taken \/ revoked[r]]
      /\ UNCHANGED <<count, validations, reversals>>
  BY DEF Revoke, auditVars
<1> HIDE DEF taken
<1>2. status' \in [Rights -> RightStatuses]
  BY <1>1 DEF RedemptionTypeOK, RightStatuses
<1>3. revoked' \in [Rights -> BOOLEAN]
  BY <1>1 DEF RedemptionTypeOK
<1>4. ASSUME NEW r \in Rights PROVE RightInv(r)'
  <2>1. status'[r] = "AVAILABLE" => status[r] = "AVAILABLE"
    BY <1>1
  <2>2. RightInv(r)
    OBVIOUS
  <2>3. QED
    BY <1>1, <2>1, <2>2 DEF RightInv
<1>5. QED
  BY <1>2, <1>3, <1>4

-----------------------------------------------------------------------------
(* The step of a request that ends.                                        *)

\* A request that ends forgets what it knew.
LEMMA DoneTypes ==
    ASSUME RedemptionTypeOK, NEW s \in Staff, Done(s)
    PROVE  /\ pc' \in [Staff -> PCs]
           /\ right' \in [Staff -> Rights]
           /\ seen' \in [Staff -> [count : Int, used : BOOLEAN]]
           /\ target' \in [Staff -> 0..MaxCapacity]
<1>1. NoRight \in Rights
  BY RedemptionAssumption DEF NoRight
<1>2. Unseen \in [count : Int, used : BOOLEAN]
  BY DEF Unseen
<1>3. 0 \in 0..MaxCapacity
  BY RedemptionAssumption
<1>4. QED
  BY <1>1, <1>2, <1>3 DEF Done, RedemptionTypeOK, PCs

-----------------------------------------------------------------------------
(* The people inside, as a set.                                            *)

\* The tickets inside are finitely many.
LEMMA InsideIsFinite == IsFiniteSet(Inside)
BY RedemptionAssumption, FS_Subset, Inside \subseteq Tickets DEF Inside

\* A ticket that enters adds one person.
LEMMA OneMoreInside ==
    ASSUME NEW t \in Tickets, move[t] # "ENTRY",
           move' = [u \in Tickets |-> IF u = t THEN "ENTRY" ELSE move[u]]
    PROVE  Cardinality(Inside') = Cardinality(Inside) + 1
<1>1. Inside' = Inside \cup {t} /\ t \notin Inside
  BY DEF Inside
<1>2. QED
  BY <1>1, InsideIsFinite, FS_AddElement

\* A ticket that leaves takes one away.
LEMMA OneLessInside ==
    ASSUME NEW t \in Tickets, move[t] = "ENTRY", RedemptionTypeOK,
           move' = [move EXCEPT ![t] = "EXIT"]
    PROVE  Cardinality(Inside') = Cardinality(Inside) - 1
<1>1. Inside' = Inside \ {t} /\ t \in Inside
  BY DEF Inside, RedemptionTypeOK
<1>2. Cardinality(Inside \ {t}) = Cardinality(Inside) - 1
  BY <1>1, InsideIsFinite, FS_RemoveElement
<1>3. QED
  BY <1>1, <1>2

\* The number of tickets inside is a number.
LEMMA InsideCount == Cardinality(Inside) \in Nat
BY InsideIsFinite, FS_CardinalityType

-----------------------------------------------------------------------------
(* The initial state.                                                      *)

\* Everything holds when the orders have just been paid.
LEMMA RedemptionInit == Init => RedemptionInv
<1> SUFFICES ASSUME Init PROVE RedemptionInv
  OBVIOUS
<1>1. RedemptionTypeOK
  <2>1. NoRight \in Rights
    BY RedemptionAssumption DEF NoRight
  <2>2. capacity \in 0..MaxCapacity /\ 0 \in 0..MaxCapacity
    BY RedemptionAssumption DEF Init
  <2>3. /\ status \in [Rights -> RightStatuses] /\ count \in [Rights -> Int]
        /\ usedAt \in [Rights -> BOOLEAN] /\ revoked \in [Rights -> BOOLEAN]
        /\ validations \in [Rights -> Nat] /\ reversals \in [Rights -> Nat]
        /\ audit \in [Rights -> {"NONE", "VALIDATE", "REVERSE"}]
        /\ exits \in [Rights -> Nat]
    BY DEF Init, RightStatuses
  <2>4. orderStatus \in [Orders -> OrderStatuses]
    BY DEF Init, OrderStatuses
  <2>5. completed \in [Orders -> BOOLEAN]
    BY DEF Init
  <2>6. event \in EventStates /\ occupancy \in 0..MaxCapacity /\ reentry \in BOOLEAN
    BY <2>2 DEF Init, EventStates
  <2>7. move \in [Tickets -> {"NONE", "ENTRY", "EXIT"}]
    BY DEF Init
  <2>8. unnamed \in Int /\ keys \subseteq Keys
    BY DEF Init
  <2>9. seen \in [Staff -> [count : Int, used : BOOLEAN]]
    BY DEF Init, Unseen
  <2>10. pc \in [Staff -> PCs]
    BY DEF Init, PCs
  <2>11. right \in [Staff -> Rights] /\ target \in [Staff -> 0..MaxCapacity]
    BY <2>1, <2>2 DEF Init
  <2>12. QED
    BY <2>2, <2>3, <2>4, <2>5, <2>6, <2>7, <2>8, <2>9, <2>10, <2>11 DEF RedemptionTypeOK
<1>2. \A r \in Rights : RightInv(r)
  BY DEF Init, RightInv
<1>3. OnePersonPerTicket
  BY DEF Init, OnePersonPerTicket
<1>4. OccupancyReconciles
  <2>1. Inside = {}
    BY DEF Init, Inside
  <2>2. QED
    BY <2>1, FS_EmptySet DEF Init, OccupancyReconciles
<1>5. RevocationStands
  BY DEF Init, RevocationStands
<1>6. QED
  BY <1>1, <1>2, <1>3, <1>4, <1>5, RightByRight DEF RedemptionInv

-----------------------------------------------------------------------------
(* A code is used.                                                         *)

\* What Confirm does when it commits.
Uses(s) ==
    LET r == right[s] IN
    /\ OrderAllows(OrderOf[r]) /\ EventAllows(r) /\ Unused(s, r)
    /\ r \in Tickets => CanEnter(r)
    /\ status' = [status EXCEPT ![r] = AfterUse(r, seen[s].count + 1)]
    /\ count' = [count EXCEPT ![r] = IF r \in Deliveries THEN @ ELSE @ + 1]
    /\ usedAt' = [usedAt EXCEPT ![r] = TRUE]
    /\ validations' = [validations EXCEPT ![r] = @ + 1]
    /\ audit' = [audit EXCEPT ![r] = "VALIDATE"]
    /\ occupancy' = IF r \in Tickets THEN occupancy + 1 ELSE occupancy
    /\ move' = [t \in Tickets |-> IF t = r THEN "ENTRY" ELSE move[t]]
    /\ UNCHANGED <<revoked, reversals, exits, unnamed, keys>>

\* A confirmation uses the right or changes nothing of it.
LEMMA ConfirmCases ==
    ASSUME NEW s \in Staff, Confirm(s)
    PROVE  /\ Uses(s) \/ UNCHANGED <<rightVars, movementVars>>
           /\ Done(s)
           /\ UNCHANGED <<orderVars, event, capacity, reentry>>
BY DEF Confirm, Uses

\* The invariants survive a use.
LEMMA UseStep ==
    ASSUME RedemptionInv, NEW s \in Staff, Uses(s), Done(s),
           UNCHANGED <<orderVars, event, capacity, reentry>>
    PROVE  RedemptionInv'
<1> PICK r \in Rights : r = right[s]
  BY DEF RedemptionInv, RedemptionTypeOK
<1> PICK n \in Int : n = seen[s].count
  BY DEF RedemptionInv, RedemptionTypeOK
<1>a. RedemptionTypeOK /\ \A q \in Rights : RightInv(q)
  BY RightByRight DEF RedemptionInv
<1>b. /\ status[r] = "AVAILABLE" /\ (r \notin Deliveries => count[r] = n)
      /\ status' = [status EXCEPT ![r] = AfterUse(r, n + 1)]
      /\ count' = [count EXCEPT ![r] = IF r \in Deliveries THEN @ ELSE @ + 1]
      /\ usedAt' = [usedAt EXCEPT ![r] = TRUE]
      /\ validations' = [validations EXCEPT ![r] = @ + 1]
      /\ audit' = [audit EXCEPT ![r] = "VALIDATE"]
      /\ UNCHANGED <<revoked, reversals, exits, unnamed, keys>>
  BY DEF Uses, Unused
<1>c. /\ r \in Tickets => move[r] # "ENTRY" /\ occupancy < capacity
      /\ occupancy' = IF r \in Tickets THEN occupancy + 1 ELSE occupancy
      /\ move' = [t \in Tickets |-> IF t = r THEN "ENTRY" ELSE move[t]]
  BY DEF Uses, CanEnter
<1>1. RedemptionTypeOK'
  <2>1. AfterUse(r, n + 1) \in RightStatuses
    BY DEF AfterUse, RightStatuses
  <2>2. status' \in [Rights -> RightStatuses]
    BY <1>a, <1>b, <2>1 DEF RedemptionTypeOK
  <2>3. /\ count' \in [Rights -> Int] /\ usedAt' \in [Rights -> BOOLEAN]
        /\ revoked' \in [Rights -> BOOLEAN] /\ validations' \in [Rights -> Nat]
        /\ reversals' \in [Rights -> Nat] /\ exits' \in [Rights -> Nat]
        /\ audit' \in [Rights -> {"NONE", "VALIDATE", "REVERSE"}]
    BY <1>a, <1>b DEF RedemptionTypeOK
  <2>4. occupancy' \in 0..MaxCapacity
    BY <1>a, <1>c, RedemptionAssumption DEF RedemptionTypeOK
  <2>5. move' \in [Tickets -> {"NONE", "ENTRY", "EXIT"}]
    BY <1>a, <1>c DEF RedemptionTypeOK
  <2>6. /\ orderStatus' \in [Orders -> OrderStatuses] /\ completed' \in [Orders -> BOOLEAN]
        /\ event' \in EventStates /\ capacity' \in 0..MaxCapacity /\ reentry' \in BOOLEAN
        /\ unnamed' \in Int /\ keys' \subseteq Keys
    BY <1>a, <1>b DEF RedemptionTypeOK, orderVars
  <2>7. QED
    BY <1>a, <2>2, <2>3, <2>4, <2>5, <2>6, DoneTypes DEF RedemptionTypeOK
<1>2. ASSUME NEW q \in Rights PROVE RightInv(q)'
  <2>1. RightInv(q)
    BY <1>a
  <2>2. CASE q # r
    <3>1. /\ status'[q] = status[q] /\ count'[q] = count[q]
          /\ validations'[q] = validations[q] /\ reversals' = reversals /\ exits' = exits
      BY <1>a, <1>b, <2>2 DEF RedemptionTypeOK
    <3>2. QED
      BY <2>1, <3>1 DEF RightInv
  <2>3. CASE q = r
    <3>1. /\ validations'[r] = validations[r] + 1
          /\ count'[r] = IF r \in Deliveries THEN count[r] ELSE count[r] + 1
          /\ status'[r] = AfterUse(r, n + 1)
          /\ reversals' = reversals /\ exits' = exits
      BY <1>a, <1>b DEF RedemptionTypeOK
    <3>2. /\ validations[r] \in Nat /\ reversals[r] \in Nat /\ exits[r] \in Nat
          /\ count[r] \in Int
      BY <1>a DEF RedemptionTypeOK
    <3>3. /\ validations[r] <= reversals[r] + exits[r]
          /\ r \notin Deliveries => n = validations[r] - reversals[r]
      BY <1>b, <2>1, <2>3 DEF RightInv
    <3>4. validations'[r] <= 1 + reversals'[r] + exits'[r]
      BY <3>1, <3>2, <3>3
    <3>5. status'[r] = "AVAILABLE" => r \notin Deliveries /\ n + 1 < 1
      BY <3>1 DEF AfterUse
    <3>6. status'[r] = "AVAILABLE" => validations'[r] <= reversals'[r] + exits'[r]
      BY <3>1, <3>2, <3>3, <3>5
    <3>7. r \notin Deliveries => count'[r] = validations'[r] - reversals'[r]
      BY <1>b, <3>1, <3>2, <3>3
    <3>8. QED
      BY <2>3, <3>4, <3>6, <3>7 DEF RightInv
  <2>4. QED
    BY <2>2, <2>3
<1>3. OnePersonPerTicket'
  <2> SUFFICES ASSUME NEW t \in Tickets
               PROVE  validations'[t] = exits'[t] + (IF move'[t] = "ENTRY" THEN 1 ELSE 0)
    BY DEF OnePersonPerTicket
  <2>1. validations[t] = exits[t] + (IF move[t] = "ENTRY" THEN 1 ELSE 0)
    BY DEF RedemptionInv, OnePersonPerTicket
  <2>2. validations[t] \in Nat /\ exits[t] \in Nat /\ exits' = exits
    BY <1>a, <1>b DEF RedemptionTypeOK
  <2>3. validations'[t] = IF t = r THEN validations[t] + 1 ELSE validations[t]
    BY <1>a, <1>b DEF RedemptionTypeOK
  <2>4. move'[t] = IF t = r THEN "ENTRY" ELSE move[t]
    BY <1>c
  <2>5. t = r => move[t] # "ENTRY"
    BY <1>c
  <2>6. QED
    BY <2>1, <2>2, <2>3, <2>4, <2>5
<1>4. OccupancyReconciles'
  <2>1. occupancy = Cardinality(Inside) + unnamed /\ unnamed' = unnamed
    BY <1>b DEF RedemptionInv, OccupancyReconciles
  <2>2. occupancy \in Int /\ unnamed \in Int
    BY <1>a DEF RedemptionTypeOK
  <2>3. CASE r \in Tickets
    <3>1. Cardinality(Inside') = Cardinality(Inside) + 1
      BY <1>c, <2>3, OneMoreInside
    <3>2. QED
      BY <1>c, <2>1, <2>2, <2>3, <3>1, InsideCount DEF OccupancyReconciles
  <2>4. CASE r \notin Tickets
    <3>1. Inside' = Inside
      BY <1>c, <2>4 DEF Inside
    <3>2. QED
      BY <1>c, <2>1, <2>4, <3>1 DEF OccupancyReconciles
  <2>5. QED
    BY <2>3, <2>4
<1>5. RevocationStands'
  BY <1>b DEF RedemptionInv, RevocationStands, orderVars
<1>6. \A q \in Rights : RightInv(q)'
  BY <1>2
<1>7. (UsesAreJustified /\ CountsAreAudited /\ AvailableHasUseLeft)'
  BY <1>6 DEF UsesAreJustified, CountsAreAudited, AvailableHasUseLeft, RightInv
<1>8. QED
  BY <1>1, <1>3, <1>4, <1>5, <1>7 DEF RedemptionInv
-----------------------------------------------------------------------------
(* A use is reversed.                                                      *)

\* The invariants survive a reversal, whatever happened since it was read.
LEMMA ReversalStep ==
    ASSUME RedemptionInv, NEW s \in Staff, CommitReversal(s)
    PROVE  RedemptionInv'
<1> PICK r \in Rights : r = right[s]
  BY DEF RedemptionInv, RedemptionTypeOK
<1>a. RedemptionTypeOK /\ \A q \in Rights : RightInv(q)
  BY RightByRight DEF RedemptionInv
<1>b. /\ status' = [status EXCEPT ![r] = "AVAILABLE"]
      /\ count' = [count EXCEPT ![r] = IF r \in Deliveries THEN @ ELSE @ - 1]
      /\ usedAt' = [usedAt EXCEPT ![r] =
                       r \notin Deliveries /\ seen[s].count # 1 /\ seen[s].used]
      /\ reversals' = [reversals EXCEPT ![r] = @ + 1]
      /\ audit' = [audit EXCEPT ![r] = "REVERSE"]
      /\ UNCHANGED <<revoked, validations>>
  BY DEF CommitReversal, Audited
<1>c. UNCHANGED <<orderVars, venueVars>> /\ Done(s)
  BY DEF CommitReversal
<1>1. RedemptionTypeOK'
  <2>1. /\ status' \in [Rights -> RightStatuses]
        /\ count' \in [Rights -> Int]
        /\ reversals' \in [Rights -> Nat] /\ validations' \in [Rights -> Nat]
        /\ audit' \in [Rights -> {"NONE", "VALIDATE", "REVERSE"}]
        /\ revoked' \in [Rights -> BOOLEAN]
    BY <1>a, <1>b DEF RedemptionTypeOK, RightStatuses
  <2>2. usedAt' \in [Rights -> BOOLEAN]
    <3>1. (r \notin Deliveries /\ seen[s].count # 1 /\ seen[s].used) \in BOOLEAN
      OBVIOUS
    <3>2. usedAt \in [Rights -> BOOLEAN]
      BY <1>a DEF RedemptionTypeOK
    <3>3. QED
      BY <1>b, <3>1, <3>2
  <2>3. QED
    BY <1>a, <1>c, <2>1, <2>2, DoneTypes
       DEF RedemptionTypeOK, orderVars, venueVars, movementVars
<1>2. ASSUME NEW q \in Rights PROVE RightInv(q)'
  <2>1. RightInv(q)
    BY <1>a
  <2>2. /\ validations[q] \in Nat /\ reversals[q] \in Nat /\ exits[q] \in Nat
        /\ count[q] \in Int /\ validations' = validations /\ exits' = exits
    BY <1>a, <1>b, <1>c DEF RedemptionTypeOK, venueVars, movementVars
  <2>3. CASE q # r
    <3>1. status'[q] = status[q] /\ count'[q] = count[q] /\ reversals'[q] = reversals[q]
      BY <1>a, <1>b, <2>3 DEF RedemptionTypeOK
    <3>2. QED
      BY <2>1, <2>2, <3>1 DEF RightInv
  <2>4. CASE q = r
    <3>1. /\ reversals'[q] = reversals[q] + 1
          /\ count'[q] = IF q \in Deliveries THEN count[q] ELSE count[q] - 1
      BY <1>a, <1>b, <2>4 DEF RedemptionTypeOK
    <3>2. QED
      BY <2>1, <2>2, <3>1 DEF RightInv
  <2>5. QED
    BY <2>3, <2>4
<1>3. OnePersonPerTicket' /\ OccupancyReconciles' /\ RevocationStands'
  BY <1>b, <1>c DEF RedemptionInv, OnePersonPerTicket, OccupancyReconciles, Inside,
                    RevocationStands, orderVars, venueVars, movementVars
<1>4. (UsesAreJustified /\ CountsAreAudited /\ AvailableHasUseLeft)'
  BY <1>2 DEF UsesAreJustified, CountsAreAudited, AvailableHasUseLeft, RightInv
<1>5. QED
  BY <1>1, <1>3, <1>4 DEF RedemptionInv

-----------------------------------------------------------------------------
(* Somebody leaves.                                                        *)

\* The invariants survive an exit, which may make the ticket available again.
LEMMA ExitStep ==
    ASSUME RedemptionInv, NEW k \in Keys, NEW t \in Tickets, Exit(k, t)
    PROVE  RedemptionInv'
<1>a. RedemptionTypeOK /\ \A q \in Rights : RightInv(q)
  BY RightByRight DEF RedemptionInv
<1>b. /\ status' = [status EXCEPT ![t] = IF reentry /\ @ = "USED" THEN "AVAILABLE" ELSE @]
      /\ exits' = [exits EXCEPT ![t] = @ + 1]
      /\ UNCHANGED <<count, usedAt, revoked, validations, reversals, audit>>
  BY DEF Exit, auditVars
<1>c. /\ occupancy > 0 /\ move[t] = "ENTRY"
      /\ occupancy' = occupancy - 1
      /\ move' = [move EXCEPT ![t] = "EXIT"]
      /\ keys' = keys \cup {k}
      /\ UNCHANGED <<orderVars, event, capacity, reentry, unnamed, requestVars>>
  BY DEF Exit
<1>1. RedemptionTypeOK'
  <2>1. status' \in [Rights -> RightStatuses] /\ exits' \in [Rights -> Nat]
    BY <1>a, <1>b DEF RedemptionTypeOK, RightStatuses
  <2>2. occupancy' \in 0..MaxCapacity /\ move' \in [Tickets -> {"NONE", "ENTRY", "EXIT"}]
    BY <1>a, <1>c, RedemptionAssumption DEF RedemptionTypeOK
  <2>3. keys' \subseteq Keys
    BY <1>a, <1>c DEF RedemptionTypeOK
  <2>4. QED
    BY <1>a, <1>b, <1>c, <2>1, <2>2, <2>3 DEF RedemptionTypeOK, orderVars, requestVars
<1>2. ASSUME NEW q \in Rights PROVE RightInv(q)'
  <2>1. RightInv(q)
    BY <1>a
  <2>2. /\ validations[q] \in Nat /\ reversals[q] \in Nat /\ exits[q] \in Nat
        /\ validations' = validations /\ reversals' = reversals /\ count' = count
    BY <1>a, <1>b DEF RedemptionTypeOK
  <2>3. CASE q # t
    <3>1. status'[q] = status[q] /\ exits'[q] = exits[q]
      BY <1>a, <1>b, <2>3 DEF RedemptionTypeOK
    <3>2. QED
      BY <2>1, <2>2, <3>1 DEF RightInv
  <2>4. CASE q = t
    <3>1. exits'[q] = exits[q] + 1
      BY <1>a, <1>b, <2>4 DEF RedemptionTypeOK
    <3>2. QED
      BY <2>1, <2>2, <3>1 DEF RightInv
  <2>5. QED
    BY <2>3, <2>4
<1>3. OnePersonPerTicket'
  <2> SUFFICES ASSUME NEW u \in Tickets
               PROVE  validations'[u] = exits'[u] + (IF move'[u] = "ENTRY" THEN 1 ELSE 0)
    BY DEF OnePersonPerTicket
  <2>1. validations[u] = exits[u] + (IF move[u] = "ENTRY" THEN 1 ELSE 0)
    BY DEF RedemptionInv, OnePersonPerTicket
  <2>2. exits[u] \in Nat /\ validations' = validations
    BY <1>a, <1>b DEF RedemptionTypeOK
  <2>3. exits'[u] = IF u = t THEN exits[u] + 1 ELSE exits[u]
    BY <1>a, <1>b DEF RedemptionTypeOK
  <2>4. move'[u] = IF u = t THEN "EXIT" ELSE move[u]
    BY <1>a, <1>c DEF RedemptionTypeOK
  <2>5. QED
    BY <1>c, <2>1, <2>2, <2>3, <2>4
<1>4. OccupancyReconciles'
  <2>1. Cardinality(Inside') = Cardinality(Inside) - 1
    BY <1>a, <1>c, OneLessInside
  <2>2. occupancy = Cardinality(Inside) + unnamed /\ occupancy \in Int /\ unnamed \in Int
    BY <1>a DEF RedemptionInv, OccupancyReconciles, RedemptionTypeOK
  <2>3. QED
    BY <1>c, <2>1, <2>2, InsideCount DEF OccupancyReconciles
<1>5. RevocationStands'
  BY <1>b, <1>c DEF RedemptionInv, RevocationStands, orderVars
<1>6. (UsesAreJustified /\ CountsAreAudited /\ AvailableHasUseLeft)'
  BY <1>2 DEF UsesAreJustified, CountsAreAudited, AvailableHasUseLeft, RightInv
<1>7. QED
  BY <1>1, <1>3, <1>4, <1>5, <1>6 DEF RedemptionInv

-----------------------------------------------------------------------------
(* The steps that leave the rights alone.                                  *)

\* Head counts, capacities and requests do not disturb what is said of the rights.
LEMMA RightsAlone ==
    ASSUME RedemptionInv, UNCHANGED <<rightVars, orderVars, move, exits>>,
           event = "CANCELLED" => event' = "CANCELLED"
    PROVE  /\ (UsesAreJustified /\ CountsAreAudited /\ AvailableHasUseLeft)'
           /\ OnePersonPerTicket' /\ RevocationStands' /\ Inside' = Inside
BY DEF RedemptionInv, UsesAreJustified, CountsAreAudited, AvailableHasUseLeft, Inside,
       OnePersonPerTicket, RevocationStands, rightVars, auditVars, orderVars

\* A request that begins knows what it read.
LEMMA RequestStep ==
    ASSUME RedemptionInv, NEW s \in Staff, NEW r \in Rights,
           UNCHANGED <<rightVars, orderVars, venueVars>>,
           \E next \in PCs : pc' = [pc EXCEPT ![s] = next],
           right' = [right EXCEPT ![s] = r],
           seen' = [seen EXCEPT ![s] = [count |-> count[r], used |-> usedAt[r]]],
           UNCHANGED target
    PROVE  RedemptionInv'
<1>a. RedemptionTypeOK
  BY DEF RedemptionInv
<1>1. [count |-> count[r], used |-> usedAt[r]] \in [count : Int, used : BOOLEAN]
  <2>1. count[r] \in Int
    BY <1>a DEF RedemptionTypeOK
  <2>2. usedAt[r] \in BOOLEAN
    BY <1>a DEF RedemptionTypeOK
  <2>3. QED
    BY <2>1, <2>2
<1>2. seen' \in [Staff -> [count : Int, used : BOOLEAN]]
  BY <1>a, <1>1 DEF RedemptionTypeOK
<1>3. pc' \in [Staff -> PCs] /\ right' \in [Staff -> Rights]
  BY <1>a DEF RedemptionTypeOK
<1>4. RedemptionTypeOK'
  BY <1>a, <1>2, <1>3 DEF RedemptionTypeOK, rightVars, auditVars, orderVars, venueVars,
                          movementVars
<1>5. OccupancyReconciles'
  BY RightsAlone DEF RedemptionInv, OccupancyReconciles, venueVars, movementVars
<1>6. QED
  BY <1>4, <1>5, RightsAlone DEF RedemptionInv, venueVars, movementVars

\* Somebody left without showing a ticket.
LEMMA AnonymousExitStep ==
    ASSUME RedemptionInv, NEW k \in Keys, AnonymousExit(k)
    PROVE  RedemptionInv'
<1>a. RedemptionTypeOK /\ occupancy = Cardinality(Inside) + unnamed
  BY DEF RedemptionInv, OccupancyReconciles
<1>b. /\ occupancy > 0 /\ occupancy' = occupancy - 1 /\ unnamed' = unnamed - 1
      /\ keys' = keys \cup {k}
      /\ UNCHANGED <<rightVars, orderVars, event, capacity, reentry, move, exits, requestVars>>
  BY DEF AnonymousExit
<1>1. occupancy' \in 0..MaxCapacity /\ unnamed' \in Int /\ keys' \subseteq Keys
  BY <1>a, <1>b, RedemptionAssumption DEF RedemptionTypeOK
<1>2. RedemptionTypeOK'
  BY <1>a, <1>b, <1>1 DEF RedemptionTypeOK, rightVars, auditVars, orderVars, requestVars
<1>3. Inside' = Inside
  BY <1>b, RightsAlone
<1>4. OccupancyReconciles'
  <2>1. occupancy \in Int /\ unnamed \in Int
    BY <1>a DEF RedemptionTypeOK
  <2>2. QED
    BY <1>a, <1>b, <1>3, <2>1, InsideCount DEF OccupancyReconciles
<1>5. QED
  BY <1>b, <1>2, <1>4, RightsAlone DEF RedemptionInv

\* A correction begins: it remembers its target.
LEMMA BeginCorrectionStep ==
    ASSUME RedemptionInv, NEW s \in Staff, NEW k \in Keys, NEW n \in 0..MaxCapacity,
           BeginCorrection(s, k, n)
    PROVE  RedemptionInv'
<1>a. RedemptionTypeOK
  BY DEF RedemptionInv
<1>b. /\ keys' = keys \cup {k} /\ pc' = [pc EXCEPT ![s] = "correct"]
      /\ target' = [target EXCEPT ![s] = n]
      /\ UNCHANGED <<right, seen>>
      /\ UNCHANGED <<rightVars, orderVars, event, capacity, reentry, occupancy, move, exits,
                     unnamed>>
  BY DEF BeginCorrection
<1>1. /\ keys' \subseteq Keys /\ pc' \in [Staff -> PCs]
      /\ target' \in [Staff -> 0..MaxCapacity]
  BY <1>a, <1>b DEF RedemptionTypeOK, PCs
<1>2. RedemptionTypeOK'
  BY <1>a, <1>b, <1>1 DEF RedemptionTypeOK, rightVars, auditVars, orderVars
<1>3. OccupancyReconciles'
  BY <1>b, RightsAlone DEF RedemptionInv, OccupancyReconciles
<1>4. QED
  BY <1>b, <1>2, <1>3, RightsAlone DEF RedemptionInv

\* A correction moves the head count and the history by the same number.
LEMMA CommitCorrectionStep ==
    ASSUME RedemptionInv, NEW s \in Staff, CommitCorrection(s)
    PROVE  RedemptionInv'
<1>a. RedemptionTypeOK /\ occupancy = Cardinality(Inside) + unnamed
  BY DEF RedemptionInv, OccupancyReconciles
<1>b. /\ occupancy' = target[s] /\ unnamed' = unnamed + (target[s] - occupancy) /\ Done(s)
      /\ UNCHANGED <<rightVars, orderVars, event, capacity, reentry, move, exits, keys>>
  BY DEF CommitCorrection, CorrectionDelta
<1>1. occupancy \in Int /\ unnamed \in Int /\ target[s] \in 0..MaxCapacity /\ MaxCapacity \in Nat
  BY <1>a, RedemptionAssumption DEF RedemptionTypeOK
<1>2. occupancy' \in 0..MaxCapacity /\ unnamed' \in Int
  BY <1>b, <1>1
<1>3. RedemptionTypeOK'
  BY <1>a, <1>b, <1>2, DoneTypes DEF RedemptionTypeOK, rightVars, auditVars, orderVars
<1>4. Inside' = Inside
  BY <1>b, RightsAlone
<1>5. OccupancyReconciles'
  BY <1>a, <1>b, <1>1, <1>4, InsideCount DEF OccupancyReconciles
<1>6. QED
  BY <1>b, <1>3, <1>5, RightsAlone DEF RedemptionInv

\* Settings, capacities and the moves of the event leave rights and counts alone.
LEMMA VenueStep ==
    ASSUME RedemptionInv,
           \/ Configure
           \/ \E s \in Staff, n \in 0..MaxCapacity : BeginResize(s, n)
           \/ \E s \in Staff : CommitResize(s)
           \/ \E to \in EventStates : MoveEvent(to)
    PROVE  RedemptionInv'
<1>a. RedemptionTypeOK
  BY DEF RedemptionInv
<1>1. /\ UNCHANGED <<rightVars, orderVars, movementVars>>
      /\ event = "CANCELLED" => event' = "CANCELLED"
  BY DEF Configure, BeginResize, CommitResize, MoveEvent, EventMoves, venueVars
<1>2. OccupancyReconciles'
  BY <1>1, RightsAlone DEF RedemptionInv, OccupancyReconciles, movementVars
<1>3. RedemptionTypeOK'
  <2>1. CASE Configure
    BY <1>a, <1>1, <2>1 DEF Configure, RedemptionTypeOK, rightVars, auditVars, orderVars,
                            movementVars, requestVars
  <2>2. ASSUME NEW s \in Staff, NEW n \in 0..MaxCapacity, BeginResize(s, n)
        PROVE  RedemptionTypeOK'
    <3>1. pc' \in [Staff -> PCs] /\ target' \in [Staff -> 0..MaxCapacity]
      BY <1>a, <2>2 DEF BeginResize, RedemptionTypeOK, PCs
    <3>2. QED
      BY <1>a, <2>2, <3>1 DEF BeginResize, RedemptionTypeOK, rightVars, auditVars, orderVars,
                              venueVars, movementVars
  <2>3. ASSUME NEW s \in Staff, CommitResize(s)
        PROVE  RedemptionTypeOK'
    <3>1. capacity' \in 0..MaxCapacity /\ Done(s)
      BY <1>a, <2>3 DEF CommitResize, RedemptionTypeOK
    <3>2. UNCHANGED <<rightVars, orderVars, event, reentry, movementVars>>
      BY <2>3 DEF CommitResize
    <3>3. QED
      BY <1>a, <3>1, <3>2, DoneTypes DEF RedemptionTypeOK, rightVars, auditVars, orderVars,
                                         movementVars
  <2>4. ASSUME NEW to \in EventStates, MoveEvent(to)
        PROVE  RedemptionTypeOK'
    BY <1>a, <1>1, <2>4 DEF MoveEvent, RedemptionTypeOK, rightVars, auditVars, orderVars,
                            movementVars, requestVars
  <2>5. QED
    BY <2>1, <2>2, <2>3, <2>4
<1>4. QED
  BY <1>1, <1>2, <1>3, RightsAlone DEF RedemptionInv, movementVars

-----------------------------------------------------------------------------
(* The steps of the orders and the cancellation of the event.              *)

\* An order changes its status and keeps a full refund; no right is touched.
LEMMA OrderStep ==
    ASSUME RedemptionInv, NEW o \in Orders, orderStatus[o] # "REFUNDED",
           NEW next \in OrderStatuses, orderStatus' = [orderStatus EXCEPT ![o] = next],
           completed' \in [Orders -> BOOLEAN],
           UNCHANGED <<rightVars, venueVars, requestVars>>
    PROVE  RedemptionInv'
<1>a. RedemptionTypeOK
  BY DEF RedemptionInv
<1>1. orderStatus' \in [Orders -> OrderStatuses]
  BY <1>a DEF RedemptionTypeOK
<1>2. RedemptionTypeOK'
  BY <1>a, <1>1 DEF RedemptionTypeOK, rightVars, auditVars, venueVars, movementVars, requestVars
<1>3. (UsesAreJustified /\ CountsAreAudited /\ AvailableHasUseLeft /\ OnePersonPerTicket
          /\ OccupancyReconciles)'
  BY DEF RedemptionInv, UsesAreJustified, CountsAreAudited, AvailableHasUseLeft, Inside,
         OnePersonPerTicket, OccupancyReconciles, rightVars, auditVars, venueVars, movementVars
<1>4. RevocationStands'
  <2> SUFFICES ASSUME NEW r \in Rights, revoked'[r]
               PROVE  \/ orderStatus'[OrderOf[r]] = "REFUNDED"
                      \/ r \in AtEvent /\ event' = "CANCELLED"
    BY DEF RevocationStands
  <2>1. \/ orderStatus[OrderOf[r]] = "REFUNDED"
        \/ r \in AtEvent /\ event = "CANCELLED"
    BY DEF RedemptionInv, RevocationStands, rightVars
  <2>2. orderStatus[OrderOf[r]] = "REFUNDED" => orderStatus'[OrderOf[r]] = "REFUNDED"
    BY <1>a, RedemptionAssumption DEF RedemptionTypeOK
  <2>3. QED
    BY <2>1, <2>2 DEF venueVars
<1>5. QED
  BY <1>2, <1>3, <1>4 DEF RedemptionInv

\* Rights are taken back together with the decision that stands for it: the full
\* refund of their order or the cancellation of their event.
LEMMA RevokeStep ==
    ASSUME RedemptionInv, NEW R, Revoke(R),
           orderStatus' \in [Orders -> OrderStatuses], event' \in EventStates,
           UNCHANGED <<completed, capacity, reentry, movementVars, requestVars>>,
           \A o \in Orders : orderStatus[o] = "REFUNDED" => orderStatus'[o] = "REFUNDED",
           event = "CANCELLED" => event' = "CANCELLED",
           \A r \in Rights : r \in R => \/ orderStatus'[OrderOf[r]] = "REFUNDED"
                                        \/ r \in AtEvent /\ event' = "CANCELLED"
    PROVE  RedemptionInv'
<1>a. RedemptionTypeOK /\ \A q \in Rights : RightInv(q)
  BY RightByRight DEF RedemptionInv
<1>b. /\ status' \in [Rights -> RightStatuses] /\ revoked' \in [Rights -> BOOLEAN]
      /\ \A r \in Rights : RightInv(r)'
  BY <1>a, RevokeKeeps DEF movementVars
<1>c. /\ UNCHANGED <<count, usedAt, auditVars>>
      /\ \A r \in Rights : revoked'[r] => r \in R \/ revoked[r]
  BY DEF Revoke
<1>1. RedemptionTypeOK'
  BY <1>a, <1>b, <1>c DEF RedemptionTypeOK, auditVars, movementVars, requestVars
<1>2. (UsesAreJustified /\ CountsAreAudited /\ AvailableHasUseLeft)'
  BY <1>b DEF UsesAreJustified, CountsAreAudited, AvailableHasUseLeft, RightInv
<1>3. OnePersonPerTicket' /\ OccupancyReconciles'
  BY <1>c DEF RedemptionInv, OnePersonPerTicket, OccupancyReconciles, Inside, auditVars,
              movementVars
<1>4. RevocationStands'
  <2> SUFFICES ASSUME NEW r \in Rights, revoked'[r]
               PROVE  \/ orderStatus'[OrderOf[r]] = "REFUNDED"
                      \/ r \in AtEvent /\ event' = "CANCELLED"
    BY DEF RevocationStands
  <2>1. CASE r \in R
    BY <2>1
  <2>2. CASE revoked[r]
    <3>1. OrderOf[r] \in Orders
      BY RedemptionAssumption
    <3>2. QED
      BY <2>2, <3>1 DEF RedemptionInv, RevocationStands
  <2>3. QED
    BY <1>c, <2>1, <2>2
<1>5. QED
  BY <1>1, <1>2, <1>3, <1>4 DEF RedemptionInv

-----------------------------------------------------------------------------
(* Every step.                                                             *)

\* The invariant is inductive.
LEMMA RedemptionStep == RedemptionInv /\ [Next]_vars => RedemptionInv'
<1> SUFFICES ASSUME RedemptionInv, [Next]_vars PROVE RedemptionInv'
  OBVIOUS
<1>a. RedemptionTypeOK
  BY DEF RedemptionInv
<1>0. ASSUME UNCHANGED <<rightVars, orderVars, venueVars>>,
             pc' \in [Staff -> PCs], right' \in [Staff -> Rights],
             seen' \in [Staff -> [count : Int, used : BOOLEAN]],
             target' \in [Staff -> 0..MaxCapacity]
      PROVE  RedemptionInv'
  <2>1. RedemptionTypeOK'
    BY <1>a, <1>0 DEF RedemptionTypeOK, rightVars, auditVars, orderVars, venueVars, movementVars
  <2>2. OccupancyReconciles'
    BY <1>0, RightsAlone DEF RedemptionInv, OccupancyReconciles, venueVars, movementVars
  <2>3. QED
    BY <1>0, <2>1, <2>2, RightsAlone DEF RedemptionInv, venueVars, movementVars
<1>1. ASSUME NEW s \in Staff, NEW r \in Rights, Scan(s, r) PROVE RedemptionInv'
  <2>1. "confirm" \in PCs
    BY DEF PCs
  <2>2. QED
    BY <1>1, <2>1, RequestStep DEF Scan
<1>2. ASSUME NEW s \in Staff, Confirm(s) PROVE RedemptionInv'
  <2>1. Done(s) /\ UNCHANGED <<orderVars, event, capacity, reentry>>
    BY <1>2, ConfirmCases
  <2>2. CASE Uses(s)
    BY <2>1, <2>2, UseStep
  <2>3. CASE UNCHANGED <<rightVars, movementVars>>
    BY <1>a, <1>0, <2>1, <2>3, DoneTypes DEF venueVars
  <2>4. QED
    BY <1>2, <2>2, <2>3, ConfirmCases
<1>3. ASSUME NEW s \in Staff, NEW r \in Rights, BeginReversal(s, r) PROVE RedemptionInv'
  <2>1. "reverse" \in PCs
    BY DEF PCs
  <2>2. QED
    BY <1>3, <2>1, RequestStep DEF BeginReversal
<1>4. ASSUME NEW s \in Staff, CommitReversal(s) PROVE RedemptionInv'
  BY <1>4, ReversalStep
<1>5. ASSUME NEW k \in Keys, AnonymousExit(k) PROVE RedemptionInv'
  BY <1>5, AnonymousExitStep
<1>6. ASSUME NEW k \in Keys, NEW t \in Tickets, Exit(k, t) PROVE RedemptionInv'
  BY <1>6, ExitStep
<1>7. ASSUME NEW s \in Staff, NEW k \in Keys, NEW n \in 0..MaxCapacity, BeginCorrection(s, k, n)
      PROVE  RedemptionInv'
  BY <1>7, BeginCorrectionStep
<1>8. ASSUME NEW s \in Staff, CommitCorrection(s) PROVE RedemptionInv'
  BY <1>8, CommitCorrectionStep
<1>9. CASE \/ Configure
           \/ \E s \in Staff, n \in 0..MaxCapacity : BeginResize(s, n)
           \/ \E s \in Staff : CommitResize(s)
           \/ \E to \in EventStates : MoveEvent(to)
  BY <1>9, VenueStep
<1>10. CASE CancelEvent
  <2>1. /\ Revoke(AtEvent) /\ event' = "CANCELLED" /\ event' \in EventStates
        /\ UNCHANGED <<orderVars, capacity, reentry, movementVars, requestVars>>
    BY <1>10 DEF CancelEvent, EventStates
  <2>2. orderStatus' \in [Orders -> OrderStatuses]
    BY <1>a, <2>1 DEF RedemptionTypeOK, orderVars
  <2>3. QED
    BY <2>1, <2>2, RevokeStep DEF orderVars
<1>11. ASSUME NEW o \in Orders, RequestRefund(o) PROVE RedemptionInv'
  <2>1. /\ orderStatus[o] # "REFUNDED" /\ "REFUND_PENDING" \in OrderStatuses
        /\ completed' \in [Orders -> BOOLEAN]
    BY <1>a, <1>11 DEF RequestRefund, OrderStatuses, RedemptionTypeOK
  <2>2. QED
    BY <1>11, <2>1, OrderStep DEF RequestRefund
<1>12. ASSUME NEW o \in Orders, NEW onRequest \in BOOLEAN, RefundPart(o, onRequest)
       PROVE  RedemptionInv'
  <2>1. "PARTIALLY_REFUNDED" \in OrderStatuses
    BY DEF OrderStatuses
  <2>2. completed' \in [Orders -> BOOLEAN]
    BY <1>a, <1>12 DEF RefundPart, RedemptionTypeOK
  <2>3. QED
    BY <1>12, <2>1, <2>2, OrderStep DEF RefundPart
<1>13. ASSUME NEW o \in Orders, RefundAll(o) PROVE RedemptionInv'
  <2> DEFINE mine == {r \in Rights : OrderOf[r] = o}
  <2>1. /\ Revoke(mine) /\ orderStatus' = [orderStatus EXCEPT ![o] = "REFUNDED"]
        /\ UNCHANGED <<completed, venueVars, requestVars>>
    BY <1>13 DEF RefundAll
  <2>2. \A r \in Rights : r \in mine => OrderOf[r] = o
    OBVIOUS
  <2> HIDE DEF mine
  <2>3. orderStatus' \in [Orders -> OrderStatuses] /\ orderStatus'[o] = "REFUNDED"
    BY <1>a, <2>1 DEF RedemptionTypeOK, OrderStatuses
  <2>4. \A p \in Orders : orderStatus[p] = "REFUNDED" => orderStatus'[p] = "REFUNDED"
    BY <1>a, <2>1 DEF RedemptionTypeOK
  <2>5. event' \in EventStates
    BY <1>a, <2>1 DEF RedemptionTypeOK, venueVars
  <2>6. QED
    BY <2>1, <2>2, <2>3, <2>4, <2>5, RevokeStep DEF venueVars
<1>14. ASSUME NEW r \in Rights, RefundItem(r) PROVE RedemptionInv'
  <2> DEFINE o == OrderOf[r]
  <2>1. /\ r \in AtEvent /\ event = "CANCELLED" /\ orderStatus[o] # "REFUNDED" /\ Revoke({r})
        /\ orderStatus' = [orderStatus EXCEPT ![o] = "PARTIALLY_REFUNDED"]
        /\ UNCHANGED <<completed, venueVars, requestVars>>
    BY <1>14 DEF RefundItem
  <2>2. orderStatus' \in [Orders -> OrderStatuses] /\ event' \in EventStates
    BY <1>a, <2>1 DEF RedemptionTypeOK, OrderStatuses, EventStates, venueVars
  <2>3. \A p \in Orders : orderStatus[p] = "REFUNDED" => orderStatus'[p] = "REFUNDED"
    BY <1>a, <2>1 DEF RedemptionTypeOK
  <2>4. \A q \in Rights : q \in {r} => q \in AtEvent /\ event' = "CANCELLED"
    BY <2>1 DEF venueVars
  <2>5. QED
    BY <2>1, <2>2, <2>3, <2>4, RevokeStep DEF venueVars
<1>15. CASE UNCHANGED vars
  BY <1>a, <1>0, <1>15 DEF vars, requestVars, RedemptionTypeOK
<1>16. QED
  BY <1>1, <1>2, <1>3, <1>4, <1>5, <1>6, <1>7, <1>8, <1>9, <1>10, <1>11, <1>12, <1>13, <1>14,
     <1>15 DEF Next

-----------------------------------------------------------------------------
(* The theorems.                                                           *)

\* Every reachable state satisfies the invariant.
THEOREM RedemptionInvariance == Spec => []RedemptionInv
<1>1. QED
  BY RedemptionInit, RedemptionStep, PTL DEF Spec

\* Nobody is served twice for one use, unless a reversal or an exit allowed it:
\* for any number of doors, workers and rights.
THEOREM UsesJustified == Spec => []UsesAreJustified
<1>1. RedemptionInv => UsesAreJustified
  BY DEF RedemptionInv
<1>2. QED
  BY <1>1, RedemptionInvariance, PTL

\* With one ticket at most one person is inside.
THEOREM OnePerson == Spec => []OnePersonPerTicket
<1>1. RedemptionInv => OnePersonPerTicket
  BY DEF RedemptionInv
<1>2. QED
  BY <1>1, RedemptionInvariance, PTL

\* The head count is the sum of the history of movements.
THEOREM HeadCountReconciles == Spec => []OccupancyReconciles
<1>1. RedemptionInv => OccupancyReconciles
  BY DEF RedemptionInv
<1>2. QED
  BY <1>1, RedemptionInvariance, PTL

\* A right that was revoked is never used again: the order and the event are
\* looked at in the transaction that uses it, and what revoked it stands.
THEOREM RevokedNeverUsed == Spec => RevokedIsNeverUsed
<1> DEFINE Kept == \A r \in Rights : revoked[r] => validations'[r] = validations[r]
<1>1. ASSUME RedemptionInv, [Next]_vars PROVE [Kept]_vars
  <2>1. ASSUME NEW s \in Staff, Uses(s) PROVE Kept
    <3> PICK q \in Rights : q = right[s]
      BY <1>1 DEF RedemptionInv, RedemptionTypeOK
    <3>1. ~ revoked[q]
      BY <1>1, <2>1 DEF Uses, OrderAllows, EventAllows, RedemptionInv, RevocationStands
    <3>2. validations' = [validations EXCEPT ![q] = @ + 1]
      BY <2>1 DEF Uses
    <3>3. QED
      BY <1>1, <3>1, <3>2 DEF RedemptionInv, RedemptionTypeOK
  <2>2. ASSUME NEW s \in Staff, Confirm(s) PROVE Kept
    BY <2>1, <2>2, ConfirmCases DEF rightVars, auditVars
  <2>3. CASE \A s \in Staff : ~ Confirm(s)
    <3>1. UNCHANGED validations
      BY <1>1, <2>3
         DEF Next, Scan, BeginReversal, CommitReversal, AnonymousExit, Exit, BeginCorrection,
             CommitCorrection, Configure, BeginResize, CommitResize, MoveEvent, CancelEvent,
             RequestRefund, RefundPart, RefundItem, RefundAll, Revoke, vars, rightVars, auditVars
    <3>2. QED
      BY <3>1
  <2>4. QED
    BY <2>2, <2>3
<1>2. RedemptionInv /\ [Next]_vars => [Kept]_vars
  BY <1>1
<1> HIDE DEF Kept
<1>3. Spec => [][Kept]_vars
  BY <1>2, RedemptionInvariance, PTL DEF Spec
<1>4. QED
  BY <1>3, PTL DEF RevokedIsNeverUsed, Kept

\* A ticket is used only while a place is free under the capacity in force, and
\* neither changes before the use is committed.
THEOREM EntriesWithinCapacity == Spec => EntriesRespectCapacity
<1> DEFINE Fits == \A t \in Tickets : validations'[t] # validations[t] => occupancy' <= capacity'
<1>1. ASSUME RedemptionInv, [Next]_vars PROVE [Fits]_vars
  <2>1. ASSUME NEW s \in Staff, Uses(s), UNCHANGED capacity PROVE Fits
    <3> PICK q \in Rights : q = right[s]
      BY <1>1 DEF RedemptionInv, RedemptionTypeOK
    <3>1. q \in Tickets => occupancy < capacity /\ occupancy' = occupancy + 1
      BY <2>1 DEF Uses, CanEnter
    <3>2. occupancy \in Int /\ capacity \in Int
      BY <1>1 DEF RedemptionInv, RedemptionTypeOK
    <3>3. validations' = [validations EXCEPT ![q] = @ + 1]
      BY <2>1 DEF Uses
    <3>4. \A t \in Tickets : validations'[t] # validations[t] => t = q
      BY <1>1, <3>3 DEF RedemptionInv, RedemptionTypeOK
    <3>5. q \in Tickets => occupancy' <= capacity'
      BY <2>1, <3>1, <3>2
    <3>6. QED
      BY <3>4, <3>5
  <2>2. ASSUME NEW s \in Staff, Confirm(s) PROVE Fits
    <3>1. CASE Uses(s)
      BY <2>1, <2>2, <3>1, ConfirmCases
    <3>2. CASE UNCHANGED <<rightVars, movementVars>>
      BY <3>2 DEF rightVars, auditVars
    <3>3. QED
      BY <2>2, <3>1, <3>2, ConfirmCases
  <2>3. CASE \A s \in Staff : ~ Confirm(s)
    <3>1. UNCHANGED validations
      BY <1>1, <2>3
         DEF Next, Scan, BeginReversal, CommitReversal, AnonymousExit, Exit, BeginCorrection,
             CommitCorrection, Configure, BeginResize, CommitResize, MoveEvent, CancelEvent,
             RequestRefund, RefundPart, RefundItem, RefundAll, Revoke, vars, rightVars, auditVars
    <3>2. QED
      BY <3>1
  <2>4. QED
    BY <2>2, <2>3
<1>2. RedemptionInv /\ [Next]_vars => [Fits]_vars
  BY <1>1
<1> HIDE DEF Fits
<1>3. Spec => [][Fits]_vars
  BY <1>2, RedemptionInvariance, PTL DEF Spec
<1>4. QED
  BY <1>3, PTL DEF EntriesRespectCapacity, Fits
=============================================================================
