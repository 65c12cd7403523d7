---------------------------- MODULE RefundProofs ----------------------------
(***************************************************************************)
(* The invariants of RefundRequests, proved for any items, requests,       *)
(* workers, administrators, amounts and bounds.                            *)
(***************************************************************************)
EXTENDS RefundRequests, TLAPS

-----------------------------------------------------------------------------
(***************************************************************************)
(* What holds however long a worker takes                                  *)
(***************************************************************************)
-----------------------------------------------------------------------------
(* What every step keeps.                                                  *)

\* A job keeps its request, a request the amount approved for it, and a refund
\* that was approved stays so.
Grows ==
    /\ \A i \in Items : link[i] # NoRequest => link'[i] = link[i]
    /\ \A r \in Requests : approved[r] # 0 => approved'[r] = approved[r]
    /\ \A r \in Requests : refund[r] = "APPROVED" => refund'[r] = "APPROVED"

\* A process that waits knows what it knew.
LEMMA KnowledgeStays ==
    ASSUME RefundTypeOK, Grows, NEW p \in Procs, proc'[p] = proc[p], ProcessOK(proc[p])
    PROVE  ProcessOK(proc[p])'
<1>1. proc[p] \in Processes
  BY DEF RefundTypeOK
<1>2. /\ proc[p].item \in Items \cup {NoItem}
      /\ proc[p].req \in Requests \cup {NoRequest}
  BY <1>1 DEF Processes
<1>3. link \in [Items -> Requests \cup {NoRequest}]
  BY DEF RefundTypeOK
<1>4. QED
  BY <1>2, <1>3 DEF ProcessOK, Grows

\* A step of one process leaves the others what they know.
LEMMA OthersKnow ==
    ASSUME RefundInv, Grows, NEW p \in Procs, proc' = [proc EXCEPT ![p] = proc'[p]],
           ProcessOK(proc[p])'
    PROVE  \A x \in Procs : ProcessOK(proc[x])'
<1>1. ASSUME NEW x \in Procs, x # p PROVE ProcessOK(proc[x])'
  <2>1. proc'[x] = proc[x]
    BY <1>1 DEF RefundInv, RefundTypeOK
  <2>2. QED
    BY <1>1, <2>1, KnowledgeStays DEF RefundInv
<1>2. QED
  BY <1>1

\* A step that changes no process leaves all of them what they know.
LEMMA AllKnow ==
    ASSUME RefundInv, Grows, proc' = proc
    PROVE  \A x \in Procs : ProcessOK(proc[x])'
BY KnowledgeStays DEF RefundInv

\* A step of a process that changes nothing else.
LEMMA OnlyProcess ==
    ASSUME RefundInv, NEW p \in Procs, proc' = [proc EXCEPT ![p] = proc'[p]],
           proc'[p] \in Processes, ProcessOK(proc[p])',
           crashes' \in 0..MaxCrashes,
           UNCHANGED <<orderVars, requestVars, jobVars, providerVars, reviews, panel>>
    PROVE  RefundInv'
<1> USE DEF orderVars, requestVars, jobVars, providerVars
<1>1. Grows
  BY DEF Grows
<1>2. \A x \in Procs : ProcessOK(proc[x])'
  BY <1>1, OthersKnow
<1>3. RefundTypeOK'
  BY DEF RefundInv, RefundTypeOK
<1>4. OneRefundInFlight'
  BY DEF RefundInv, OneRefundInFlight
<1>5. \A r \in Requests : RequestOK(r)'
  BY DEF RefundInv, RequestOK
<1>6. \A i \in Items : JobOK(i)'
  BY DEF RefundInv, JobOK
<1>7. QED
  BY <1>2, <1>3, <1>4, <1>5, <1>6 DEF RefundInv

-----------------------------------------------------------------------------
(* The values of a process.                                                *)

LEMMA IdleProcess == Idle \in Processes /\ ProcessOK(Idle)
BY RefundAssumption DEF Idle, Processes, PCs, RequestStatuses, JobStatuses, ProcessOK

\* The process p stops.
LEMMA Stops ==
    ASSUME RefundInv, NEW p \in Procs, proc' = [proc EXCEPT ![p] = Idle]
    PROVE  proc' = [proc EXCEPT ![p] = proc'[p]] /\ proc'[p] \in Processes /\ ProcessOK(proc[p])'
<1>1. proc'[p] = Idle
  BY DEF RefundInv, RefundTypeOK
<1>2. ProcessOK(proc[p])'
  BY <1>1 DEF Idle, ProcessOK
<1>3. QED
  BY <1>1, <1>2, IdleProcess

\* The process p goes on, and has a right value.
Written(p) == proc' = [proc EXCEPT ![p] = proc'[p]] /\ proc'[p] \in Processes

\* Of a process that forgets what it read, the job and the request remain.
LEMMA ThenIs ==
    ASSUME RefundInv, NEW p \in Procs, NEW c \in PCs, Then(p, c)
    PROVE  /\ Written(p)
           /\ proc'[p].pc = c
           /\ proc'[p].item = proc[p].item
           /\ proc'[p].req = proc[p].req
<1>1. proc \in [Procs -> Processes]
  BY DEF RefundInv, RefundTypeOK
<1>2. proc'[p] = [Idle EXCEPT !.pc = c, !.item = proc[p].item, !.req = proc[p].req]
  BY <1>1 DEF Then
<1>3. proc[p] \in Processes
  BY <1>1
<1>4. proc'[p] \in Processes
  BY <1>2, <1>3, IdleProcess DEF Processes
<1>5. proc' = [proc EXCEPT ![p] = proc'[p]]
  BY <1>1, <1>2 DEF Then
<1>6. QED
  BY <1>2, <1>4, <1>5 DEF Written, Idle

\* A worker that is about to end its job knows the job and what becomes of it.
LEMMA FinishIs ==
    ASSUME RefundInv, NEW p \in Procs, NEW next \in JobStatuses, Finish(p, next)
    PROVE  /\ Written(p)
           /\ proc'[p].pc = "finish"
           /\ proc'[p].item = proc[p].item
           /\ proc'[p].req = NoRequest
           /\ proc'[p].next = next
<1>1. proc \in [Procs -> Processes]
  BY DEF RefundInv, RefundTypeOK
<1>2. proc'[p] = [Idle EXCEPT !.pc = "finish", !.item = proc[p].item, !.next = next]
  BY <1>1 DEF Finish
<1>3. proc[p] \in Processes
  BY <1>1
<1>4. proc'[p] \in Processes
  BY <1>2, <1>3, IdleProcess DEF Processes, PCs
<1>5. proc' = [proc EXCEPT ![p] = proc'[p]]
  BY <1>1, <1>2 DEF Finish
<1>6. QED
  BY <1>2, <1>4, <1>5 DEF Written, Idle

\* A call that throws leaves a process that knows what it has to.
LEMMA ThrowsIs ==
    ASSUME RefundInv, NEW p \in Procs, Throws(p)
    PROVE  Written(p) /\ ProcessOK(proc[p])'
<1>1. CASE proc[p].item # NoItem
  <2>1. Finish(p, "QUEUED")
    BY <1>1 DEF Throws
  <2>2. QED
    BY <1>1, <2>1, FinishIs DEF JobStatuses, ProcessOK
<1>2. CASE proc[p].item = NoItem
  BY <1>2, Stops DEF Throws, Written
<1>3. QED
  BY <1>1, <1>2

\* A call that returns leaves a process that knows what it has to.
LEMMA ReturnsIs ==
    ASSUME RefundInv, NEW p \in Procs, Returns(p), proc[p].req # NoRequest, UNCHANGED link
    PROVE  Written(p) /\ ProcessOK(proc[p])'
<1>1. CASE proc[p].item # NoItem
  <2>1. Then(p, "after")
    BY <1>1 DEF Returns
  <2>2. "after" \in PCs
    BY DEF PCs
  <2>3. Written(p) /\ proc'[p].pc = "after" /\ proc'[p].item = proc[p].item
           /\ proc'[p].req = proc[p].req
    BY <2>1, <2>2, ThenIs
  <2>4. ProcessOK(proc[p])
    BY DEF RefundInv
  <2>5. QED
    BY <1>1, <2>3, <2>4 DEF ProcessOK
<1>2. CASE proc[p].item = NoItem
  BY <1>2, Stops DEF Returns, Written
<1>3. QED
  BY <1>1, <1>2

-----------------------------------------------------------------------------
(* Administrators, and what of processRefundRequest only reads.            *)

\* AdminProcess: the amount was approved before, or nothing was.
LEMMA AdminProcessKeeps ==
    ASSUME RefundInv, NEW p \in Admins, NEW r \in Requests, NEW given \in 0..Amount,
           NEW reasoned \in BOOLEAN, NEW recover \in BOOLEAN,
           AdminProcess(p, r, given, reasoned, recover)
    PROVE  RefundInv'
<1> DEFINE n == AmountFor(r, given)
           q == [Idle EXCEPT !.pc = "claim", !.req = r, !.amount = n, !.was = status[r]]
<1>1. p \in Procs
  BY DEF Procs
<1>2. /\ proc \in [Procs -> Processes] /\ status[r] \in RequestStatuses
      /\ asked[r] \in 0..Amount /\ approved[r] \in 0..Amount
  BY DEF RefundInv, RefundTypeOK
<1>3. RequestOK(r)
  BY DEF RefundInv
<1>4. n \in 0..Amount /\ n # 0
  BY <1>2, <1>3, RefundAssumption DEF AdminProcess, Unsent, AmountFor, RequestOK
<1>5. proc' = [proc EXCEPT ![p] = q]
  BY DEF AdminProcess
<1>6. proc'[p] = q
  BY <1>1, <1>2, <1>5
<1>7. q \in Processes
  BY <1>2, <1>4, IdleProcess DEF Processes, PCs
<1>8. UNCHANGED <<orderVars, requestVars, jobVars, providerVars, boundVars>>
  BY DEF AdminProcess
<1>9. status[r] \in {"REQUESTED", "UNDER_REVIEW"} \/ approved[r] = n
  BY <1>3, <1>2 DEF AdminProcess, Unsent, MayApprove, Immutable, RequestOK
<1>10. status[r] # "NONE"
  BY DEF AdminProcess, Unsent
<1>11. ProcessOK(proc[p])'
  <2>1. /\ q.pc = "claim" /\ q.item = NoItem /\ q.req = r /\ q.amount = n /\ q.was = status[r]
    BY DEF Idle
  <2>2. QED
    BY <1>4, <1>6, <1>8, <1>9, <1>10, <2>1, RefundAssumption DEF ProcessOK, requestVars
<1>12. QED
  BY <1>1, <1>5, <1>6, <1>7, <1>8, <1>11, OnlyProcess DEF boundVars, RefundInv, RefundTypeOK

\* AdminReconcile: what was sent was approved.
LEMMA AdminReconcileKeeps ==
    ASSUME RefundInv, NEW p \in Admins, NEW r \in Requests, AdminReconcile(p, r)
    PROVE  RefundInv'
<1> DEFINE q == [Idle EXCEPT !.pc = "query", !.req = r]
<1>1. p \in Procs
  BY DEF Procs
<1>2. proc \in [Procs -> Processes]
  BY DEF RefundInv, RefundTypeOK
<1>3. RequestOK(r)
  BY DEF RefundInv
<1>4. proc' = [proc EXCEPT ![p] = q]
  BY DEF AdminReconcile
<1>5. proc'[p] = q
  BY <1>1, <1>2, <1>4
<1>6. q \in Processes
  BY IdleProcess DEF Processes, PCs
<1>7. UNCHANGED <<orderVars, requestVars, jobVars, providerVars, boundVars>>
  BY DEF AdminReconcile
<1>8. approved[r] # 0
  BY <1>3 DEF AdminReconcile, RequestOK
<1>9. ProcessOK(proc[p])'
  <2>1. q.pc = "query" /\ q.item = NoItem /\ q.req = r
    BY DEF Idle
  <2>2. QED
    BY <1>5, <1>7, <1>8, <2>1, RefundAssumption DEF ProcessOK, requestVars
<1>10. QED
  BY <1>1, <1>4, <1>5, <1>6, <1>7, <1>9, OnlyProcess DEF boundVars, RefundInv, RefundTypeOK

\* ReadRequest: the amount of the job was approved before, or nothing was.
LEMMA ReadRequestKeeps ==
    ASSUME RefundInv, NEW p \in Procs, ReadRequest(p)
    PROVE  RefundInv'
<1> DEFINE r == proc[p].req
           n == proc[p].amount
<1>1. /\ proc \in [Procs -> Processes] /\ proc[p] \in Processes
      /\ status \in [Requests -> RequestStatuses]
  BY DEF RefundInv, RefundTypeOK
<1>2. ProcessOK(proc[p])
  BY DEF RefundInv
<1>3. UNCHANGED <<orderVars, requestVars, jobVars, providerVars, boundVars>>
  BY DEF ReadRequest
<1>4. r \in Requests /\ n \in 0..Amount /\ n # 0
  BY <1>1, <1>2 DEF ReadRequest, ProcessOK, Processes
<1>5. RequestOK(r)
  BY <1>4 DEF RefundInv
<1>6. Written(p) /\ ProcessOK(proc[p])'
  <2>1. CASE Returns(p)
    BY <1>3, <1>4, <2>1, ReturnsIs, RefundAssumption DEF jobVars
  <2>2. CASE Throws(p)
    BY <2>2, ThrowsIs
  <2>3. CASE /\ Unsent(r, TRUE) /\ MayApprove(r, n, TRUE)
             /\ proc' = [proc EXCEPT ![p].pc = "claim", ![p].was = status[r]]
    <3>1. proc'[p] = [proc[p] EXCEPT !.pc = "claim", !.was = status[r]]
      BY <1>1, <2>3
    <3>2. Written(p)
      BY <1>1, <1>4, <2>3, <3>1 DEF Written, Processes, PCs
    <3>3. status[r] \in {"REQUESTED", "UNDER_REVIEW"} \/ approved[r] = n
      BY <1>1, <1>4, <1>5, <2>3 DEF Unsent, MayApprove, Immutable, RequestOK
    <3>4. status[r] # "NONE"
      BY <2>3 DEF Unsent
    <3>5. /\ proc'[p].pc = "claim" /\ proc'[p].item = proc[p].item /\ proc'[p].req = r
          /\ proc'[p].amount = n /\ proc'[p].was = status[r]
      BY <1>1, <3>1 DEF Processes
    <3>6. QED
      BY <1>2, <1>3, <1>4, <3>2, <3>3, <3>4, <3>5, RefundAssumption
         DEF ProcessOK, requestVars, jobVars
  <2>4. QED
    BY <2>1, <2>2, <2>3 DEF ReadRequest
<1>7. QED
  BY <1>3, <1>6, OnlyProcess DEF Written, boundVars, RefundInv, RefundTypeOK

\* QueryRefund: what the provider verified, or is completed, it returned.
LEMMA QueryRefundKeeps ==
    ASSUME RefundInv, NEW p \in Procs, QueryRefund(p)
    PROVE  RefundInv'
<1> DEFINE r == proc[p].req
<1>1. proc \in [Procs -> Processes] /\ proc[p] \in Processes /\ confirmed \in 0..Amount
  BY DEF RefundInv, RefundTypeOK
<1>2. ProcessOK(proc[p])
  BY DEF RefundInv
<1>3. UNCHANGED <<orderVars, requestVars, jobVars, providerVars, boundVars>>
  BY DEF QueryRefund
<1>4. r \in Requests /\ approved[r] # 0 /\ proc[p].pc = "query"
  BY <1>1, <1>2 DEF QueryRefund, ProcessOK, Processes
<1>5. Written(p) /\ ProcessOK(proc[p])'
  <2>1. CASE status[r] = "COMPLETED" /\ proc[p].item # NoItem /\ Then(p, "complete")
    <3>1. /\ Written(p) /\ proc'[p].pc = "complete" /\ proc'[p].item = proc[p].item
          /\ proc'[p].req = r
      BY <2>1, ThenIs DEF PCs
    <3>2. proc[p].item \in Items /\ link[proc[p].item] = r
      BY <1>1, <1>2, <1>4, <2>1, RefundAssumption DEF ProcessOK, Processes
    <3>3. refund[r] = "APPROVED"
      BY <1>4, <2>1, <3>2, RefundAssumption DEF RefundInv, JobOK
    <3>4. QED
      BY <1>3, <1>4, <2>1, <3>1, <3>2, <3>3, RefundAssumption
         DEF ProcessOK, requestVars, jobVars, providerVars
  <2>2. CASE /\ Verified(r)
             /\ proc' = [proc EXCEPT ![p].pc = "settle", ![p].total = confirmed]
    <3>1. proc'[p] = [proc[p] EXCEPT !.pc = "settle", !.total = confirmed]
      BY <1>1, <2>2
    <3>2. Written(p)
      BY <1>1, <2>2, <3>1 DEF Written, Processes, PCs
    <3>3. proc'[p].pc = "settle" /\ proc'[p].item = proc[p].item /\ proc'[p].req = r
      BY <1>1, <3>1 DEF Processes
    <3>4. QED
      BY <1>2, <1>3, <1>4, <2>2, <3>2, <3>3, RefundAssumption
         DEF ProcessOK, Verified, requestVars, jobVars, providerVars
  <2>3. CASE proc[p].item # NoItem /\ Finish(p, "WAITING_PROVIDER")
    BY <2>3, FinishIs DEF JobStatuses, ProcessOK
  <2>4. CASE proc' = [proc EXCEPT ![p] = Idle]
    BY <2>4, Stops DEF Written
  <2>5. CASE Throws(p)
    BY <2>5, ThrowsIs
  <2>6. QED
    BY <2>1, <2>2, <2>3, <2>4, <2>5 DEF QueryRefund
<1>6. QED
  BY <1>3, <1>5, OnlyProcess DEF Written, boundVars, RefundInv, RefundTypeOK

-----------------------------------------------------------------------------
(* What a worker only reads.                                               *)

\* BeginJob: the request of the job is the one the worker read.
LEMMA BeginJobKeeps ==
    ASSUME RefundInv, NEW p \in Procs, BeginJob(p)
    PROVE  RefundInv'
<1>1. proc \in [Procs -> Processes] /\ proc[p] \in Processes
  BY DEF RefundInv, RefundTypeOK
<1>2. ProcessOK(proc[p])
  BY DEF RefundInv
<1>3. UNCHANGED <<orderVars, requestVars, jobVars, providerVars, boundVars>>
  BY DEF BeginJob
<1>4. proc[p].pc = "job" /\ proc[p].item # NoItem /\ proc[p].amount # 0
  BY <1>2 DEF BeginJob, ProcessOK
<1>5. Written(p) /\ ProcessOK(proc[p])'
  <2>1. CASE Finish(p, "MANUAL_REVIEW")
    BY <1>4, <2>1, FinishIs DEF JobStatuses, ProcessOK
  <2>2. CASE proc[p].req # NoRequest /\ Goto(p, "look")
    <3>1. proc'[p] = [proc[p] EXCEPT !.pc = "look"]
      BY <1>1, <2>2 DEF Goto
    <3>2. Written(p)
      BY <1>1, <2>2, <3>1 DEF Goto, Written, Processes, PCs
    <3>3. /\ proc'[p].pc = "look" /\ proc'[p].item = proc[p].item /\ proc'[p].req = proc[p].req
          /\ proc'[p].amount = proc[p].amount
      BY <1>1, <3>1 DEF Processes
    <3>4. QED
      BY <1>2, <1>3, <1>4, <2>2, <3>2, <3>3 DEF ProcessOK, jobVars
  <2>3. QED
    BY <2>1, <2>2 DEF BeginJob
<1>6. QED
  BY <1>3, <1>5, OnlyProcess DEF Written, boundVars, RefundInv, RefundTypeOK

\* A worker that found its request completed knows that the provider returned it.
LEMMA FoundCompleted ==
    ASSUME RefundInv, NEW p \in Procs, proc[p].pc \in {"look", "after"},
           status[proc[p].req] = "COMPLETED", Then(p, "complete"),
           UNCHANGED <<requestVars, jobVars, providerVars>>
    PROVE  Written(p) /\ ProcessOK(proc[p])'
<1>1. proc[p] \in Processes
  BY DEF RefundInv, RefundTypeOK
<1>2. ProcessOK(proc[p])
  BY DEF RefundInv
<1>3. /\ Written(p) /\ proc'[p].pc = "complete" /\ proc'[p].item = proc[p].item
      /\ proc'[p].req = proc[p].req
  BY ThenIs DEF PCs
<1>4. /\ proc[p].item \in Items /\ proc[p].item # NoItem /\ proc[p].req # NoRequest
      /\ link[proc[p].item] = proc[p].req
  BY <1>1, <1>2, RefundAssumption DEF ProcessOK, Processes
<1>5. JobOK(proc[p].item)
  BY <1>4 DEF RefundInv
<1>6. refund[proc[p].req] = "APPROVED"
  BY <1>4, <1>5 DEF JobOK
<1>7. QED
  BY <1>3, <1>4, <1>6 DEF ProcessOK, requestVars, jobVars, providerVars

\* LookAtRequest.
LEMMA LookAtRequestKeeps ==
    ASSUME RefundInv, NEW p \in Procs, LookAtRequest(p)
    PROVE  RefundInv'
<1> DEFINE r == proc[p].req
<1>1. proc \in [Procs -> Processes] /\ proc[p] \in Processes
  BY DEF RefundInv, RefundTypeOK
<1>2. ProcessOK(proc[p])
  BY DEF RefundInv
<1>3. UNCHANGED <<orderVars, requestVars, jobVars, providerVars, boundVars>>
  BY DEF LookAtRequest
<1>4. /\ proc[p].pc = "look" /\ proc[p].item # NoItem /\ proc[p].amount # 0
      /\ r \in Requests /\ r # NoRequest
  BY <1>1, <1>2 DEF LookAtRequest, ProcessOK, Processes
<1>5. Written(p) /\ ProcessOK(proc[p])'
  <2>1. CASE status[r] = "COMPLETED" /\ Then(p, "complete")
    BY <1>3, <1>4, <2>1, FoundCompleted
  <2>2. CASE external[r] /\ Then(p, "query")
    <3>1. /\ Written(p) /\ proc'[p].pc = "query" /\ proc'[p].item = proc[p].item
          /\ proc'[p].req = r
      BY <2>2, ThenIs DEF PCs
    <3>2. approved[r] # 0
      BY <1>4, <2>2 DEF RefundInv, RequestOK
    <3>3. QED
      BY <1>2, <1>3, <1>4, <3>1, <3>2 DEF ProcessOK, requestVars, jobVars
  <2>3. CASE proc' = [proc EXCEPT ![p].pc = "read", ![p].reasoned = FALSE]
    <3>1. proc'[p] = [proc[p] EXCEPT !.pc = "read", !.reasoned = FALSE]
      BY <1>1, <2>3
    <3>2. Written(p)
      BY <1>1, <2>3, <3>1 DEF Written, Processes, PCs
    <3>3. /\ proc'[p].pc = "read" /\ proc'[p].item = proc[p].item /\ proc'[p].req = r
          /\ proc'[p].amount = proc[p].amount
      BY <1>1, <3>1 DEF Processes
    <3>4. QED
      BY <1>2, <1>3, <1>4, <3>2, <3>3 DEF ProcessOK, jobVars
  <2>4. QED
    BY <2>1, <2>2, <2>3 DEF LookAtRequest
<1>6. QED
  BY <1>3, <1>5, OnlyProcess DEF Written, boundVars, RefundInv, RefundTypeOK

\* AfterSend.
LEMMA AfterSendKeeps ==
    ASSUME RefundInv, NEW p \in Procs, AfterSend(p)
    PROVE  RefundInv'
<1>1. ProcessOK(proc[p])
  BY DEF RefundInv
<1>2. UNCHANGED <<orderVars, requestVars, jobVars, providerVars, boundVars>>
  BY DEF AfterSend
<1>3. proc[p].pc = "after" /\ proc[p].item # NoItem
  BY <1>1 DEF AfterSend, ProcessOK
<1>4. Written(p) /\ ProcessOK(proc[p])'
  <2>1. CASE status[proc[p].req] = "COMPLETED" /\ Then(p, "complete")
    BY <1>2, <1>3, <2>1, FoundCompleted
  <2>2. CASE Finish(p, "WAITING_PROVIDER")
    BY <1>3, <2>2, FinishIs DEF JobStatuses, ProcessOK
  <2>3. QED
    BY <2>1, <2>2 DEF AfterSend
<1>5. QED
  BY <1>2, <1>4, OnlyProcess DEF Written, boundVars, RefundInv, RefundTypeOK

\* Crash.
LEMMA CrashKeeps ==
    ASSUME RefundInv, NEW p \in Procs, Crash(p)
    PROVE  RefundInv'
<1>1. crashes' \in 0..MaxCrashes
  BY RefundAssumption DEF Crash, RefundInv, RefundTypeOK
<1>2. QED
  BY <1>1, Stops, OnlyProcess DEF Crash

\* StatementFails.
LEMMA StatementFailsKeeps ==
    ASSUME RefundInv, NEW p \in Workers, StatementFails(p)
    PROVE  RefundInv'
<1>1. p \in Procs
  BY DEF Procs
<1>2. crashes' \in 0..MaxCrashes
  BY RefundAssumption DEF StatementFails, RefundInv, RefundTypeOK
<1>3. Throws(p) /\ UNCHANGED <<orderVars, requestVars, jobVars, providerVars, reviews, panel>>
  BY DEF StatementFails
<1>4. Written(p) /\ ProcessOK(proc[p])'
  BY <1>1, <1>3, ThrowsIs
<1>5. QED
  BY <1>1, <1>2, <1>3, <1>4, OnlyProcess DEF Written

-----------------------------------------------------------------------------
(* What processRefundRequest and reconcileEventRefund change.              *)

\* The amount approved for a request that is claimed is the one approved before.
LEMMA ClaimRequestKeeps ==
    ASSUME RefundInv, NEW p \in Procs, ClaimRequest(p)
    PROVE  RefundInv'
<1> DEFINE r == proc[p].req
           n == proc[p].amount
<1>1. /\ proc \in [Procs -> Processes] /\ proc[p] \in Processes
      /\ status \in [Requests -> RequestStatuses] /\ approved \in [Requests -> 0..Amount]
  BY DEF RefundInv, RefundTypeOK
<1>2. ProcessOK(proc[p])
  BY DEF RefundInv
<1>3. /\ UNCHANGED <<orderVars, asked, external, jobVars, providerVars, boundVars>>
      /\ proc[p].pc = "claim"
  BY DEF ClaimRequest
<1>4. r \in Requests /\ n \in 0..Amount /\ n # 0
  BY <1>1, <1>2, <1>3 DEF ProcessOK, Processes
<1>5. RequestOK(r)
  BY <1>4 DEF RefundInv
<1>6. CASE Throws(p) /\ UNCHANGED <<status, approved>>
  BY <1>3, <1>6, ThrowsIs, OnlyProcess
     DEF Written, boundVars, requestVars, RefundInv, RefundTypeOK
<1>7. CASE /\ \A q \in Requests \ {r} : status[q] \notin InFlight
           /\ status[r] = proc[p].was
           /\ status' = [status EXCEPT ![r] = "PROCESSING"]
           /\ approved' = [approved EXCEPT ![r] = n]
           /\ proc' = [proc EXCEPT ![p].pc = "send", ![p].was = "NONE"]
  <2>1. approved[r] # 0 => approved[r] = n
    BY <1>2, <1>3, <1>4, <1>5, <1>7 DEF ProcessOK, RequestOK
  <2>2. Grows
    BY <1>1, <1>3, <1>7, <2>1 DEF Grows, jobVars, providerVars
  <2>3. proc'[p] = [proc[p] EXCEPT !.pc = "send", !.was = "NONE"]
    BY <1>1, <1>7
  <2>4. Written(p)
    BY <1>1, <1>7, <2>3 DEF Written, Processes, PCs, RequestStatuses
  <2>5. /\ proc'[p].pc = "send" /\ proc'[p].item = proc[p].item /\ proc'[p].req = r
        /\ proc'[p].amount = n
    BY <1>1, <2>3 DEF Processes
  <2>6. approved'[r] = n
    BY <1>1, <1>4, <1>7
  <2>7. ProcessOK(proc[p])'
    BY <1>2, <1>3, <1>4, <2>5, <2>6, RefundAssumption DEF ProcessOK, jobVars
  <2>8. RefundTypeOK'
    <3>1. proc' \in [Procs -> Processes]
      BY <1>1, <2>4 DEF Written
    <3>2. status' \in [Requests -> RequestStatuses] /\ approved' \in [Requests -> 0..Amount]
      BY <1>1, <1>4, <1>7 DEF RequestStatuses
    <3>3. QED
      BY <1>3, <3>1, <3>2
         DEF RefundInv, RefundTypeOK, orderVars, jobVars, providerVars, boundVars
  <2>9. OneRefundInFlight'
    BY <1>1, <1>4, <1>7 DEF OneRefundInFlight, InFlight
  <2>10. ASSUME NEW q \in Requests PROVE RequestOK(q)'
    <3>1. CASE q = r
      <4>1. /\ asked'[q] = asked[q] /\ external'[q] = external[q] /\ refund'[q] = refund[q]
            /\ refundCents'[q] = refundCents[q]
            /\ approved'[q] = n /\ status'[q] = "PROCESSING"
        BY <1>1, <1>3, <1>4, <1>7, <3>1 DEF providerVars
      <4>2. status[r] # "NONE"
        BY <1>2, <1>3, <1>7 DEF ProcessOK
      <4>3. QED
        BY <1>4, <1>5, <2>1, <3>1, <4>1, <4>2 DEF RequestOK
    <3>2. CASE q # r
      BY <1>1, <1>3, <1>7, <3>2 DEF RefundInv, RequestOK, providerVars
    <3>3. QED
      BY <3>1, <3>2
  <2>11. ASSUME NEW i \in Items PROVE JobOK(i)'
    <3>1. JobOK(i) /\ link[i] \in Requests \cup {NoRequest}
      BY DEF RefundInv, RefundTypeOK
    <3>2. QED
      BY <1>1, <1>3, <1>4, <1>7, <3>1 DEF JobOK, jobVars, providerVars
  <2>12. QED
    BY <2>2, <2>4, <2>7, <2>8, <2>9, <2>10, <2>11, OthersKnow DEF Written, RefundInv
<1>8. QED
  BY <1>6, <1>7 DEF ClaimRequest

\* What the provider returns for a request is what was approved for it.
LEMMA SendKeeps ==
    ASSUME RefundInv, NEW p \in Procs, Send(p)
    PROVE  RefundInv'
<1> DEFINE r == proc[p].req
           n == proc[p].amount
<1>1. /\ proc \in [Procs -> Processes] /\ proc[p] \in Processes
      /\ refund \in [Requests -> Refunds] /\ refundCents \in [Requests -> 0..Amount]
      /\ accepted \in 0..Amount /\ confirmed \in 0..Amount /\ reports \subseteq 1..Amount
  BY DEF RefundInv, RefundTypeOK
<1>2. ProcessOK(proc[p])
  BY DEF RefundInv
<1>3. UNCHANGED <<orderVars, requestVars, jobVars, boundVars>> /\ proc[p].pc = "send"
  BY DEF Send
<1>4. r \in Requests /\ n \in 0..Amount /\ n # 0 /\ approved[r] = n
  BY <1>1, <1>2, <1>3 DEF ProcessOK, Processes
<1>5. PICK c \in {"record", "fail"} : Then(p, c)
  BY DEF Send
<1>6. /\ Written(p) /\ proc'[p].pc = c /\ proc'[p].item = proc[p].item /\ proc'[p].req = r
  BY <1>5, ThenIs DEF PCs
<1>7. ProcessOK(proc[p])'
  BY <1>2, <1>3, <1>4, <1>6, RefundAssumption DEF ProcessOK, jobVars, requestVars
<1>8. CASE UNCHANGED providerVars
  BY <1>3, <1>6, <1>7, <1>8, OnlyProcess DEF Written, boundVars, RefundInv, RefundTypeOK
<1>9. CASE /\ refund[r] = "NONE" /\ n <= Amount - accepted
           /\ refundCents' = [refundCents EXCEPT ![r] = n]
           /\ accepted' = accepted + n
           /\ \/ /\ refund' = [refund EXCEPT ![r] = "PENDING"]
                 /\ UNCHANGED <<confirmed, reports>>
              \/ /\ confirmed + n <= Amount
                 /\ refund' = [refund EXCEPT ![r] = "APPROVED"]
                 /\ confirmed' = confirmed + n
                 /\ reports' = reports \cup {confirmed + n}
  <2>1. PICK v \in {"PENDING", "APPROVED"} : refund' = [refund EXCEPT ![r] = v]
    BY <1>9
  <2>2. Grows
    BY <1>1, <1>3, <1>9, <2>1 DEF Grows, jobVars, requestVars
  <2>3. RefundTypeOK'
    <3>1. proc' \in [Procs -> Processes]
      BY <1>1, <1>6 DEF Written
    <3>2. refund' \in [Requests -> Refunds]
      BY <1>1, <2>1 DEF Refunds
    <3>3. refundCents' \in [Requests -> 0..Amount]
      BY <1>1, <1>4, <1>9
    <3>4. accepted' \in 0..Amount /\ confirmed' \in 0..Amount /\ reports' \subseteq 1..Amount
      <4>1. Amount \in Nat
        BY RefundAssumption
      <4>2. accepted' \in 0..Amount
        BY <1>1, <1>4, <1>9, <4>1
      <4>3. CASE UNCHANGED <<confirmed, reports>>
        BY <1>1, <4>2, <4>3
      <4>4. CASE /\ confirmed + n <= Amount /\ confirmed' = confirmed + n
                 /\ reports' = reports \cup {confirmed + n}
        <5>1. confirmed + n \in 1..Amount
          BY <1>1, <1>4, <4>1, <4>4
        <5>2. confirmed' \in 0..Amount
          BY <4>1, <4>4, <5>1
        <5>3. reports' \subseteq 1..Amount
          BY <1>1, <4>4, <5>1
        <5>4. QED
          BY <4>2, <5>2, <5>3
      <4>5. QED
        BY <1>9, <4>3, <4>4
    <3>5. QED
      BY <1>3, <3>1, <3>2, <3>3, <3>4
         DEF RefundInv, RefundTypeOK, orderVars, jobVars, requestVars, boundVars
  <2>4. OneRefundInFlight'
    BY <1>3 DEF RefundInv, OneRefundInFlight, requestVars
  <2>5. ASSUME NEW q \in Requests PROVE RequestOK(q)'
    <3>1. RequestOK(q)
      BY DEF RefundInv
    <3>2. CASE q = r
      BY <1>1, <1>3, <1>4, <1>9, <3>1, <3>2 DEF RequestOK, requestVars
    <3>3. CASE q # r
      BY <1>1, <1>3, <1>9, <2>1, <3>1, <3>3 DEF RequestOK, requestVars
    <3>4. QED
      BY <3>2, <3>3
  <2>6. ASSUME NEW i \in Items PROVE JobOK(i)'
    <3>1. JobOK(i) /\ link[i] \in Requests \cup {NoRequest}
      BY DEF RefundInv, RefundTypeOK
    <3>2. QED
      BY <1>1, <1>3, <1>9, <2>1, <3>1 DEF JobOK, jobVars, requestVars
  <2>7. QED
    BY <1>6, <1>7, <2>2, <2>3, <2>4, <2>5, <2>6, OthersKnow DEF Written, RefundInv
<1>10. QED
  BY <1>8, <1>9 DEF Send, ProviderRefunds

\* RecordRefund.
LEMMA RecordRefundKeeps ==
    ASSUME RefundInv, NEW p \in Procs, RecordRefund(p)
    PROVE  RefundInv'
<1> DEFINE r == proc[p].req
<1>1. /\ proc \in [Procs -> Processes] /\ proc[p] \in Processes
      /\ external \in [Requests -> BOOLEAN]
  BY DEF RefundInv, RefundTypeOK
<1>2. ProcessOK(proc[p])
  BY DEF RefundInv
<1>3. /\ UNCHANGED <<orderVars, status, asked, approved, jobVars, providerVars, boundVars>>
      /\ proc[p].pc = "record" /\ external' = [external EXCEPT ![r] = TRUE]
  BY DEF RecordRefund
<1>4. r \in Requests /\ r # NoRequest /\ approved[r] # 0
  BY <1>1, <1>2, <1>3 DEF ProcessOK, Processes
<1>5. Written(p) /\ ProcessOK(proc[p])'
  <2>1. CASE Returns(p)
    BY <1>3, <1>4, <2>1, ReturnsIs DEF jobVars
  <2>2. CASE Then(p, "fail")
    <3>1. /\ Written(p) /\ proc'[p].pc = "fail" /\ proc'[p].item = proc[p].item
          /\ proc'[p].req = r
      BY <2>2, ThenIs DEF PCs
    <3>2. QED
      BY <1>2, <1>3, <1>4, <3>1 DEF ProcessOK, jobVars
  <2>3. QED
    BY <2>1, <2>2 DEF RecordRefund
<1>6. Grows
  BY <1>3 DEF Grows, jobVars, providerVars
<1>7. RefundTypeOK'
  <2>1. proc' \in [Procs -> Processes]
    BY <1>1, <1>5 DEF Written
  <2>2. external' \in [Requests -> BOOLEAN]
    BY <1>1, <1>3
  <2>3. QED
    BY <1>3, <2>1, <2>2
       DEF RefundInv, RefundTypeOK, orderVars, jobVars, providerVars, boundVars
<1>8. OneRefundInFlight'
  BY <1>3 DEF RefundInv, OneRefundInFlight
<1>9. \A q \in Requests : RequestOK(q)'
  BY <1>1, <1>3, <1>4 DEF RefundInv, RequestOK, providerVars
<1>10. \A i \in Items : JobOK(i)'
  BY <1>3 DEF RefundInv, JobOK, jobVars, providerVars
<1>11. QED
  BY <1>5, <1>6, <1>7, <1>8, <1>9, <1>10, OthersKnow DEF Written, RefundInv

\* FailRequest.
LEMMA FailRequestKeeps ==
    ASSUME RefundInv, NEW p \in Procs, FailRequest(p)
    PROVE  RefundInv'
<1> DEFINE r == proc[p].req
<1>1. /\ proc \in [Procs -> Processes] /\ proc[p] \in Processes
      /\ status \in [Requests -> RequestStatuses]
  BY DEF RefundInv, RefundTypeOK
<1>2. ProcessOK(proc[p])
  BY DEF RefundInv
<1>3. /\ UNCHANGED <<orderVars, asked, approved, external, jobVars, providerVars, boundVars>>
      /\ proc[p].pc = "fail" /\ status' = [status EXCEPT ![r] = "FAILED"] /\ Throws(p)
  BY DEF FailRequest
<1>4. r \in Requests /\ approved[r] # 0
  BY <1>1, <1>2, <1>3 DEF ProcessOK, Processes
<1>5. Written(p) /\ ProcessOK(proc[p])'
  BY <1>3, ThrowsIs
<1>6. Grows
  BY <1>3 DEF Grows, jobVars, providerVars
<1>7. RefundTypeOK'
  <2>1. proc' \in [Procs -> Processes]
    BY <1>1, <1>5 DEF Written
  <2>2. status' \in [Requests -> RequestStatuses]
    BY <1>1, <1>3 DEF RequestStatuses
  <2>3. QED
    BY <1>3, <2>1, <2>2
       DEF RefundInv, RefundTypeOK, orderVars, jobVars, providerVars, boundVars
<1>8. OneRefundInFlight'
  BY <1>1, <1>3 DEF RefundInv, OneRefundInFlight
<1>9. \A q \in Requests : RequestOK(q)'
  BY <1>1, <1>3, <1>4 DEF RefundInv, RequestOK, providerVars
<1>10. ASSUME NEW i \in Items PROVE JobOK(i)'
  <2>1. JobOK(i) /\ link[i] \in Requests \cup {NoRequest}
    BY DEF RefundInv, RefundTypeOK
  <2>2. QED
    BY <1>1, <1>3, <2>1 DEF JobOK, jobVars, providerVars
<1>11. QED
  BY <1>5, <1>6, <1>7, <1>8, <1>9, <1>10, OthersKnow DEF Written, RefundInv

\* A settlement only completes requests of no job that were approved.
LEMMA SettleCompletes ==
    ASSUME RefundInv, NEW t \in 0..Amount, Settle(t)
    PROVE  /\ status' \in [Requests -> RequestStatuses]
           /\ \A r \in Requests :
                 \/ status'[r] = status[r]
                 \/ /\ status'[r] = "COMPLETED" /\ ~ OfJob(r)
                    /\ status[r] \in {"APPROVED", "PROCESSING"}
           /\ refunded' \in 0..Amount /\ orderStatus' \in OrderStatuses
           /\ reports' \subseteq 1..Amount
<1> DEFINE waiting == IF t = Amount THEN {"APPROVED", "PROCESSING"} ELSE {"PROCESSING"}
           done(r) == status[r] \in waiting /\ ~ OfJob(r) /\ approved[r] = t - refunded
<1>1. /\ status \in [Requests -> RequestStatuses] /\ refunded \in 0..Amount
      /\ orderStatus \in OrderStatuses /\ reports \subseteq 1..Amount
  BY DEF RefundInv, RefundTypeOK
<1>2. CASE UNCHANGED <<orderStatus, refunded, status, reports>>
  BY <1>1, <1>2
<1>3. CASE /\ refunded' = t
           /\ reports' = {x \in reports : x > t}
           /\ orderStatus' = IF t = Amount THEN "REFUNDED" ELSE "PARTIALLY_REFUNDED"
           /\ status' = [r \in Requests |-> IF done(r) THEN "COMPLETED" ELSE status[r]]
  <2>1. status' \in [Requests -> RequestStatuses]
    BY <1>1, <1>3 DEF RequestStatuses
  <2>2. ASSUME NEW r \in Requests
        PROVE  \/ status'[r] = status[r]
               \/ /\ status'[r] = "COMPLETED" /\ ~ OfJob(r)
                  /\ status[r] \in {"APPROVED", "PROCESSING"}
    BY <1>3
  <2>3. orderStatus' \in OrderStatuses
    BY <1>3 DEF OrderStatuses
  <2>4. reports' \subseteq 1..Amount
    BY <1>1, <1>3
  <2>5. QED
    BY <1>3, <2>1, <2>2, <2>3, <2>4
<1>4. QED
  BY <1>2, <1>3 DEF Settle

\* What a settlement keeps of the invariant.
LEMMA SettleKeeps ==
    ASSUME RefundInv, NEW t \in 0..Amount, Settle(t), proc' \in [Procs -> Processes],
           UNCHANGED <<spent, otherUsed, asked, approved, external, jobVars, refund, refundCents,
                       accepted, confirmed, boundVars>>
    PROVE  /\ Grows /\ RefundTypeOK' /\ OneRefundInFlight'
           /\ \A r \in Requests : RequestOK(r)'
           /\ \A i \in Items : JobOK(i)'
<1>1. /\ status' \in [Requests -> RequestStatuses]
      /\ \A r \in Requests :
            \/ status'[r] = status[r]
            \/ /\ status'[r] = "COMPLETED" /\ ~ OfJob(r)
               /\ status[r] \in {"APPROVED", "PROCESSING"}
      /\ refunded' \in 0..Amount /\ orderStatus' \in OrderStatuses
      /\ reports' \subseteq 1..Amount
  BY SettleCompletes
<1>2. Grows
  BY DEF Grows, jobVars
<1>3. RefundTypeOK'
  BY <1>1 DEF RefundInv, RefundTypeOK, jobVars, boundVars
<1>4. OneRefundInFlight'
  BY <1>1 DEF RefundInv, OneRefundInFlight
<1>5. ASSUME NEW r \in Requests PROVE RequestOK(r)'
  <2>1. RequestOK(r)
    BY DEF RefundInv
  <2>2. QED
    BY <1>1, <2>1 DEF RequestOK
<1>6. ASSUME NEW i \in Items PROVE JobOK(i)'
  <2>1. JobOK(i) /\ link[i] \in Requests \cup {NoRequest}
    BY DEF RefundInv, RefundTypeOK
  <2>2. link[i] # NoRequest => status'[link[i]] = status[link[i]]
    BY <1>1, <2>1 DEF OfJob
  <2>3. QED
    BY <2>1, <2>2 DEF JobOK, jobVars
<1>7. QED
  BY <1>2, <1>3, <1>4, <1>5, <1>6

\* SettleVerified.
LEMMA SettleVerifiedKeeps ==
    ASSUME RefundInv, NEW p \in Procs, SettleVerified(p)
    PROVE  RefundInv'
<1>1. /\ proc \in [Procs -> Processes] /\ proc[p] \in Processes
      /\ proc[p].total \in 0..Amount
  BY DEF RefundInv, RefundTypeOK, Processes
<1>2. ProcessOK(proc[p])
  BY DEF RefundInv
<1>3. /\ proc[p].pc = "settle" /\ Settle(proc[p].total) /\ Then(p, "close")
      /\ UNCHANGED <<spent, otherUsed, asked, approved, external, jobVars, refund, refundCents,
                     accepted, confirmed, boundVars>>
  BY DEF SettleVerified
<1>4. /\ Written(p) /\ proc'[p].pc = "close" /\ proc'[p].item = proc[p].item
      /\ proc'[p].req = proc[p].req
  BY <1>3, ThenIs DEF PCs
<1>5. ProcessOK(proc[p])'
  BY <1>2, <1>3, <1>4 DEF ProcessOK, jobVars
<1>6. proc' \in [Procs -> Processes]
  BY <1>1, <1>4 DEF Written
<1>7. /\ Grows /\ RefundTypeOK' /\ OneRefundInFlight'
      /\ \A r \in Requests : RequestOK(r)'
      /\ \A i \in Items : JobOK(i)'
  BY <1>1, <1>3, <1>6, SettleKeeps
<1>8. QED
  BY <1>4, <1>5, <1>7, OthersKnow DEF Written, RefundInv

\* Webhook.
LEMMA WebhookKeeps ==
    ASSUME RefundInv, NEW t \in 1..Amount, Webhook(t)
    PROVE  RefundInv'
<1>1. /\ Settle(t) /\ proc' = proc
      /\ UNCHANGED <<spent, otherUsed, asked, approved, external, jobVars, refund, refundCents,
                     accepted, confirmed, boundVars>>
  BY DEF Webhook
<1>2. t \in 0..Amount /\ proc' \in [Procs -> Processes]
  BY <1>1, RefundAssumption DEF RefundInv, RefundTypeOK
<1>3. /\ Grows /\ RefundTypeOK' /\ OneRefundInFlight'
      /\ \A r \in Requests : RequestOK(r)'
      /\ \A i \in Items : JobOK(i)'
  BY <1>1, <1>2, SettleKeeps
<1>4. QED
  BY <1>1, <1>3, AllKnow DEF RefundInv

\* CloseRequest: the provider returned what is closed.
LEMMA CloseRequestKeeps ==
    ASSUME RefundInv, NEW p \in Procs, CloseRequest(p)
    PROVE  RefundInv'
<1> DEFINE r == proc[p].req
<1>1. /\ proc \in [Procs -> Processes] /\ proc[p] \in Processes
      /\ status \in [Requests -> RequestStatuses]
  BY DEF RefundInv, RefundTypeOK
<1>2. ProcessOK(proc[p])
  BY DEF RefundInv
<1>3. /\ UNCHANGED <<orderVars, asked, approved, external, jobVars, providerVars, boundVars>>
      /\ proc[p].pc = "close" /\ status' = [status EXCEPT ![r] = "COMPLETED"]
  BY DEF CloseRequest
<1>4. r \in Requests /\ r # NoRequest /\ approved[r] # 0 /\ refund[r] = "APPROVED"
  BY <1>1, <1>2, <1>3 DEF ProcessOK, Processes
<1>5. Written(p) /\ ProcessOK(proc[p])'
  <2>1. CASE proc[p].item # NoItem
    <3>1. Then(p, "complete")
      BY <2>1 DEF CloseRequest
    <3>2. /\ Written(p) /\ proc'[p].pc = "complete" /\ proc'[p].item = proc[p].item
          /\ proc'[p].req = r
      BY <3>1, ThenIs DEF PCs
    <3>3. QED
      BY <1>2, <1>3, <1>4, <2>1, <3>2 DEF ProcessOK, jobVars, providerVars
  <2>2. CASE proc[p].item = NoItem
    BY <2>2, Stops DEF CloseRequest, Written
  <2>3. QED
    BY <2>1, <2>2
<1>6. Grows
  BY <1>3 DEF Grows, jobVars, providerVars
<1>7. RefundTypeOK'
  <2>1. proc' \in [Procs -> Processes]
    BY <1>1, <1>5 DEF Written
  <2>2. status' \in [Requests -> RequestStatuses]
    BY <1>1, <1>3 DEF RequestStatuses
  <2>3. QED
    BY <1>3, <2>1, <2>2
       DEF RefundInv, RefundTypeOK, orderVars, jobVars, providerVars, boundVars
<1>8. OneRefundInFlight'
  BY <1>1, <1>3 DEF RefundInv, OneRefundInFlight
<1>9. \A q \in Requests : RequestOK(q)'
  BY <1>1, <1>3, <1>4 DEF RefundInv, RequestOK, providerVars
<1>10. ASSUME NEW i \in Items PROVE JobOK(i)'
  <2>1. JobOK(i) /\ link[i] \in Requests \cup {NoRequest}
    BY DEF RefundInv, RefundTypeOK
  <2>2. QED
    BY <1>1, <1>3, <1>4, <2>1 DEF JobOK, jobVars, providerVars
<1>11. QED
  BY <1>5, <1>6, <1>7, <1>8, <1>9, <1>10, OthersKnow DEF Written, RefundInv

-----------------------------------------------------------------------------
(* Staff, customers and the provider.                                      *)

\* RequestRefund: a new request has an amount, and nothing was approved yet.
LEMMA RequestRefundKeeps ==
    ASSUME RefundInv, NEW r \in Requests, NEW n \in 1..Amount, RequestRefund(r, n)
    PROVE  RefundInv'
<1>1. PICK v \in {"REQUESTED", "UNDER_REVIEW"} : status' = [status EXCEPT ![r] = v]
  BY DEF RequestRefund
<1>2. /\ status[r] = "NONE" /\ asked' = [asked EXCEPT ![r] = n]
      /\ orderStatus' = "REFUND_PENDING" /\ proc' = proc
      /\ UNCHANGED <<refunded, spent, otherUsed, approved, external, jobVars, providerVars,
                     boundVars>>
  BY DEF RequestRefund
<1>3. status \in [Requests -> RequestStatuses] /\ asked \in [Requests -> 0..Amount]
  BY DEF RefundInv, RefundTypeOK
<1>4. Grows
  BY <1>2 DEF Grows, jobVars, providerVars
<1>5. RefundTypeOK'
  <2>1. status' \in [Requests -> RequestStatuses]
    BY <1>1, <1>3 DEF RequestStatuses
  <2>2. asked' \in [Requests -> 0..Amount]
    BY <1>2, <1>3, RefundAssumption
  <2>3. orderStatus' \in OrderStatuses
    BY <1>2 DEF OrderStatuses
  <2>4. QED
    BY <1>2, <2>1, <2>2, <2>3 DEF RefundInv, RefundTypeOK, jobVars, providerVars, boundVars
<1>6. OneRefundInFlight'
  BY <1>1, <1>3 DEF RefundInv, OneRefundInFlight
<1>7. ASSUME NEW q \in Requests PROVE RequestOK(q)'
  <2>1. RequestOK(q)
    BY DEF RefundInv
  <2>2. QED
    BY <1>1, <1>2, <1>3, <2>1 DEF RequestOK, providerVars
<1>8. ASSUME NEW i \in Items PROVE JobOK(i)'
  <2>1. JobOK(i) /\ link[i] \in Requests \cup {NoRequest}
    BY DEF RefundInv, RefundTypeOK
  <2>2. QED
    BY <1>1, <1>2, <1>3, <2>1 DEF JobOK, jobVars, providerVars
<1>9. QED
  BY <1>2, <1>4, <1>5, <1>6, <1>7, <1>8, AllKnow DEF RefundInv

\* UseRight.
LEMMA UseRightKeeps ==
    ASSUME RefundInv, UseRight
    PROVE  RefundInv'
<1> USE DEF requestVars, jobVars, providerVars, boundVars
<1>1. /\ otherUsed' = TRUE /\ proc' = proc
      /\ UNCHANGED <<orderStatus, refunded, spent, requestVars, jobVars, providerVars, boundVars>>
  BY DEF UseRight
<1>2. Grows
  BY <1>1 DEF Grows
<1>3. RefundTypeOK'
  BY <1>1 DEF RefundInv, RefundTypeOK
<1>4. OneRefundInFlight'
  BY <1>1 DEF RefundInv, OneRefundInFlight
<1>5. \A q \in Requests : RequestOK(q)'
  BY <1>1 DEF RefundInv, RequestOK
<1>6. \A i \in Items : JobOK(i)'
  BY <1>1 DEF RefundInv, JobOK
<1>7. QED
  BY <1>1, <1>2, <1>3, <1>4, <1>5, <1>6, AllKnow DEF RefundInv

\* ProviderApproves.
LEMMA ProviderApprovesKeeps ==
    ASSUME RefundInv, NEW r \in Requests, ProviderApproves(r)
    PROVE  RefundInv'
<1> DEFINE n == refundCents[r]
<1>1. /\ refund \in [Requests -> Refunds] /\ n \in 0..Amount /\ confirmed \in 0..Amount
      /\ reports \subseteq 1..Amount /\ Amount \in Nat
  BY RefundAssumption DEF RefundInv, RefundTypeOK
<1>2. /\ refund[r] = "PENDING" /\ confirmed + n <= Amount
      /\ refund' = [refund EXCEPT ![r] = "APPROVED"]
      /\ confirmed' = confirmed + n /\ reports' = reports \cup {confirmed + n} /\ proc' = proc
      /\ UNCHANGED <<refundCents, accepted, orderVars, requestVars, jobVars, boundVars>>
  BY DEF ProviderApproves
<1>3. RequestOK(r) /\ approved[r] \in 0..Amount
  BY DEF RefundInv, RefundTypeOK
<1>4. n # 0
  BY <1>2, <1>3 DEF RequestOK
<1>5. Grows
  BY <1>1, <1>2 DEF Grows, jobVars, requestVars
<1>6. RefundTypeOK'
  <2>1. confirmed + n \in 1..Amount
    BY <1>1, <1>2, <1>4
  <2>2. confirmed' \in 0..Amount
    BY <1>1, <1>2, <2>1
  <2>3. reports' \subseteq 1..Amount
    BY <1>1, <1>2, <2>1
  <2>4. refund' \in [Requests -> Refunds]
    BY <1>1, <1>2 DEF Refunds
  <2>5. QED
    BY <1>2, <2>2, <2>3, <2>4
       DEF RefundInv, RefundTypeOK, orderVars, requestVars, jobVars, boundVars
<1>7. OneRefundInFlight'
  BY <1>2 DEF RefundInv, OneRefundInFlight, requestVars
<1>8. ASSUME NEW q \in Requests PROVE RequestOK(q)'
  <2>1. RequestOK(q)
    BY DEF RefundInv
  <2>2. QED
    BY <1>1, <1>2, <2>1 DEF RequestOK, requestVars
<1>9. ASSUME NEW i \in Items PROVE JobOK(i)'
  <2>1. JobOK(i) /\ link[i] \in Requests \cup {NoRequest}
    BY DEF RefundInv, RefundTypeOK
  <2>2. QED
    BY <1>1, <1>2, <2>1 DEF JobOK, requestVars, jobVars
<1>10. QED
  BY <1>2, <1>5, <1>6, <1>7, <1>8, <1>9, AllKnow DEF RefundInv

\* PanelRefund.
LEMMA PanelRefundKeeps ==
    ASSUME RefundInv, NEW n \in 1..Amount, PanelRefund(n)
    PROVE  RefundInv'
<1> USE DEF orderVars, requestVars, jobVars
<1>1. /\ accepted \in 0..Amount /\ confirmed \in 0..Amount /\ reports \subseteq 1..Amount
      /\ panel \in 0..MaxPanel /\ Amount \in Nat /\ MaxPanel \in Nat
  BY RefundAssumption DEF RefundInv, RefundTypeOK
<1>2. /\ panel + n <= MaxPanel /\ n <= Amount - accepted /\ confirmed + n <= Amount
      /\ accepted' = accepted + n /\ confirmed' = confirmed + n
      /\ reports' = reports \cup {confirmed + n} /\ panel' = panel + n /\ proc' = proc
      /\ UNCHANGED <<refund, refundCents, orderVars, requestVars, jobVars, reviews, crashes>>
  BY DEF PanelRefund
<1>3. Grows
  BY <1>2 DEF Grows
<1>4. RefundTypeOK'
  <2>1. confirmed + n \in 1..Amount
    BY <1>1, <1>2
  <2>2. confirmed' \in 0..Amount
    BY <1>1, <1>2, <2>1
  <2>3. reports' \subseteq 1..Amount
    BY <1>1, <1>2, <2>1
  <2>4. accepted' \in 0..Amount /\ panel' \in 0..MaxPanel
    BY <1>1, <1>2
  <2>5. QED
    BY <1>2, <2>2, <2>3, <2>4 DEF RefundInv, RefundTypeOK
<1>5. OneRefundInFlight'
  BY <1>2 DEF RefundInv, OneRefundInFlight
<1>6. \A q \in Requests : RequestOK(q)'
  BY <1>2 DEF RefundInv, RequestOK
<1>7. \A i \in Items : JobOK(i)'
  BY <1>2 DEF RefundInv, JobOK
<1>8. QED
  BY <1>2, <1>3, <1>4, <1>5, <1>6, <1>7, AllKnow DEF RefundInv

-----------------------------------------------------------------------------
(* What EventRefundWorker changes.                                         *)

\* A step that changes jobs and one process, but no request and no link.
LEMMA OnlyJobs ==
    ASSUME RefundInv, NEW p \in Procs, Written(p), ProcessOK(proc[p])', RefundTypeOK',
           \A i \in Items : JobOK(i)',
           UNCHANGED <<requestVars, link, providerVars>>
    PROVE  RefundInv'
<1> USE DEF requestVars, providerVars
<1>1. Grows
  BY DEF Grows
<1>2. OneRefundInFlight'
  BY DEF RefundInv, OneRefundInFlight
<1>3. \A r \in Requests : RequestOK(r)'
  BY DEF RefundInv, RequestOK
<1>4. QED
  BY <1>1, <1>2, <1>3, OthersKnow DEF Written, RefundInv

\* A step that changes jobs, but no process, no request, no link.
LEMMA OnlyJobRows ==
    ASSUME RefundInv, proc' = proc, RefundTypeOK',
           \A i \in Items : job'[i] = "COMPLETED" => job[i] = "COMPLETED",
           UNCHANGED <<requestVars, link, providerVars>>
    PROVE  RefundInv'
<1> USE DEF requestVars, providerVars
<1>1. Grows
  BY DEF Grows
<1>2. OneRefundInFlight'
  BY DEF RefundInv, OneRefundInFlight
<1>3. \A r \in Requests : RequestOK(r)'
  BY DEF RefundInv, RequestOK
<1>4. \A i \in Items : JobOK(i)'
  BY DEF RefundInv, JobOK
<1>5. QED
  BY <1>1, <1>2, <1>3, <1>4, AllKnow DEF RefundInv

\* Discover.
LEMMA DiscoverKeeps ==
    ASSUME RefundInv, NEW i \in Items, Discover(i)
    PROVE  RefundInv'
<1>1. /\ job' = [job EXCEPT ![i] = "QUEUED"] /\ proc' = proc
      /\ UNCHANGED <<link, cents, noted, attempts, holder, due, orderVars, requestVars,
                     providerVars, boundVars>>
  BY DEF Discover
<1>2. job \in [Items -> JobStatuses]
  BY DEF RefundInv, RefundTypeOK
<1>3. job' \in [Items -> JobStatuses]
  BY <1>1, <1>2 DEF JobStatuses
<1>4. RefundTypeOK'
  BY <1>1, <1>3 DEF RefundInv, RefundTypeOK, orderVars, requestVars, providerVars, boundVars
<1>5. \A x \in Items : job'[x] = "COMPLETED" => job[x] = "COMPLETED"
  BY <1>1, <1>2
<1>6. QED
  BY <1>1, <1>4, <1>5, OnlyJobRows

\* BecomesDue.
LEMMA BecomesDueKeeps ==
    ASSUME RefundInv, NEW i \in Items, BecomesDue(i)
    PROVE  RefundInv'
<1>1. /\ due' = [due EXCEPT ![i] = TRUE]
      /\ UNCHANGED <<job, link, cents, noted, attempts, holder, orderVars, requestVars,
                     providerVars, proc, boundVars>>
  BY DEF BecomesDue
<1>2. due' \in [Items -> BOOLEAN]
  BY <1>1 DEF RefundInv, RefundTypeOK
<1>3. RefundTypeOK'
  BY <1>1, <1>2 DEF RefundInv, RefundTypeOK, orderVars, requestVars, providerVars, boundVars
<1>4. QED
  BY <1>1, <1>3, OnlyJobRows

\* Review: the amount stays within the total of the item.
LEMMA ReviewKeeps ==
    ASSUME RefundInv, NEW i \in Items, NEW n \in 1..Amount, NEW approve \in BOOLEAN,
           Review(i, n, approve)
    PROVE  RefundInv'
<1>1. PICK v \in {"QUEUED", "REJECTED"} : job' = [job EXCEPT ![i] = v]
  BY DEF Review
<1>2. /\ n <= Cost[i] /\ reviews < MaxReviews /\ proc' = proc
      /\ cents' = [cents EXCEPT ![i] = n] /\ noted' = [noted EXCEPT ![i] = TRUE]
      /\ attempts' = [attempts EXCEPT ![i] = 0] /\ due' = [due EXCEPT ![i] = TRUE]
      /\ reviews' = reviews + 1
      /\ UNCHANGED <<link, holder, orderVars, requestVars, providerVars, panel, crashes>>
  BY DEF Review, MayReview
<1>3. /\ job \in [Items -> JobStatuses] /\ cents \in [Items -> 1..Amount]
      /\ \A x \in Items : cents[x] \in 1..Cost[x]
      /\ noted \in [Items -> BOOLEAN] /\ attempts \in [Items -> 0..RetryLimit + 1]
      /\ due \in [Items -> BOOLEAN] /\ reviews \in 0..MaxReviews
  BY DEF RefundInv, RefundTypeOK
<1>4. RefundTypeOK'
  <2>1. job' \in [Items -> JobStatuses]
    BY <1>1, <1>3 DEF JobStatuses
  <2>2. cents' \in [Items -> 1..Amount] /\ \A x \in Items : cents'[x] \in 1..Cost[x]
    BY <1>2, <1>3, RefundAssumption
  <2>3. noted' \in [Items -> BOOLEAN] /\ due' \in [Items -> BOOLEAN]
    BY <1>2, <1>3
  <2>4. attempts' \in [Items -> 0..RetryLimit + 1]
    BY <1>2, <1>3, RefundAssumption
  <2>5. reviews' \in 0..MaxReviews
    BY <1>2, <1>3, RefundAssumption
  <2>6. QED
    BY <1>2, <2>1, <2>2, <2>3, <2>4, <2>5
       DEF RefundInv, RefundTypeOK, orderVars, requestVars, providerVars
<1>5. \A x \in Items : job'[x] = "COMPLETED" => job[x] = "COMPLETED"
  BY <1>1, <1>3
<1>6. QED
  BY <1>2, <1>4, <1>5, OnlyJobRows

\* TakeJob: the worker reads the request and the amount of the job.
LEMMA TakeJobKeeps ==
    ASSUME RefundInv, NEW p \in Workers, NEW i \in Items, TakeJob(p, i)
    PROVE  RefundInv'
<1> DEFINE q == [Idle EXCEPT !.pc = "job", !.item = i, !.req = link[i], !.amount = cents[i],
                             !.reasoned = noted[i]]
<1>1. p \in Procs
  BY DEF Procs
<1>2. /\ job' = [job EXCEPT ![i] = "PROCESSING"] /\ holder' = [holder EXCEPT ![i] = p]
      /\ attempts' = [attempts EXCEPT ![i] = OneMoreAttempt(@)]
      /\ due' = [due EXCEPT ![i] = FALSE] /\ proc' = [proc EXCEPT ![p] = q]
      /\ UNCHANGED <<link, cents, noted, orderVars, requestVars, providerVars, boundVars>>
  BY DEF TakeJob
<1>3. /\ proc \in [Procs -> Processes] /\ job \in [Items -> JobStatuses]
      /\ holder \in [Items -> Workers \cup {NoProc}] /\ due \in [Items -> BOOLEAN]
      /\ attempts \in [Items -> 0..RetryLimit + 1] /\ cents[i] \in 1..Amount
      /\ noted[i] \in BOOLEAN /\ link[i] \in Requests \cup {NoRequest}
      /\ Amount \in Nat /\ RetryLimit \in Nat
  BY RefundAssumption DEF RefundInv, RefundTypeOK
<1>4. proc'[p] = q
  BY <1>1, <1>2, <1>3
<1>5. q \in Processes
  <2>1. cents[i] \in 0..Amount
    BY <1>3
  <2>2. [Idle EXCEPT !.pc = "job", !.item = i] \in Processes
    BY IdleProcess DEF Processes, PCs
  <2>3. \A z \in Processes :
           [z EXCEPT !.req = link[i], !.amount = cents[i], !.reasoned = noted[i]] \in Processes
    BY <1>3, <2>1 DEF Processes
  <2>4. QED
    BY <2>2, <2>3
<1>6. Written(p)
  BY <1>2, <1>4, <1>5 DEF Written
<1>7. ProcessOK(proc[p])'
  <2>1. q.pc = "job" /\ q.item = i /\ q.req = link[i] /\ q.amount = cents[i]
    BY DEF Idle
  <2>2. i # NoItem /\ cents[i] # 0 /\ link'[i] = link[i]
    BY <1>2, <1>3, RefundAssumption
  <2>3. QED
    BY <1>4, <2>1, <2>2 DEF ProcessOK
<1>8. RefundTypeOK'
  <2>1. proc' \in [Procs -> Processes]
    BY <1>3, <1>6 DEF Written
  <2>2. job' \in [Items -> JobStatuses]
    BY <1>2, <1>3 DEF JobStatuses
  <2>3. holder' \in [Items -> Workers \cup {NoProc}] /\ due' \in [Items -> BOOLEAN]
    BY <1>2, <1>3
  <2>4. attempts' \in [Items -> 0..RetryLimit + 1]
    <3>1. OneMoreAttempt(attempts[i]) \in 0..RetryLimit + 1
      BY <1>3 DEF OneMoreAttempt
    <3>2. QED
      BY <1>2, <1>3, <3>1
  <2>5. QED
    BY <1>2, <2>1, <2>2, <2>3, <2>4
       DEF RefundInv, RefundTypeOK, orderVars, requestVars, providerVars, boundVars
<1>9. ASSUME NEW x \in Items PROVE JobOK(x)'
  <2>1. job'[x] = "COMPLETED" => job[x] = "COMPLETED"
    BY <1>2, <1>3
  <2>2. QED
    BY <1>2, <2>1 DEF RefundInv, JobOK, requestVars, providerVars
<1>10. QED
  BY <1>1, <1>2, <1>6, <1>7, <1>8, <1>9, OnlyJobs

\* A job is linked to a request nobody knew.
LEMMA LinkRequestKeeps ==
    ASSUME RefundInv, NEW p \in Procs, LinkRequest(p)
    PROVE  RefundInv'
<1> DEFINE i == proc[p].item
           n == proc[p].amount
<1>1. /\ proc \in [Procs -> Processes] /\ proc[p] \in Processes
      /\ status \in [Requests -> RequestStatuses] /\ asked \in [Requests -> 0..Amount]
      /\ approved \in [Requests -> 0..Amount] /\ link \in [Items -> Requests \cup {NoRequest}]
  BY DEF RefundInv, RefundTypeOK
<1>2. ProcessOK(proc[p])
  BY DEF RefundInv
<1>3. /\ proc[p].pc = "job"
      /\ UNCHANGED <<orderVars, external, job, cents, noted, attempts, holder, due, providerVars,
                     boundVars>>
  BY DEF LinkRequest
<1>4. i \in Items /\ i # NoItem /\ n \in 0..Amount /\ n # 0
  BY <1>1, <1>2, <1>3 DEF ProcessOK, Processes
<1>5. CASE /\ UNCHANGED <<status, asked, approved, link>>
           /\ Written(p) /\ ProcessOK(proc[p])'
  BY <1>3, <1>5, OnlyProcess
     DEF Written, boundVars, requestVars, jobVars, RefundInv, RefundTypeOK
<1>6. CASE /\ link[i] # NoRequest
           /\ proc' = [proc EXCEPT ![p].pc = "look", ![p].req = link[i]]
           /\ UNCHANGED <<status, asked, approved, link>>
  <2>1. proc'[p] = [proc[p] EXCEPT !.pc = "look", !.req = link[i]]
    BY <1>1, <1>6
  <2>2. Written(p)
    BY <1>1, <1>4, <1>6, <2>1 DEF Written, Processes, PCs
  <2>3. /\ proc'[p].pc = "look" /\ proc'[p].item = i /\ proc'[p].req = link[i]
        /\ proc'[p].amount = n
    BY <1>1, <2>1 DEF Processes
  <2>4. ProcessOK(proc[p])'
    BY <1>4, <1>6, <2>3 DEF ProcessOK
  <2>5. QED
    BY <1>5, <1>6, <2>2, <2>4
<1>7. ASSUME NEW next \in {"MANUAL_REVIEW", "QUEUED"}, Finish(p, next),
             UNCHANGED <<status, asked, approved, link>>
      PROVE  RefundInv'
  <2>1. Written(p) /\ ProcessOK(proc[p])'
    BY <1>4, <1>7, FinishIs DEF JobStatuses, ProcessOK
  <2>2. QED
    BY <1>5, <1>7, <2>1
<1>8. ASSUME NEW r \in Requests,
             link[i] = NoRequest, status[r] = "NONE",
             status' = [status EXCEPT ![r] = "APPROVED"],
             asked' = [asked EXCEPT ![r] = n],
             approved' = [approved EXCEPT ![r] = n],
             link' = [link EXCEPT ![i] = r],
             proc' = [proc EXCEPT ![p].pc = "look", ![p].req = r]
      PROVE  RefundInv'
  <2>1. RequestOK(r) /\ approved[r] = 0
    BY <1>8 DEF RefundInv, RequestOK
  <2>2. Grows
    BY <1>1, <1>3, <1>8, <2>1 DEF Grows, providerVars
  <2>3. proc'[p] = [proc[p] EXCEPT !.pc = "look", !.req = r]
    BY <1>1, <1>8
  <2>4. Written(p)
    BY <1>1, <1>8, <2>3 DEF Written, Processes, PCs
  <2>5. proc'[p].pc = "look" /\ proc'[p].item = i /\ proc'[p].req = r /\ proc'[p].amount = n
    BY <1>1, <2>3 DEF Processes
  <2>6. link'[i] = r /\ r # NoRequest
    BY <1>1, <1>4, <1>8, RefundAssumption
  <2>7. ProcessOK(proc[p])'
    BY <1>4, <2>5, <2>6 DEF ProcessOK
  <2>8. RefundTypeOK'
    <3>1. proc' \in [Procs -> Processes]
      BY <1>1, <2>4 DEF Written
    <3>2. status' \in [Requests -> RequestStatuses]
      BY <1>1, <1>8 DEF RequestStatuses
    <3>3. asked' \in [Requests -> 0..Amount] /\ approved' \in [Requests -> 0..Amount]
      BY <1>1, <1>4, <1>8
    <3>4. link' \in [Items -> Requests \cup {NoRequest}]
      BY <1>1, <1>8
    <3>5. QED
      BY <1>3, <3>1, <3>2, <3>3, <3>4
         DEF RefundInv, RefundTypeOK, orderVars, providerVars, boundVars
  <2>9. OneRefundInFlight'
    BY <1>1, <1>8 DEF RefundInv, OneRefundInFlight
  <2>10. ASSUME NEW q \in Requests PROVE RequestOK(q)'
    <3>1. RequestOK(q)
      BY DEF RefundInv
    <3>2. QED
      BY <1>1, <1>3, <1>4, <1>8, <2>1, <3>1 DEF RequestOK, providerVars
  <2>11. ASSUME NEW x \in Items PROVE JobOK(x)'
    <3>1. JobOK(x) /\ link[x] \in Requests \cup {NoRequest}
      BY <1>1 DEF RefundInv
    <3>2. CASE x = i
      <4>1. approved'[r] = n /\ status'[r] = "APPROVED" /\ job'[i] = job[i]
        BY <1>1, <1>3, <1>8
      <4>2. QED
        BY <1>4, <1>8, <2>6, <3>1, <3>2, <4>1 DEF JobOK
    <3>3. CASE x # i
      <4>1. link'[x] = link[x] /\ link[x] # r
        BY <1>1, <1>8, <2>1, <2>6, <3>1, <3>3 DEF JobOK
      <4>2. QED
        BY <1>1, <1>3, <1>8, <3>1, <4>1 DEF JobOK, providerVars
    <3>4. QED
      BY <3>2, <3>3
  <2>12. QED
    BY <2>2, <2>4, <2>7, <2>8, <2>9, <2>10, <2>11, OthersKnow DEF Written, RefundInv
<1>9. QED
  BY <1>6, <1>7, <1>8 DEF LinkRequest

\* CompleteJob: the provider returned what the job is completed for.
LEMMA CompleteJobKeeps ==
    ASSUME RefundInv, NEW p \in Procs, CompleteJob(p)
    PROVE  RefundInv'
<1> DEFINE i == proc[p].item
<1>1. /\ proc \in [Procs -> Processes] /\ proc[p] \in Processes
      /\ job \in [Items -> JobStatuses]
  BY DEF RefundInv, RefundTypeOK
<1>2. ProcessOK(proc[p])
  BY DEF RefundInv
<1>3. /\ proc[p].pc = "complete" /\ job' = [job EXCEPT ![i] = "COMPLETED"]
      /\ Finish(p, "COMPLETED")
      /\ UNCHANGED <<orderVars, requestVars, link, cents, noted, attempts, holder, due,
                     providerVars, boundVars>>
  BY DEF CompleteJob
<1>4. /\ i \in Items /\ i # NoItem /\ link[i] # NoRequest /\ refund[link[i]] = "APPROVED"
  BY <1>1, <1>2, <1>3 DEF ProcessOK, Processes
<1>5. /\ Written(p) /\ proc'[p].pc = "finish" /\ proc'[p].item = i
      /\ proc'[p].req = NoRequest /\ proc'[p].next = "COMPLETED"
  BY <1>3, FinishIs DEF JobStatuses
<1>6. ProcessOK(proc[p])'
  BY <1>3, <1>4, <1>5 DEF ProcessOK, providerVars
<1>7. RefundTypeOK'
  <2>1. proc' \in [Procs -> Processes]
    BY <1>1, <1>5 DEF Written
  <2>2. job' \in [Items -> JobStatuses]
    BY <1>1, <1>3 DEF JobStatuses
  <2>3. QED
    BY <1>3, <2>1, <2>2
       DEF RefundInv, RefundTypeOK, orderVars, requestVars, providerVars, boundVars
<1>8. ASSUME NEW x \in Items PROVE JobOK(x)'
  BY <1>1, <1>3, <1>4 DEF RefundInv, JobOK, requestVars, providerVars
<1>9. QED
  BY <1>3, <1>5, <1>6, <1>7, <1>8, OnlyJobs

\* FinishJob.
LEMMA FinishJobKeeps ==
    ASSUME RefundInv, NEW p \in Procs, FinishJob(p)
    PROVE  RefundInv'
<1> DEFINE i == proc[p].item
           next == proc[p].next
<1>1. /\ proc \in [Procs -> Processes] /\ proc[p] \in Processes
      /\ job \in [Items -> JobStatuses] /\ holder \in [Items -> Workers \cup {NoProc}]
      /\ due \in [Items -> BOOLEAN]
  BY DEF RefundInv, RefundTypeOK
<1>2. ProcessOK(proc[p])
  BY DEF RefundInv
<1>3. /\ proc[p].pc = "finish" /\ proc' = [proc EXCEPT ![p] = Idle]
      /\ UNCHANGED <<orderVars, requestVars, link, cents, noted, attempts, providerVars,
                     boundVars>>
  BY DEF FinishJob
<1>4. /\ i \in Items /\ next \in JobStatuses
      /\ next = "COMPLETED" => link[i] # NoRequest /\ refund[link[i]] = "APPROVED"
  BY <1>1, <1>2, <1>3 DEF ProcessOK, Processes
<1>5. Written(p) /\ ProcessOK(proc[p])'
  BY <1>3, Stops DEF Written
<1>6. CASE UNCHANGED <<job, holder, due>>
  BY <1>3, <1>5, <1>6, OnlyProcess
     DEF Written, boundVars, jobVars, RefundInv, RefundTypeOK
<1>7. CASE /\ job' = [job EXCEPT ![i] = next] /\ holder' = [holder EXCEPT ![i] = NoProc]
           /\ due' = [due EXCEPT ![i] = FALSE]
  <2>1. RefundTypeOK'
    <3>1. proc' \in [Procs -> Processes]
      BY <1>1, <1>5 DEF Written
    <3>2. /\ job' \in [Items -> JobStatuses] /\ holder' \in [Items -> Workers \cup {NoProc}]
          /\ due' \in [Items -> BOOLEAN]
      BY <1>1, <1>4, <1>7
    <3>3. QED
      BY <1>3, <3>1, <3>2
         DEF RefundInv, RefundTypeOK, orderVars, requestVars, providerVars, boundVars
  <2>2. ASSUME NEW x \in Items PROVE JobOK(x)'
    BY <1>1, <1>3, <1>4, <1>7 DEF RefundInv, JobOK, requestVars, providerVars
  <2>3. QED
    BY <1>3, <1>5, <2>1, <2>2, OnlyJobs
<1>8. QED
  BY <1>6, <1>7 DEF FinishJob

-----------------------------------------------------------------------------
(* The theorems.                                                           *)

LEMMA RefundInit == Init => RefundInv
<1> SUFFICES ASSUME Init PROVE RefundInv
  OBVIOUS
<1>1. Idle \in Processes
  BY IdleProcess
<1>2. RefundTypeOK
  <2>1. /\ orderStatus \in OrderStatuses /\ status \in [Requests -> RequestStatuses]
        /\ job \in [Items -> JobStatuses] /\ refund \in [Requests -> Refunds]
        /\ proc \in [Procs -> Processes]
    BY <1>1 DEF Init, OrderStatuses, RequestStatuses, JobStatuses, Refunds
  <2>2. /\ refunded \in 0..Amount /\ asked \in [Requests -> 0..Amount]
        /\ approved \in [Requests -> 0..Amount] /\ refundCents \in [Requests -> 0..Amount]
        /\ accepted \in 0..Amount /\ confirmed \in 0..Amount /\ reports \subseteq 1..Amount
        /\ reviews \in 0..MaxReviews /\ panel \in 0..MaxPanel /\ crashes \in 0..MaxCrashes
        /\ attempts \in [Items -> 0..RetryLimit + 1]
    BY RefundAssumption DEF Init
  <2>3. cents \in [Items -> 1..Amount] /\ \A i \in Items : cents[i] \in 1..Cost[i]
    BY RefundAssumption DEF Init
  <2>4. QED
    BY <2>1, <2>2, <2>3 DEF Init, RefundTypeOK
<1>3. OneRefundInFlight
  BY DEF Init, OneRefundInFlight
<1>4. \A r \in Requests : RequestOK(r)
  BY DEF Init, RequestOK
<1>5. ASSUME NEW p \in Procs PROVE ProcessOK(proc[p])
  <2>1. proc[p] = Idle
    BY DEF Init
  <2>2. QED
    BY <2>1, IdleProcess
<1>6. \A i \in Items : JobOK(i)
  BY DEF Init, JobOK
<1>7. QED
  BY <1>2, <1>3, <1>4, <1>5, <1>6 DEF RefundInv

LEMMA RefundStutter ==
    ASSUME RefundInv, UNCHANGED vars
    PROVE  RefundInv'
<1> USE DEF vars, orderVars, requestVars, jobVars, providerVars, boundVars
<1>1. Grows
  BY DEF Grows
<1>2. RefundTypeOK'
  BY DEF RefundInv, RefundTypeOK
<1>3. OneRefundInFlight'
  BY DEF RefundInv, OneRefundInFlight
<1>4. \A q \in Requests : RequestOK(q)'
  BY DEF RefundInv, RequestOK
<1>5. \A i \in Items : JobOK(i)'
  BY DEF RefundInv, JobOK
<1>6. QED
  BY <1>1, <1>2, <1>3, <1>4, <1>5, AllKnow DEF RefundInv

LEMMA RefundStep ==
    ASSUME RefundInv, [Next]_vars
    PROVE  RefundInv'
<1>1. CASE \E r \in Requests, n \in 1..Amount : RequestRefund(r, n)
  BY <1>1, RequestRefundKeeps
<1>2. CASE UseRight
  BY <1>2, UseRightKeeps
<1>3. CASE \E r \in Requests : ProviderApproves(r)
  BY <1>3, ProviderApprovesKeeps
<1>4. CASE \E n \in 1..Amount : PanelRefund(n)
  BY <1>4, PanelRefundKeeps
<1>5. CASE \E t \in 1..Amount : Webhook(t)
  BY <1>5, WebhookKeeps
<1>6. CASE \E p \in Admins, r \in Requests, n \in 0..Amount, reasoned, recover \in BOOLEAN :
              AdminProcess(p, r, n, reasoned, recover)
  BY <1>6, AdminProcessKeeps
<1>7. CASE \E p \in Admins, r \in Requests : AdminReconcile(p, r)
  BY <1>7, AdminReconcileKeeps
<1>8. ASSUME NEW p \in Procs, Step(p) PROVE RefundInv'
  BY <1>8, ReadRequestKeeps, ClaimRequestKeeps, SendKeeps, RecordRefundKeeps, FailRequestKeeps,
     QueryRefundKeeps, SettleVerifiedKeeps, CloseRequestKeeps, BeginJobKeeps, LinkRequestKeeps,
     LookAtRequestKeeps, AfterSendKeeps, CompleteJobKeeps, FinishJobKeeps DEF Step
<1>9. CASE \E i \in Items : Discover(i)
  BY <1>9, DiscoverKeeps
<1>10. CASE \E p \in Workers, i \in Items : TakeJob(p, i)
  BY <1>10, TakeJobKeeps
<1>11. CASE \E i \in Items : BecomesDue(i)
  BY <1>11, BecomesDueKeeps
<1>12. CASE \E i \in Items, n \in 1..Amount, approve \in BOOLEAN : Review(i, n, approve)
  BY <1>12, ReviewKeeps
<1>13. CASE \E p \in Procs : Crash(p)
  BY <1>13, CrashKeeps
<1>14. CASE \E p \in Workers : StatementFails(p)
  BY <1>14, StatementFailsKeeps
<1>15. CASE UNCHANGED vars
  BY <1>15, RefundStutter
<1>16. QED
  BY <1>1, <1>2, <1>3, <1>4, <1>5, <1>6, <1>7, <1>8, <1>9, <1>10, <1>11, <1>12, <1>13, <1>14,
     <1>15 DEF Next

\* The inductive invariant of RefundRequests.
THEOREM RefundInvariance == Spec => []RefundInv
BY RefundInit, RefundStep, PTL DEF Spec

\* processRefundRequest never has two requests of an order at the provider, for
\* any number of administrators, workers, leases and crashes.
THEOREM OneInFlight == Spec => []OneRefundInFlight
<1>1. RefundInv => OneRefundInFlight
  BY DEF RefundInv
<1>2. QED
  BY <1>1, RefundInvariance, PTL

\* The provider returns for a request the amount approved for it, whoever sent it
\* how often (processRefundRequest, review).
THEOREM SentWhatWasApproved == Spec => []SentAsApproved
<1>1. RefundInv => SentAsApproved
  BY DEF RefundInv, RequestOK, SentAsApproved
<1>2. QED
  BY <1>1, RefundInvariance, PTL

\* A job is completed only when the provider returned its money (process,
\* complete, finish), also by workers that outlive their leases.
THEOREM CompletedOnlyIfReturned == Spec => []CompletedWasReturned
<1>1. RefundInv => CompletedWasReturned
  BY DEF RefundInv, JobOK, CompletedWasReturned
<1>2. QED
  BY <1>1, RefundInvariance, PTL

-----------------------------------------------------------------------------
(***************************************************************************)
(* What rests on the leases                                                *)
(***************************************************************************)
-----------------------------------------------------------------------------
(* The inductive invariant.                                                *)

NextStatuses == {"NONE", "QUEUED", "MANUAL_REVIEW", "WAITING_PROVIDER", "COMPLETED"}

\* A worker that has a job holds its lease, and has read its present amount; the
\* job is being processed, or is completed and about to be given back.
Holds(p) ==
    LET q == proc[p] IN
    /\ q.next \in NextStatuses
    /\ q.item # NoItem =>
          /\ holder[q.item] = p /\ ~ due[q.item]
          /\ \/ job[q.item] = "PROCESSING"
             \/ job[q.item] = "COMPLETED" /\ q.pc = "finish" /\ q.next \in {"QUEUED", "COMPLETED"}
          /\ q.pc = "job" => q.amount = cents[q.item]

\* What was approved for a job is what it is decided to give back.
Decided(i) ==
    /\ job[i] = "REJECTED" => link[i] = NoRequest
    /\ link[i] # NoRequest => approved[link[i]] = cents[i]

LeaseInv == (\A p \in Procs : Holds(p)) /\ (\A i \in Items : Decided(i))

-----------------------------------------------------------------------------
(* Steps that leave the jobs alone.                                        *)

\* The process p stops, or goes on with its job; what is about to be given back
\* it only queues.
Proceeds(p) ==
    /\ proc' = [proc EXCEPT ![p] = proc'[p]]
    /\ \/ proc'[p].item = NoItem /\ proc'[p].next \in NextStatuses
       \/ /\ proc'[p].item = proc[p].item
          /\ proc'[p].pc # "job" /\ proc'[p].next \in NextStatuses
          /\ proc[p].pc = "finish" => proc'[p].pc = "finish" /\ proc'[p].next = "QUEUED"

\* An amount that was approved stays.
Stays == \A r \in Requests : approved[r] # 0 => approved'[r] = approved[r]

\* The other processes hold their jobs if the lease, the status and the amount of
\* these stay.
LEMMA OthersHold ==
    ASSUME RefundInv, LeaseInv, NEW p \in Procs, proc' = [proc EXCEPT ![p] = proc'[p]],
           \A i \in Items : holder[i] \notin {NoProc, p} /\ ~ due[i]
               => UNCHANGED <<holder[i], due[i], job[i], cents[i]>>
    PROVE  \A x \in Procs \ {p} : Holds(x)'
<1>1. ASSUME NEW x \in Procs, x # p PROVE Holds(x)'
  <2>1. proc'[x] = proc[x] /\ proc[x].item \in Items \cup {NoItem} /\ Holds(x) /\ x # NoProc
    BY <1>1, RefundAssumption DEF RefundInv, RefundTypeOK, Processes, LeaseInv, Procs
  <2>2. QED
    BY <1>1, <2>1 DEF Holds
<1>2. QED
  BY <1>1

\* Decisions stay with the jobs and with what was approved.
LEMMA DecisionsStay ==
    ASSUME RefundInv, LeaseInv, Stays, UNCHANGED <<job, link, cents>>
    PROVE  \A i \in Items : Decided(i)'
<1>1. ASSUME NEW i \in Items PROVE Decided(i)'
  <2>1. /\ Decided(i) /\ link[i] \in Requests \cup {NoRequest}
        /\ link[i] # NoRequest => approved[link[i]] # 0
    BY DEF LeaseInv, RefundInv, RefundTypeOK, JobOK
  <2>2. QED
    BY <2>1 DEF Decided, Stays
<1>2. QED
  BY <1>1

\* A process that proceeds keeps the invariant.
LEMMA ProceedKeeps ==
    ASSUME RefundInv, LeaseInv, NEW p \in Procs, Proceeds(p), Stays,
           UNCHANGED <<job, link, cents, holder, due>>
    PROVE  LeaseInv'
<1>1. \A x \in Procs \ {p} : Holds(x)'
  BY OthersHold DEF Proceeds
<1>2. Holds(p)'
  <2>1. Holds(p)
    BY DEF LeaseInv
  <2>2. QED
    BY <2>1 DEF Holds, Proceeds
<1>3. \A i \in Items : Decided(i)'
  BY DecisionsStay
<1>4. QED
  BY <1>1, <1>2, <1>3 DEF LeaseInv

\* A step of the staff or the provider, which no process takes.
LEMMA WorldKeeps ==
    ASSUME RefundInv, LeaseInv, UNCHANGED <<proc, approved, job, link, cents, holder, due>>
    PROVE  LeaseInv'
BY DEF LeaseInv, Holds, Decided

-----------------------------------------------------------------------------
(* What becomes of a process.                                              *)

LEMMA ThenProceeds ==
    ASSUME RefundInv, NEW p \in Procs, NEW c \in PCs \ {"job"}, Then(p, c), proc[p].pc # "finish"
    PROVE  Proceeds(p)
<1>1. proc \in [Procs -> Processes]
  BY DEF RefundInv, RefundTypeOK
<1>2. proc'[p] = [Idle EXCEPT !.pc = c, !.item = proc[p].item, !.req = proc[p].req]
  BY <1>1 DEF Then
<1>3. proc'[p].next = "NONE"
  BY <1>2 DEF Idle
<1>4. Written(p) /\ proc'[p].pc = c /\ proc'[p].item = proc[p].item
  BY ThenIs
<1>5. QED
  BY <1>3, <1>4 DEF Proceeds, Written, NextStatuses

LEMMA FinishProceeds ==
    ASSUME RefundInv, NEW p \in Procs, NEW next \in {"QUEUED", "MANUAL_REVIEW", "WAITING_PROVIDER"},
           Finish(p, next), proc[p].pc # "finish" \/ next = "QUEUED"
    PROVE  Proceeds(p)
<1>1. Written(p) /\ proc'[p].pc = "finish" /\ proc'[p].item = proc[p].item /\ proc'[p].next = next
  BY FinishIs DEF JobStatuses
<1>2. QED
  BY <1>1 DEF Proceeds, Written, NextStatuses

LEMMA StopProceeds ==
    ASSUME RefundInv, NEW p \in Procs, proc' = [proc EXCEPT ![p] = Idle]
    PROVE  Proceeds(p)
<1>1. proc'[p] = Idle
  BY DEF RefundInv, RefundTypeOK
<1>2. proc'[p].item = NoItem /\ proc'[p].next = "NONE"
  BY <1>1 DEF Idle
<1>3. proc' = [proc EXCEPT ![p] = proc'[p]]
  BY <1>1
<1>4. QED
  BY <1>2, <1>3 DEF Proceeds, NextStatuses

LEMMA ThrowsProceeds ==
    ASSUME RefundInv, NEW p \in Procs, Throws(p)
    PROVE  Proceeds(p)
BY FinishProceeds, StopProceeds DEF Throws

LEMMA ReturnsProceeds ==
    ASSUME RefundInv, NEW p \in Procs, Returns(p), proc[p].pc # "finish"
    PROVE  Proceeds(p)
BY ThenProceeds, StopProceeds DEF Returns, PCs

\* A process that writes only what it reads next.
LEMMA GotoProceeds ==
    ASSUME RefundInv, LeaseInv, NEW p \in Procs, NEW q, proc' = [proc EXCEPT ![p] = q],
           q.item = proc[p].item, q.next = proc[p].next, q.pc # "job", proc[p].pc # "finish"
    PROVE  Proceeds(p)
<1>1. proc'[p] = q /\ Holds(p)
  BY DEF RefundInv, RefundTypeOK, LeaseInv
<1>2. QED
  BY <1>1 DEF Proceeds, Holds

-----------------------------------------------------------------------------
(* The steps of a process that leave the jobs alone.                       *)

\* processRefundRequest and reconcileEventRefund.
LEMMA RequestStepHolds ==
    ASSUME RefundInv, LeaseInv, NEW p \in Procs,
           \/ ReadRequest(p) \/ Send(p) \/ RecordRefund(p) \/ FailRequest(p)
           \/ QueryRefund(p) \/ SettleVerified(p) \/ CloseRequest(p)
    PROVE  LeaseInv'
<1> USE DEF jobVars, requestVars
<1>1. proc \in [Procs -> Processes] /\ proc[p] \in Processes
  BY DEF RefundInv, RefundTypeOK
<1>2. Stays /\ UNCHANGED <<job, link, cents, holder, due>> /\ proc[p].pc # "finish"
  BY DEF Stays, ReadRequest, Send, RecordRefund, FailRequest, QueryRefund, SettleVerified, CloseRequest
<1>3. CASE ReadRequest(p)
  <2>1. CASE proc' = [proc EXCEPT ![p].pc = "claim", ![p].was = status[proc[p].req]]
    <3> DEFINE q == [proc[p] EXCEPT !.pc = "claim", !.was = status[proc[p].req]]
    <3>1. proc' = [proc EXCEPT ![p] = q]
      BY <1>1, <2>1
    <3>2. q.pc = "claim" /\ q.item = proc[p].item /\ q.next = proc[p].next
      BY <1>1 DEF Processes
    <3> HIDE DEF q
    <3>3. QED
      BY <1>2, <3>1, <3>2, GotoProceeds, ProceedKeeps
  <2>2. QED
    BY <1>2, <1>3, <2>1, ReturnsProceeds, ThrowsProceeds, ProceedKeeps DEF ReadRequest
<1>4. CASE Send(p)
  BY <1>2, <1>4, ThenProceeds, ProceedKeeps DEF Send, PCs
<1>5. CASE RecordRefund(p)
  BY <1>2, <1>5, ThenProceeds, ReturnsProceeds, ProceedKeeps DEF RecordRefund, PCs
<1>6. CASE FailRequest(p)
  BY <1>2, <1>6, ThrowsProceeds, ProceedKeeps DEF FailRequest
<1>7. CASE QueryRefund(p)
  <2>1. CASE proc' = [proc EXCEPT ![p].pc = "settle", ![p].total = confirmed]
    <3> DEFINE q == [proc[p] EXCEPT !.pc = "settle", !.total = confirmed]
    <3>1. proc' = [proc EXCEPT ![p] = q]
      BY <1>1, <2>1
    <3>2. q.pc = "settle" /\ q.item = proc[p].item /\ q.next = proc[p].next
      BY <1>1 DEF Processes
    <3> HIDE DEF q
    <3>3. QED
      BY <1>2, <3>1, <3>2, GotoProceeds, ProceedKeeps
  <2>2. \/ Then(p, "complete") \/ Finish(p, "WAITING_PROVIDER") \/ Throws(p)
        \/ proc' = [proc EXCEPT ![p] = Idle]
        \/ proc' = [proc EXCEPT ![p].pc = "settle", ![p].total = confirmed]
    BY <1>7 DEF QueryRefund
  <2>3. QED
    BY <1>2, <2>1, <2>2, ThenProceeds, FinishProceeds, ThrowsProceeds, StopProceeds, ProceedKeeps
       DEF PCs
<1>8. CASE SettleVerified(p)
  BY <1>2, <1>8, ThenProceeds, ProceedKeeps DEF SettleVerified, PCs
<1>9. CASE CloseRequest(p)
  BY <1>2, <1>9, ThenProceeds, StopProceeds, ProceedKeeps DEF CloseRequest, PCs
<1>10. QED
  BY <1>3, <1>4, <1>5, <1>6, <1>7, <1>8, <1>9

\* The claim writes the amount that was approved, if one was.
LEMMA ClaimHolds ==
    ASSUME RefundInv, LeaseInv, NEW p \in Procs, ClaimRequest(p)
    PROVE  LeaseInv'
<1> DEFINE r == proc[p].req
<1>1. /\ proc \in [Procs -> Processes] /\ proc[p] \in Processes
      /\ approved \in [Requests -> 0..Amount] /\ ProcessOK(proc[p])
  BY DEF RefundInv, RefundTypeOK
<1>2. UNCHANGED <<job, link, cents, holder, due>> /\ proc[p].pc = "claim"
  BY DEF ClaimRequest, jobVars
<1>3. CASE Throws(p) /\ UNCHANGED <<status, approved>>
  BY <1>2, <1>3, ThrowsProceeds, ProceedKeeps DEF Stays
<1>4. CASE /\ status[r] = proc[p].was
           /\ approved' = [approved EXCEPT ![r] = proc[p].amount]
           /\ proc' = [proc EXCEPT ![p].pc = "send", ![p].was = "NONE"]
  <2> DEFINE q == [proc[p] EXCEPT !.pc = "send", !.was = "NONE"]
  <2>1. r \in Requests /\ RequestOK(r)
    BY <1>1, <1>2 DEF ProcessOK, Processes, RefundInv
  <2>2. approved[r] # 0 => approved[r] = proc[p].amount
    BY <1>1, <1>2, <1>4, <2>1 DEF ProcessOK, RequestOK
  <2>3. Stays
    BY <1>1, <1>4, <2>1, <2>2 DEF Stays
  <2>4. proc' = [proc EXCEPT ![p] = q]
    BY <1>1, <1>4
  <2>5. q.pc = "send" /\ q.item = proc[p].item /\ q.next = proc[p].next
    BY <1>1 DEF Processes
  <2> HIDE DEF q
  <2>6. QED
    BY <1>2, <2>3, <2>4, <2>5, GotoProceeds, ProceedKeeps
<1>5. QED
  BY <1>3, <1>4 DEF ClaimRequest

\* What of process only reads.
LEMMA JobReadHolds ==
    ASSUME RefundInv, LeaseInv, NEW p \in Procs,
           BeginJob(p) \/ LookAtRequest(p) \/ AfterSend(p)
    PROVE  LeaseInv'
<1>1. proc \in [Procs -> Processes] /\ proc[p] \in Processes
  BY DEF RefundInv, RefundTypeOK
<1>2. Stays /\ UNCHANGED <<job, link, cents, holder, due>> /\ proc[p].pc # "finish"
  BY DEF Stays, BeginJob, LookAtRequest, AfterSend, jobVars, requestVars
<1>3. CASE BeginJob(p)
  <2>1. CASE Goto(p, "look")
    <3> DEFINE q == [proc[p] EXCEPT !.pc = "look"]
    <3>1. proc' = [proc EXCEPT ![p] = q]
      BY <1>1, <2>1 DEF Goto
    <3>2. q.pc = "look" /\ q.item = proc[p].item /\ q.next = proc[p].next
      BY <1>1 DEF Processes
    <3> HIDE DEF q
    <3>3. QED
      BY <1>2, <3>1, <3>2, GotoProceeds, ProceedKeeps
  <2>2. QED
    BY <1>2, <1>3, <2>1, FinishProceeds, ProceedKeeps DEF BeginJob
<1>4. CASE LookAtRequest(p)
  <2>1. CASE proc' = [proc EXCEPT ![p].pc = "read", ![p].reasoned = FALSE]
    <3> DEFINE q == [proc[p] EXCEPT !.pc = "read", !.reasoned = FALSE]
    <3>1. proc' = [proc EXCEPT ![p] = q]
      BY <1>1, <2>1
    <3>2. q.pc = "read" /\ q.item = proc[p].item /\ q.next = proc[p].next
      BY <1>1 DEF Processes
    <3> HIDE DEF q
    <3>3. QED
      BY <1>2, <3>1, <3>2, GotoProceeds, ProceedKeeps
  <2>2. QED
    BY <1>2, <1>4, <2>1, ThenProceeds, ProceedKeeps DEF LookAtRequest, PCs
<1>5. CASE AfterSend(p)
  BY <1>2, <1>5, ThenProceeds, FinishProceeds, ProceedKeeps DEF AfterSend, PCs
<1>6. QED
  BY <1>3, <1>4, <1>5

\* A process dies, or a statement of it fails.
LEMMA FaultHolds ==
    ASSUME RefundInv, LeaseInv, NEW p \in Procs, Crash(p) \/ StatementFails(p)
    PROVE  LeaseInv'
<1>1. Stays /\ UNCHANGED <<job, link, cents, holder, due>>
  BY DEF Stays, Crash, StatementFails, jobVars, requestVars
<1>2. Proceeds(p)
  BY StopProceeds, ThrowsProceeds DEF Crash, StatementFails
<1>3. QED
  BY <1>1, <1>2, ProceedKeeps

\* An administrator begins; he has no job.
LEMMA AdminHolds ==
    ASSUME RefundInv, LeaseInv, NEW p \in Admins, NEW r \in Requests,
           \/ AdminReconcile(p, r)
           \/ \E n \in 0..Amount, reasoned, recover \in BOOLEAN : AdminProcess(p, r, n, reasoned, recover)
    PROVE  LeaseInv'
<1>1. p \in Procs
  BY DEF Procs
<1>2. Stays /\ UNCHANGED <<job, link, cents, holder, due>> /\ proc[p] = Idle
  BY DEF Stays, AdminReconcile, AdminProcess, jobVars, requestVars
<1>3. PICK q : proc' = [proc EXCEPT ![p] = q] /\ q.item = NoItem /\ q.next = "NONE" /\ q.pc # "job"
  <2>1. CASE AdminReconcile(p, r)
    <3> DEFINE q == [Idle EXCEPT !.pc = "query", !.req = r]
    <3>1. proc' = [proc EXCEPT ![p] = q]
      BY <2>1 DEF AdminReconcile
    <3>2. q.item = NoItem /\ q.next = "NONE" /\ q.pc # "job"
      BY DEF Idle
    <3>3. QED
      BY <3>1, <3>2
  <2>2. ASSUME NEW n \in 0..Amount, NEW reasoned \in BOOLEAN, NEW recover \in BOOLEAN,
               AdminProcess(p, r, n, reasoned, recover)
        PROVE  \E q : /\ proc' = [proc EXCEPT ![p] = q]
                      /\ q.item = NoItem /\ q.next = "NONE" /\ q.pc # "job"
    <3> DEFINE q == [Idle EXCEPT !.pc = "claim", !.req = r, !.amount = AmountFor(r, n),
                                 !.was = status[r]]
    <3>1. proc' = [proc EXCEPT ![p] = q]
      BY <2>2 DEF AdminProcess
    <3>2. q.item = NoItem /\ q.next = "NONE" /\ q.pc # "job"
      BY DEF Idle
    <3>3. QED
      BY <3>1, <3>2
  <2>3. QED
    BY <2>1, <2>2
<1>4. proc[p].item = NoItem /\ proc[p].next = "NONE" /\ proc[p].pc # "finish"
  BY <1>2 DEF Idle
<1>5. QED
  BY <1>1, <1>2, <1>3, <1>4, GotoProceeds, ProceedKeeps

-----------------------------------------------------------------------------
(* The steps that change jobs.                                             *)

\* The staff, the customer and the provider.
LEMMA WorldHolds ==
    ASSUME RefundInv, LeaseInv,
           \/ \E r \in Requests, n \in 1..Amount : RequestRefund(r, n)
           \/ UseRight
           \/ \E r \in Requests : ProviderApproves(r)
           \/ \E n \in 1..Amount : PanelRefund(n)
           \/ \E t \in 1..Amount : Webhook(t)
    PROVE  LeaseInv'
<1>1. UNCHANGED <<proc, approved, job, link, cents, holder, due>>
  BY DEF RequestRefund, UseRight, ProviderApproves, PanelRefund, Webhook, jobVars, requestVars
<1>2. QED
  BY <1>1, WorldKeeps

\* A job that nobody holds is discovered, becomes due, or is reviewed; it is not
\* rejected, nor its amount changed, once it has a request.
LEMMA JobsHold ==
    ASSUME RefundInv, LeaseInv, ~ Slow, NEW i \in Items,
           \/ Discover(i) \/ BecomesDue(i)
           \/ \E n \in 1..Amount, approve \in BOOLEAN : Review(i, n, approve)
    PROVE  LeaseInv'
<1>1. UNCHANGED <<proc, approved, link, holder>>
  BY DEF Discover, BecomesDue, Review, requestVars
<1>2. \A j \in Items \ {i} : UNCHANGED <<job[j], cents[j], due[j]>>
  BY DEF Discover, BecomesDue, Review, RefundInv, RefundTypeOK
<1>3. \A p \in Procs : proc[p].item # i
  <2>1. ASSUME NEW p \in Procs, proc[p].item = i PROVE FALSE
    <3>1. Holds(p) /\ i # NoItem /\ p # NoProc
      BY RefundAssumption DEF LeaseInv, Procs
    <3>2. holder[i] = p /\ job[i] \in {"PROCESSING", "COMPLETED"}
      BY <2>1, <3>1 DEF Holds
    <3>3. QED
      BY <2>1, <3>1, <3>2 DEF Discover, BecomesDue, Review
  <2>2. QED
    BY <2>1
<1>4. ASSUME NEW p \in Procs PROVE Holds(p)'
  <2>1. Holds(p) /\ proc[p].item \in Items \cup {NoItem}
    BY DEF LeaseInv, RefundInv, RefundTypeOK, Processes
  <2>2. QED
    BY <1>1, <1>2, <1>3, <2>1 DEF Holds
<1>5. ASSUME NEW j \in Items PROVE Decided(j)'
  <2>1. Decided(j)
    BY DEF LeaseInv
  <2>2. CASE j # i
    BY <1>1, <1>2, <2>1, <2>2 DEF Decided
  <2>3. CASE j = i /\ (Discover(i) \/ BecomesDue(i))
    BY <1>1, <2>1, <2>3 DEF Discover, BecomesDue, Decided, RefundInv, RefundTypeOK
  <2>4. ASSUME j = i, NEW n \in 1..Amount, NEW approve \in BOOLEAN, Review(i, n, approve)
        PROVE  Decided(j)'
    <3>1. job'[i] = (IF approve THEN "QUEUED" ELSE "REJECTED") /\ cents'[i] = n
      BY <2>4 DEF Review, RefundInv, RefundTypeOK
    <3>2. link[i] # NoRequest => n = cents[i] /\ approve
      BY <2>4 DEF Review, MayReview
    <3>3. QED
      BY <1>1, <2>1, <2>4, <3>1, <3>2 DEF Decided
  <2>5. QED
    BY <2>2, <2>3, <2>4
<1>6. QED
  BY <1>4, <1>5 DEF LeaseInv

\* tick: nobody holds a job that is due.
LEMMA TakeHolds ==
    ASSUME RefundInv, LeaseInv, NEW p \in Workers, NEW i \in Items, TakeJob(p, i)
    PROVE  LeaseInv'
<1> DEFINE q == [Idle EXCEPT !.pc = "job", !.item = i, !.req = link[i], !.amount = cents[i],
                             !.reasoned = noted[i]]
<1>1. /\ p \in Procs /\ due[i] /\ job[i] \in Active
      /\ job' = [job EXCEPT ![i] = "PROCESSING"]
      /\ holder' = [holder EXCEPT ![i] = p]
      /\ due' = [due EXCEPT ![i] = FALSE]
      /\ proc' = [proc EXCEPT ![p] = q]
      /\ UNCHANGED <<approved, link, cents>>
  BY DEF TakeJob, Procs, requestVars
<1>2. q.pc = "job" /\ q.item = i /\ q.amount = cents[i] /\ q.next = "NONE"
  BY DEF Idle
<1> HIDE DEF q
<1>3. /\ proc'[p] = q /\ job'[i] = "PROCESSING" /\ holder'[i] = p /\ ~ due'[i]
      /\ \A j \in Items \ {i} : UNCHANGED <<job[j], holder[j], due[j]>>
  BY <1>1 DEF RefundInv, RefundTypeOK
<1>4. \A x \in Procs \ {p} : Holds(x)'
  <2>1. \A j \in Items : holder[j] \notin {NoProc, p} /\ ~ due[j]
           => UNCHANGED <<holder[j], due[j], job[j], cents[j]>>
    BY <1>1, <1>3
  <2>2. proc' = [proc EXCEPT ![p] = proc'[p]]
    BY <1>1, <1>3
  <2>3. QED
    BY <1>1, <2>1, <2>2, OthersHold
<1>5. Holds(p)'
  BY <1>1, <1>2, <1>3 DEF Holds, NextStatuses
<1>6. ASSUME NEW j \in Items PROVE Decided(j)'
  BY <1>1, <1>3 DEF LeaseInv, Decided
<1>7. QED
  BY <1>4, <1>5, <1>6 DEF LeaseInv

\* The request of a job is approved with the amount the job has.
LEMMA LinkHolds ==
    ASSUME RefundInv, LeaseInv, NEW p \in Procs, LinkRequest(p)
    PROVE  LeaseInv'
<1> DEFINE i == proc[p].item
           n == proc[p].amount
<1>1. /\ proc \in [Procs -> Processes] /\ proc[p] \in Processes
      /\ link \in [Items -> Requests \cup {NoRequest}]
      /\ approved \in [Requests -> 0..Amount]
  BY DEF RefundInv, RefundTypeOK
<1>2. /\ proc[p].pc = "job" /\ i \in Items /\ Holds(p)
      /\ UNCHANGED <<job, cents, holder, due>>
  BY <1>1 DEF LinkRequest, RefundInv, ProcessOK, Processes, LeaseInv
<1>3. CASE UNCHANGED <<approved, link>>
  <2>1. CASE proc' = [proc EXCEPT ![p].pc = "look", ![p].req = link[i]]
    <3> DEFINE q == [proc[p] EXCEPT !.pc = "look", !.req = link[i]]
    <3>1. proc' = [proc EXCEPT ![p] = q]
      BY <1>1, <2>1
    <3>2. q.pc = "look" /\ q.item = proc[p].item /\ q.next = proc[p].next
      BY <1>1 DEF Processes
    <3> HIDE DEF q
    <3>3. QED
      BY <1>2, <1>3, <3>1, <3>2, GotoProceeds, ProceedKeeps DEF Stays
  <2>2. CASE Finish(p, "MANUAL_REVIEW") \/ Finish(p, "QUEUED")
    BY <1>2, <1>3, <2>2, FinishProceeds, ProceedKeeps DEF Stays
  <2>3. CASE \E r \in Requests : /\ status[r] = "NONE" /\ approved' = [approved EXCEPT ![r] = n]
                                 /\ link' = [link EXCEPT ![i] = r]
    <3>1. PICK r \in Requests : /\ status[r] = "NONE" /\ link' = [link EXCEPT ![i] = r]
      BY <2>3
    <3>2. link[i] = r /\ r # NoRequest
      BY <1>1, <1>2, <1>3, <3>1, RefundAssumption
    <3>3. approved[r] = 0 /\ approved[r] # 0
      BY <1>2, <3>1, <3>2 DEF RefundInv, RequestOK, JobOK
    <3>4. QED
      BY <3>3
  <2>4. QED
    BY <2>1, <2>2, <2>3 DEF LinkRequest
<1>4. ASSUME NEW r \in Requests, status[r] = "NONE",
             approved' = [approved EXCEPT ![r] = n], link' = [link EXCEPT ![i] = r],
             proc' = [proc EXCEPT ![p].pc = "look", ![p].req = r]
      PROVE  LeaseInv'
  <2> DEFINE q == [proc[p] EXCEPT !.pc = "look", !.req = r]
  <2>1. proc' = [proc EXCEPT ![p] = q]
    BY <1>1, <1>4
  <2>2. q.pc = "look" /\ q.item = i /\ q.next = proc[p].next
    BY <1>1 DEF Processes
  <2> HIDE DEF q
  <2>3. approved[r] = 0
    BY <1>4 DEF RefundInv, RequestOK
  <2>4. \A x \in Procs \ {p} : Holds(x)'
    <3>1. proc' = [proc EXCEPT ![p] = proc'[p]]
      BY <1>1, <2>1
    <3>2. QED
      BY <1>2, <3>1, OthersHold
  <2>5. Holds(p)'
    <3>1. proc'[p] = q
      BY <1>1, <2>1
    <3>2. QED
      BY <1>2, <2>2, <3>1 DEF Holds
  <2>6. n = cents[i] /\ job[i] # "REJECTED"
    BY <1>2, RefundAssumption DEF Holds
  <2>7. ASSUME NEW j \in Items PROVE Decided(j)'
    <3>1. Decided(j) /\ (link[j] # NoRequest => approved[link[j]] # 0 /\ link[j] # r)
      BY <2>3 DEF LeaseInv, RefundInv, JobOK
    <3>2. CASE j = i
      BY <1>1, <1>2, <1>4, <2>6, <3>2 DEF Decided
    <3>3. CASE j # i
      BY <1>1, <1>2, <1>4, <3>1, <3>3 DEF Decided
    <3>4. QED
      BY <3>2, <3>3
  <2>8. QED
    BY <2>4, <2>5, <2>7 DEF LeaseInv
<1>5. QED
  BY <1>3, <1>4 DEF LinkRequest

\* complete: the job stays with its worker until it is given back.
LEMMA CompleteHolds ==
    ASSUME RefundInv, LeaseInv, NEW p \in Procs, CompleteJob(p)
    PROVE  LeaseInv'
<1> DEFINE i == proc[p].item
<1>1. /\ proc \in [Procs -> Processes] /\ proc[p] \in Processes /\ p # NoProc
      /\ job \in [Items -> JobStatuses]
  BY RefundAssumption DEF RefundInv, RefundTypeOK, Procs
<1>2. /\ proc[p].pc = "complete" /\ i \in Items /\ Holds(p)
      /\ job' = [job EXCEPT ![i] = "COMPLETED"] /\ Finish(p, "COMPLETED")
      /\ UNCHANGED <<approved, link, cents, holder, due>>
  BY <1>1 DEF CompleteJob, RefundInv, ProcessOK, Processes, LeaseInv, requestVars
<1>3. /\ Written(p) /\ proc'[p].pc = "finish" /\ proc'[p].item = i /\ proc'[p].next = "COMPLETED"
  BY <1>2, FinishIs DEF JobStatuses
<1>4. holder[i] = p /\ ~ due[i]
  BY <1>2, RefundAssumption DEF Holds
<1>5. \A x \in Procs \ {p} : Holds(x)'
  BY <1>1, <1>2, <1>3, <1>4, OthersHold DEF Written
<1>6. Holds(p)'
  BY <1>1, <1>2, <1>3, <1>4 DEF Holds, NextStatuses
<1>7. ASSUME NEW j \in Items PROVE Decided(j)'
  BY <1>1, <1>2 DEF LeaseInv, Decided
<1>8. QED
  BY <1>5, <1>6, <1>7 DEF LeaseInv

\* finish: the job is given back.
LEMMA FinishHolds ==
    ASSUME RefundInv, LeaseInv, NEW p \in Procs, FinishJob(p)
    PROVE  LeaseInv'
<1> DEFINE i == proc[p].item
<1>1. /\ proc \in [Procs -> Processes] /\ proc[p] \in Processes /\ p # NoProc
      /\ job \in [Items -> JobStatuses] /\ holder \in [Items -> Workers \cup {NoProc}]
      /\ due \in [Items -> BOOLEAN]
  BY RefundAssumption DEF RefundInv, RefundTypeOK, Procs
<1>2. /\ proc[p].pc = "finish" /\ i \in Items /\ Holds(p)
      /\ proc' = [proc EXCEPT ![p] = Idle]
      /\ UNCHANGED <<approved, link, cents>>
  BY <1>1 DEF FinishJob, RefundInv, ProcessOK, Processes, LeaseInv, requestVars
<1>3. proc'[p] = Idle /\ proc' = [proc EXCEPT ![p] = proc'[p]]
  BY <1>1, <1>2
<1>4. holder[i] = p /\ proc[p].next \in NextStatuses
  BY <1>2, RefundAssumption DEF Holds
<1>5. /\ job' = [job EXCEPT ![i] = proc[p].next]
      /\ holder' = [holder EXCEPT ![i] = NoProc]
      /\ due' = [due EXCEPT ![i] = FALSE]
  BY <1>4 DEF FinishJob
<1>6. \A x \in Procs \ {p} : Holds(x)'
  <2>1. \A j \in Items : holder[j] \notin {NoProc, p} /\ ~ due[j]
           => UNCHANGED <<holder[j], due[j], job[j], cents[j]>>
    BY <1>1, <1>2, <1>4, <1>5
  <2>2. QED
    BY <1>3, <2>1, OthersHold
<1>7. Holds(p)'
  BY <1>3 DEF Holds, Idle, NextStatuses
<1>8. ASSUME NEW j \in Items PROVE Decided(j)'
  BY <1>1, <1>2, <1>4, <1>5 DEF LeaseInv, Decided, NextStatuses
<1>9. QED
  BY <1>6, <1>7, <1>8 DEF LeaseInv

-----------------------------------------------------------------------------
(* The theorems.                                                           *)

LEMMA LeaseInit == Init => LeaseInv
<1> SUFFICES ASSUME Init PROVE LeaseInv
  OBVIOUS
<1>1. ASSUME NEW p \in Procs PROVE Holds(p)
  BY DEF Init, Holds, Idle, NextStatuses
<1>2. ASSUME NEW i \in Items PROVE Decided(i)
  BY DEF Init, Decided
<1>3. QED
  BY <1>1, <1>2 DEF LeaseInv

\* Every step keeps the leases, as long as no worker outlives its own.
LEMMA LeaseStep ==
    ASSUME RefundInv, LeaseInv, [Next]_vars, ~ Slow
    PROVE  LeaseInv'
<1>1. CASE UNCHANGED vars
  BY <1>1, WorldKeeps DEF vars, requestVars, jobVars
<1>2. CASE \E p \in Procs : Step(p)
  BY <1>2, RequestStepHolds, ClaimHolds, JobReadHolds, LinkHolds, CompleteHolds, FinishHolds
     DEF Step
<1>3. CASE \E p \in Admins, r \in Requests, n \in 0..Amount, reasoned, recover \in BOOLEAN :
              AdminProcess(p, r, n, reasoned, recover)
  BY <1>3, AdminHolds
<1>4. CASE \E p \in Admins, r \in Requests : AdminReconcile(p, r)
  BY <1>4, AdminHolds
<1>5. CASE \E p \in Workers, i \in Items : TakeJob(p, i)
  BY <1>5, TakeHolds
<1>6. CASE \E i \in Items : \/ Discover(i) \/ BecomesDue(i)
                            \/ \E n \in 1..Amount, approve \in BOOLEAN : Review(i, n, approve)
  BY <1>6, JobsHold
<1>7. CASE (\E p \in Procs : Crash(p)) \/ (\E p \in Workers : StatementFails(p))
  BY <1>7, FaultHolds DEF Procs
<1>8. CASE \/ \E r \in Requests, n \in 1..Amount : RequestRefund(r, n)
           \/ UseRight
           \/ \E r \in Requests : ProviderApproves(r)
           \/ \E n \in 1..Amount : PanelRefund(n)
           \/ \E t \in 1..Amount : Webhook(t)
  BY <1>8, WorldHolds
<1>9. QED
  BY <1>1, <1>2, <1>3, <1>4, <1>5, <1>6, <1>7, <1>8 DEF Next

\* The leases of EventRefundWorker exclude each other: a job has one worker, who
\* knows what was decided of it.
THEOREM LeasesExclude == ~ Slow => (Spec => []LeaseInv)
<1> SUFFICES ASSUME ~ Slow PROVE Spec => []LeaseInv
  OBVIOUS
<1>1. Init => LeaseInv
  BY LeaseInit
<1>2. RefundInv /\ LeaseInv /\ [Next]_vars => LeaseInv'
  BY LeaseStep
<1>3. Spec => []RefundInv
  BY RefundInvariance
<1>4. QED
  BY <1>1, <1>2, <1>3, PTL DEF Spec

\* A job that a review rejected has sent no money: its request is created only by
\* the worker that holds it, and what has one is not rejected (review).
THEOREM RejectedSentNothing == ~ Slow => (Spec => []RejectedIsNotSent)
<1> SUFFICES ASSUME ~ Slow PROVE Spec => []RejectedIsNotSent
  OBVIOUS
<1>1. LeaseInv => RejectedIsNotSent
  BY DEF LeaseInv, Decided, RejectedIsNotSent
<1>2. Spec => []LeaseInv
  BY LeasesExclude
<1>3. QED
  BY <1>1, <1>2, PTL

\* What the buyer of a completed job got back is the amount last decided on: the
\* amount a worker read is not reviewed before its request exists, nor after.
THEOREM ReturnedWasDecided == ~ Slow => (Spec => []ReturnedAsDecided)
<1> SUFFICES ASSUME ~ Slow PROVE Spec => []ReturnedAsDecided
  OBVIOUS
<1>1. RefundInv /\ LeaseInv => ReturnedAsDecided
  <2>1. ASSUME RefundInv, LeaseInv, NEW i \in Items, job[i] = "COMPLETED"
        PROVE  refundCents[link[i]] = cents[i]
    <3>1. link[i] \in Requests /\ link[i] # NoRequest /\ refund[link[i]] = "APPROVED"
      BY <2>1 DEF RefundInv, RefundTypeOK, JobOK
    <3>2. refundCents[link[i]] = approved[link[i]] /\ approved[link[i]] = cents[i]
      BY <2>1, <3>1 DEF RefundInv, RequestOK, LeaseInv, Decided
    <3>3. QED
      BY <3>2
  <2>2. QED
    BY <2>1 DEF ReturnedAsDecided
<1>2. Spec => []LeaseInv
  BY LeasesExclude
<1>3. Spec => []RefundInv
  BY RefundInvariance
<1>4. QED
  BY <1>1, <1>2, <1>3, PTL

\* A completed job is touched only by its own worker, whose last update failed.
THEOREM CompletedStays == ~ Slow => (Spec => CompletedIsFinal)
<1> SUFFICES ASSUME ~ Slow PROVE Spec => CompletedIsFinal
  OBVIOUS
<1> DEFINE Final == \A i \in Items :
                       job[i] = "COMPLETED" /\ job'[i] # "COMPLETED" =>
                           \E p \in Workers : /\ proc[p].pc = "finish" /\ proc[p].item = i
                                              /\ holder[i] = p /\ proc[p].next = "QUEUED"
<1>1. RefundInv /\ LeaseInv /\ [Next]_vars => [Final]_vars
  <2> SUFFICES ASSUME RefundInv, LeaseInv, Next, NEW i \in Items,
                      job[i] = "COMPLETED", job'[i] # "COMPLETED"
               PROVE  \E p \in Workers : /\ proc[p].pc = "finish" /\ proc[p].item = i
                                         /\ holder[i] = p /\ proc[p].next = "QUEUED"
    OBVIOUS
  <2>1. job \in [Items -> JobStatuses] /\ holder \in [Items -> Workers \cup {NoProc}]
    BY DEF RefundInv, RefundTypeOK
  <2>2. PICK p \in Procs : FinishJob(p)
    <3>1. ~ UNCHANGED job
      OBVIOUS
    <3>2. ~ \E j \in Items : \/ Discover(j) \/ BecomesDue(j)
                             \/ \E p \in Workers : TakeJob(p, j)
                             \/ \E n \in 1..Amount, approve \in BOOLEAN : Review(j, n, approve)
      BY <2>1 DEF Discover, BecomesDue, TakeJob, Review, Active
    <3>3. ~ \E p \in Procs : CompleteJob(p)
      BY <2>1 DEF CompleteJob
    <3>4. \A p \in Procs : Step(p) => FinishJob(p)
      BY <3>1, <3>3
         DEF Step, ReadRequest, ClaimRequest, Send, RecordRefund, FailRequest, QueryRefund,
             SettleVerified, CloseRequest, BeginJob, LinkRequest, LookAtRequest, AfterSend, jobVars
    <3>5. QED
      BY <3>1, <3>2, <3>4
         DEF Next, RequestRefund, UseRight, ProviderApproves, PanelRefund, Webhook, AdminProcess,
             AdminReconcile, Crash, StatementFails, jobVars
  <2>3. proc[p].pc = "finish" /\ proc[p].item = i /\ holder[i] = p
    BY <2>1, <2>2 DEF FinishJob
  <2>4. p \in Workers
    BY <2>1, <2>3, RefundAssumption DEF Procs
  <2>5. proc[p].next \in {"QUEUED", "COMPLETED"}
    BY <2>3, RefundAssumption DEF LeaseInv, Holds
  <2>6. proc[p].next # "COMPLETED"
    BY <2>1, <2>2, <2>3 DEF FinishJob
  <2>7. QED
    BY <2>3, <2>4, <2>5, <2>6
<1>2. Spec => []LeaseInv
  BY LeasesExclude
<1>3. Spec => []RefundInv
  BY RefundInvariance
<1> HIDE DEF Final
<1>4. Spec => [][Final]_vars
  BY <1>1, <1>2, <1>3, PTL DEF Spec
<1>5. QED
  BY <1>4 DEF Final, CompletedIsFinal
=============================================================================
