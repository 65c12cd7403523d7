------------------------------- MODULE MCTimers -------------------------------
(***************************************************************************)
(* The instances of three parts whose work is finished by a timer of the   *)
(* server: the payments of top-ups, the deliveries of the push outbox and  *)
(* the clean-up of uploads.  They share no table, so a behaviour of the    *)
(* run is a behaviour of one of them (part, chosen at the start): the      *)
(* others rest, and their fairness asks nothing while they do.             *)
(***************************************************************************)
EXTENDS TopUps, PushOutbox, Uploads

VARIABLE part

timersVars == <<topUpVars, pushVars, uploadVars, part>>

Parts == {"topups", "push", "uploads"}

(* The preference of the recipient matters to the outbox alone.            *)
TimersInit ==
  /\ part \in Parts
  /\ TopUpInit /\ PushInit /\ UploadInit
  /\ part # "push" => wantsPush

OthersRest ==
  /\ part # "topups"  => UNCHANGED topUpVars
  /\ part # "push"    => UNCHANGED pushVars
  /\ part # "uploads" => UNCHANGED uploadVars
  /\ UNCHANGED part

TimersNext ==
  \/ part = "topups"  /\ OthersRest /\ TopUpNext
  \/ part = "push"    /\ OthersRest /\ PushNext
  \/ part = "uploads" /\ OthersRest /\ UploadNext

(* The fairness of each part, as its module states it, while it is the one *)
(* that runs.                                                              *)
TimersFairness ==
  /\ \A t \in TopUps :
       /\ WF_topUpVars(part = "topups" /\ Overdue(t))
       /\ SF_topUpVars(part = "topups" /\ (\E h \in Runners : TakeOverdue(h, t)))
  /\ \A h \in Runners : WF_topUpVars(part = "topups" /\ RunnerStep(h))
  /\ WF_pushVars(part = "push" /\ Enqueue)
  /\ \A h \in Dispatchers : WF_pushVars(part = "push" /\ DispatcherStep(h))
  /\ WF_pushVars(part = "push" /\ Ripens)
  /\ \A u \in UploadIds : WF_uploadVars(part = "uploads" /\ ListExpired(u))
  /\ WF_uploadVars(part = "uploads" /\ EraseExpired)
  /\ WF_uploadVars(part = "uploads" /\ DeleteExpired)

TimersSpec == TimersInit /\ [][TimersNext]_timersVars /\ TimersFairness
===============================================================================
