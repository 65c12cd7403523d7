------------------------------- MODULE MCWallet -------------------------------
(***************************************************************************)
(* Instance of Wallet for TLC: one wallet, one transaction at a time.      *)
(***************************************************************************)
EXTENDS Wallet

(* One customer owns the top-up, the reward and the purchase; another has  *)
(* placed the order of the reward.                                         *)
OneOwner == [k \in Funds \cup Rewards \cup Buys |-> "ann"]
OneBuyer == [r \in Rewards |-> "bob"]
NoReceiver == <<>>
===============================================================================
