---------------------------- MODULE MCOrderPayment ----------------------------
(***************************************************************************)
(* Instances of OrderPayment for TLC.                                      *)
(***************************************************************************)
EXTENDS OrderPayment, TLC

CONSTANTS ann, bob, o1, o2, gate, beer, combo, h1, h2

\* Two customers after the last unit, one of them paying from the wallet.
TwoBuyers   == (o1 :> ann @@ o2 :> bob)
JustAnn     == (o1 :> ann)
MixedMethod == (o1 :> "GATEWAY" @@ o2 :> "WALLET")
Gateway     == (o1 :> "GATEWAY")

OneTicket   == (gate :> 1)
OneBeer     == (beer :> 1)
NoLimit     == (gate :> 0)
NoTickets   == <<>>

\* A payment is decided once.
Decision == {<<"PENDING", "APPROVED">>, <<"PENDING", "REJECTED">>}

\* The customer may try another card after a refusal: a preference accepts
\* several payments.
Retry == Decision \cup {<<"REJECTED", "APPROVED">>}

\* What comes after an approval; a chargeback may be lost and refunded.
Aftermath ==
    {<<"APPROVED", to>> : to \in {"PARTIALLY_REFUNDED", "REFUNDED", "CHARGEBACK"}}
        \cup {<<"PARTIALLY_REFUNDED", to>> : to \in {"PARTIALLY_REFUNDED", "REFUNDED", "CHARGEBACK"}}

WithAftermath == Retry \cup Aftermath

\* A refund that the simulator announces first.
Announced == {<<"APPROVED", "REFUND_PENDING">>, <<"REFUND_PENDING", "REFUNDED">>}
AnyRefund == WithAftermath \cup Announced

HandlerSymmetry == Permutations(Handlers)
=============================================================================
