---------------------------- MODULE OrderLifecycle ----------------------------
(***************************************************************************)
(* What a customer and a club are promised of an order, whatever the       *)
(* provider, the timers and the crashes do: it is opened once, decided     *)
(* once, served at most once and only with units that are left, and money  *)
(* only ever comes back, up to what was paid.                              *)
(***************************************************************************)
EXTENDS Integers

CONSTANTS Orders, Resources, Inventory, Stock, MaxQty, Amount

VARIABLES
    phase,      \* where the order stands
    need,       \* need[o][r]: units of r that o asks for
    left,       \* left[r]: units of r that no order was served with
    returned    \* cents given back to the customer

vars == <<phase, need, left, returned>>

Phases == {"NONE", "OPEN", "CLOSED", "LAPSED", "SERVED", "OWED", "RETURNED"}

Init ==
    /\ phase = [o \in Orders |-> "NONE"]
    /\ need = [o \in Orders |-> [r \in Resources |-> 0]]
    /\ left = Stock
    /\ returned = [o \in Orders |-> 0]

\* The customer orders; nothing is taken from the stock.
Open(o, q) ==
    /\ phase[o] = "NONE"
    /\ phase' = [phase EXCEPT ![o] = "OPEN"]
    /\ need' = [need EXCEPT ![o] = q]
    /\ UNCHANGED <<left, returned>>

\* The order is refused for good, or its time is over.
Close(o, end) ==
    /\ phase[o] = "OPEN"
    /\ phase' = [phase EXCEPT ![o] = end]
    /\ UNCHANGED <<need, left, returned>>

\* Paid and served.  An order whose time is over has lost its units: it may
\* still be served only if it asks for none.
Serve(o) ==
    /\ \/ phase[o] = "OPEN"
       \/ phase[o] = "LAPSED" /\ \A r \in Inventory : need[o][r] = 0
    /\ \A r \in Inventory : need[o][r] <= left[r]
    /\ left' = [r \in Inventory |-> left[r] - need[o][r]]
    /\ phase' = [phase EXCEPT ![o] = "SERVED"]
    /\ UNCHANGED <<need, returned>>

\* Paid, and the club cannot serve it: the money is owed.
Owe(o) ==
    /\ phase[o] \in {"OPEN", "LAPSED"}
    /\ phase' = [phase EXCEPT ![o] = "OWED"]
    /\ UNCHANGED <<need, left, returned>>

\* Money comes back, up to the amount paid; then nothing more happens.
Return(o, cents) ==
    /\ phase[o] \in {"SERVED", "OWED"}
    /\ returned[o] < cents
    /\ returned' = [returned EXCEPT ![o] = cents]
    /\ phase' = [phase EXCEPT ![o] = IF cents = Amount THEN "RETURNED" ELSE @]
    /\ UNCHANGED <<need, left>>

Next ==
    \E o \in Orders :
        \/ \E q \in [Resources -> 0..MaxQty] : Open(o, q)
        \/ \E end \in {"CLOSED", "LAPSED"} : Close(o, end)
        \/ Serve(o)
        \/ Owe(o)
        \/ \E cents \in 1..Amount : Return(o, cents)

Spec == Init /\ [][Next]_vars
=============================================================================
