--------------------------------- MODULE Cart ---------------------------------
(***************************************************************************)
(* The cart of a customer, the order it becomes and what is handed over    *)
(* for it.  The customer uses several devices at once: CommerceService     *)
(* edits one cart for all of them, in transactions that read it without a  *)
(* lock.  A checkout copies the cart as it read it; an approved payment    *)
(* groups the products of that copy into deliveries, each with one code,   *)
(* and takes what was bought out of the cart.                              *)
(*                                                                         *)
(* A definition under "Bug:" is used by no other: it takes the place of    *)
(* the one after it to show that a property notices the bug.               *)
(***************************************************************************)
EXTENDS Integers, FiniteSets, FiniteSetsExt

CONSTANTS
    CartDevices,
    CartItems,
    CartProducts,   \* the items that are handed over, the others are admissions
    ShopOf,         \* the club of each item
    NoShop,
    CartOrders,
    MaxUnits,       \* units of each item that a customer may ask for
    MaxEdits        \* bound on the edits of the cart and of the prices

ASSUME CartAssumption ==
    /\ IsFiniteSet(CartItems) /\ CartProducts \subseteq CartItems
    /\ DOMAIN ShopOf = CartItems /\ \A i \in CartItems : ShopOf[i] # NoShop
    /\ MaxUnits \in [CartItems -> Nat] /\ MaxEdits \in Nat

VARIABLES
    cart,           \* Cart: its club, combineProducts, quantity and mode of its items
    cartPrice,      \* the price of each item
    device,         \* what the customer does on a device, and the total it shows
    cartOrder,      \* Order and OrderItem
    paying,         \* the approval of the payment of an order: the quantities it read
    handover,       \* ProductDelivery rows of an order
    edits,
    raced,          \* two transactions on the cart raced
    untouched       \* orders whose cart was not edited since they read it

cartVars == <<cart, cartPrice, device, cartOrder, paying, handover, edits, raced, untouched>>

Modes    == {"GROUPED", "SEPARATE"}
NoLines  == [i \in {} |-> 0]
NoCart   == [shop |-> NoShop, combine |-> FALSE, lines |-> NoLines,
             mode |-> [i \in CartItems |-> "GROUPED"]]
AtRest   == [step |-> "idle", saw |-> NoCart, lines |-> NoLines, shown |-> 0]
NoOrder  == [status |-> "NONE", shop |-> NoShop, of |-> NoCart, total |-> 0, shown |-> 0]
NotPaying == [step |-> "idle", saw |-> NoLines]

TotalOf(lines) == MapThenSumSet(LAMBDA i : lines[i] * cartPrice[i], DOMAIN lines)
ShopsOf(lines) == {ShopOf[i] : i \in DOMAIN lines}

\* Lines with an item set, and without some.
With(lines, i, n)  == [j \in DOMAIN lines \cup {i} |-> IF j = i THEN n ELSE lines[j]]
Without(lines, S)  == [j \in DOMAIN lines \ S |-> lines[j]]

CartInit ==
    /\ cart = NoCart
    /\ cartPrice = [i \in CartItems |-> 1]
    /\ device = [d \in CartDevices |-> AtRest]
    /\ cartOrder = [o \in CartOrders |-> NoOrder]
    /\ paying = [o \in CartOrders |-> NotPaying]
    /\ handover = [o \in CartOrders |-> {}]
    /\ edits = 0 /\ raced = FALSE /\ untouched = {}

-----------------------------------------------------------------------------
(* The cart.                                                               *)

\* An edit, by a device or by nobody's: whether another transaction is open.
Edit(d) ==
    /\ edits < MaxEdits /\ edits' = edits + 1
    /\ raced' = (raced \/ (\E e \in CartDevices \ {d} : device[e].step # "idle")
                                 \/ (\E o \in CartOrders : paying[o].step # "idle"))
    /\ untouched' = {}
    /\ UNCHANGED <<cartOrder, paying, handover>>

\* An empty cart is of no club and combines nothing; otherwise it is as it was.
Emptied(lines) == IF DOMAIN lines = {} THEN [cart EXCEPT !.lines = lines, !.shop = NoShop, !.combine = FALSE]
                  ELSE [cart EXCEPT !.lines = lines]

Moves(d, step, item) ==
    device' = [device EXCEPT ![d].step = step, ![d].saw = cart, ![d].lines = item]
Rests(d) == device' = [device EXCEPT ![d] = [AtRest EXCEPT !.shown = device[d].shown]]

\* getCart: the total that the device shows.
GetCart(d) ==
    /\ device[d].step = "idle" /\ device[d].shown # TotalOf(cart.lines)
    /\ device' = [device EXCEPT ![d].shown = TotalOf(cart.lines)]
    /\ UNCHANGED <<cart, cartPrice, cartOrder, paying, handover, edits, raced, untouched>>

\* addCartItem reads the cart: with items in it, it takes those of its club.
BeginAdd(d, i, n) ==
    /\ device[d].step = "idle" /\ edits < MaxEdits
    /\ cart.lines = NoLines \/ cart.shop = ShopOf[i]
    /\ Moves(d, "add", With(NoLines, i, n))
    /\ UNCHANGED <<cart, cartPrice, cartOrder, paying, handover, edits, raced, untouched>>

\* The club is written only if it is another than the one that was read.
CommitAdd(d) ==
    LET i == CHOOSE j \in DOMAIN device[d].lines : TRUE IN
    /\ device[d].step = "add" /\ Edit(d) /\ Rests(d)
    /\ cart' = [cart EXCEPT !.lines = With(@, i, device[d].lines[i]),
                            !.shop = IF device[d].saw.shop # ShopOf[i] THEN ShopOf[i] ELSE @,
                            !.mode[i] = IF i \in DOMAIN cart.lines THEN @ ELSE "GROUPED"]
    /\ UNCHANGED cartPrice

UpdateCartItem(d, i, n) ==
    /\ device[d].step = "idle" /\ i \in DOMAIN cart.lines /\ Edit(d)
    /\ cart' = [cart EXCEPT !.lines[i] = n]
    /\ UNCHANGED <<cartPrice, device>>

\* updateProductDelivery: whether the products are combined, or how one is handed over.
UpdateProductDelivery(d, combine, mode) ==
    /\ device[d].step = "idle" /\ Edit(d)
    /\ \A i \in CartItems : mode[i] # cart.mode[i] => i \in DOMAIN cart.lines \cap CartProducts
    /\ cart' = [cart EXCEPT !.combine = combine, !.mode = mode] /\ cart' # cart
    /\ UNCHANGED <<cartPrice, device>>

\* deleteCartItem deletes the item, counts what remains and commits both.
BeginDelete(d, i) ==
    /\ device[d].step = "idle" /\ i \in DOMAIN cart.lines /\ edits < MaxEdits
    /\ Moves(d, "delete", With(NoLines, i, cart.lines[i]))
    /\ UNCHANGED <<cart, cartPrice, cartOrder, paying, handover, edits, raced, untouched>>

CommitDelete(d) ==
    LET gone == DOMAIN device[d].lines
        lines == Without(cart.lines, gone) IN
    /\ device[d].step = "delete" /\ Edit(d) /\ Rests(d)
    /\ cart' = IF ~(gone \subseteq DOMAIN cart.lines) THEN cart
               ELSE IF DOMAIN device[d].saw.lines = gone
               THEN [cart EXCEPT !.lines = lines, !.shop = NoShop, !.combine = FALSE]
               ELSE [cart EXCEPT !.lines = lines]
    /\ UNCHANGED cartPrice

-----------------------------------------------------------------------------
(* The order.                                                              *)

\* checkout reads the cart; a club that is paid through its seller must be known.
BeginCheckout(d) ==
    /\ device[d].step = "idle" /\ cart.lines # NoLines /\ cart.shop # NoShop
    /\ \E o \in CartOrders : cartOrder[o].status = "NONE"
    /\ Moves(d, "checkout", NoLines)
    /\ UNCHANGED <<cart, cartPrice, cartOrder, paying, handover, edits, raced, untouched>>

\* Bug: the club of the cart is believed.
AnyShops(lines) == lines # NoLines

\* All the items must be of one club, whichever the cart says.
OneShop(lines) == Cardinality(ShopsOf(lines)) = 1

\* The order copies the cart as it was read, at the prices of now, and only for
\* the total that the customer was shown, which is not below nothing.
CommitCheckout(d, o) ==
    LET saw == device[d].saw IN
    /\ device[d].step = "checkout" /\ cartOrder[o].status = "NONE" /\ Rests(d)
    /\ IF OneShop(saw.lines) /\ TotalOf(saw.lines) = device[d].shown /\ device[d].shown >= 0
       THEN /\ cartOrder' = [cartOrder EXCEPT ![o] =
                   [status |-> "PENDING", shop |-> ShopOf[CHOOSE i \in DOMAIN saw.lines : TRUE],
                    of |-> saw, total |-> TotalOf(saw.lines), shown |-> device[d].shown]]
            /\ untouched' = IF cart = saw THEN untouched \cup {o} ELSE untouched
       ELSE UNCHANGED <<cartOrder, untouched>>
    /\ UNCHANGED <<cart, cartPrice, paying, handover, edits, raced>>

\* Bug: a unit handed over on its own counts as all of them.
PlanUnsplit(combine, lines, mode) ==
    LET some == DOMAIN lines \cap CartProducts IN
    IF some = {} THEN {}
    ELSE IF combine THEN {[nth |-> 1, units |-> [i \in some |-> lines[i]]]}
    ELSE UNION {{[nth |-> k, units |-> With(NoLines, i, lines[i])] :
                     k \in 1..(IF mode[i] = "GROUPED" THEN 1 ELSE lines[i])} : i \in some}

\* buildProductDeliveryPlan: all products together, or each by its mode.
Plan(combine, lines, mode) ==
    LET some == DOMAIN lines \cap CartProducts IN
    IF some = {} THEN {}
    ELSE IF combine THEN {[nth |-> 1, units |-> [i \in some |-> lines[i]]]}
    ELSE {[nth |-> 1, units |-> With(NoLines, i, lines[i])] : i \in {j \in some : mode[j] = "GROUPED"}}
         \cup UNION {{[nth |-> k, units |-> With(NoLines, i, 1)] : k \in 1..lines[i]} :
                         i \in {j \in some : mode[j] = "SEPARATE"}}

\* Bug: the deliveries are grouped as the cart says by the time of the payment.
PlanOfCart(o) == Plan(cart.combine, cartOrder[o].of.lines, cartOrder[o].of.mode)

\* issueOrderResources groups as the order says.
PlanOf(o) == Plan(cartOrder[o].of.combine, cartOrder[o].of.lines, cartOrder[o].of.mode)

\* The approval of the payment reads the cart ...
BeginApproval(o) ==
    /\ cartOrder[o].status = "PENDING" /\ paying[o].step = "idle"
    /\ paying' = [paying EXCEPT ![o] = [step |-> "open", saw |-> cart.lines]]
    /\ UNCHANGED <<cart, cartPrice, device, cartOrder, handover, edits, raced, untouched>>

\* ... hands the products over and takes what was bought out of it: an item with
\* no more than what was bought goes, another keeps the rest.  An item that is
\* gone by then undoes the approval, which is retried.
CommitApproval(o) ==
    LET bought == cartOrder[o].of.lines
        saw == paying[o].saw
        inCart == DOMAIN bought \cap DOMAIN saw
        go == {i \in inCart : saw[i] <= bought[i]}
        lines == [i \in DOMAIN cart.lines \ go |->
                     IF i \in inCart THEN cart.lines[i] - bought[i] ELSE cart.lines[i]] IN
    /\ paying[o].step = "open" /\ paying' = [paying EXCEPT ![o] = NotPaying]
    /\ IF inCart \subseteq DOMAIN cart.lines
       THEN /\ cart' = Emptied(lines)
            /\ cartOrder' = [cartOrder EXCEPT ![o].status = "PAID"]
            /\ handover' = [handover EXCEPT ![o] = PlanOf(o)]
            /\ raced' = (raced \/ (\E d \in CartDevices : device[d].step # "idle")
                                         \/ (\E p \in CartOrders \ {o} : paying[p].step # "idle"))
            /\ untouched' = untouched \cap {o}
       ELSE UNCHANGED <<cart, cartOrder, handover, raced, untouched>>
    /\ UNCHANGED <<cartPrice, device, edits>>

\* Without a payment the order ends and the cart stays.
EndUnpaid(o) ==
    /\ cartOrder[o].status = "PENDING" /\ paying[o].step = "idle"
    /\ cartOrder' = [cartOrder EXCEPT ![o].status = "EXPIRED"]
    /\ UNCHANGED <<cart, cartPrice, device, paying, handover, edits, raced, untouched>>

\* A club edits a price.
ChangePrice(i) ==
    /\ edits < MaxEdits /\ edits' = edits + 1
    /\ cartPrice[i] < 2 /\ cartPrice' = [cartPrice EXCEPT ![i] = @ + 1]
    /\ UNCHANGED <<cart, device, cartOrder, paying, handover, raced, untouched>>

\* A transaction of a device fails.
LeaveCart(d) ==
    /\ device[d].step # "idle" /\ Rests(d)
    /\ UNCHANGED <<cart, cartPrice, cartOrder, paying, handover, edits, raced, untouched>>

CartNext ==
    \/ \E d \in CartDevices :
           \/ GetCart(d) \/ CommitAdd(d) \/ CommitDelete(d) \/ BeginCheckout(d) \/ LeaveCart(d)
           \/ \E i \in CartItems : \/ BeginDelete(d, i)
                                   \/ \E n \in 1..MaxUnits[i] : BeginAdd(d, i, n) \/ UpdateCartItem(d, i, n)
           \/ \E combine \in BOOLEAN, mode \in [CartItems -> Modes] : UpdateProductDelivery(d, combine, mode)
           \/ \E o \in CartOrders : CommitCheckout(d, o)
    \/ \E o \in CartOrders : BeginApproval(o) \/ CommitApproval(o) \/ EndUnpaid(o)
    \/ \E i \in CartItems : ChangePrice(i)

CartSpec == CartInit /\ [][CartNext]_cartVars

-----------------------------------------------------------------------------
(* Properties.                                                             *)

CartTypeOK ==
    /\ DOMAIN cart.lines \subseteq CartItems /\ cart.mode \in [CartItems -> Modes]
    /\ \A o \in CartOrders : cartOrder[o].status \in {"NONE", "PENDING", "PAID", "EXPIRED"}

\* An order is of one club and of the total that was shown, even when overlapping
\* devices filled the cart with the items of two clubs.
OrderIsOfOneClub == \A o \in CartOrders : cartOrder[o].status # "NONE" =>
    ShopsOf(cartOrder[o].of.lines) = {cartOrder[o].shop} /\ cartOrder[o].total = cartOrder[o].shown

\* Each unit bought is handed over once, in the groups that the customer chose by
\* the time of the checkout, whatever becomes of the cart until the payment: but
\* for a line below nothing, which only transactions that raced can leave behind.
HandedOverAsOrdered == \A o \in CartOrders :
    LET bought == cartOrder[o].of
        rows == handover[o]
        UnitsIn(row, i) == IF i \in DOMAIN row.units THEN row.units[i] ELSE 0 IN
    IF cartOrder[o].status # "PAID" THEN rows = {}
    ELSE /\ \A i \in CartItems : (i \in DOMAIN bought.lines => bought.lines[i] >= 0) =>
                MapThenSumSet(LAMBDA r : UnitsIn(r, i), rows) =
                    IF i \in DOMAIN bought.lines \cap CartProducts THEN bought.lines[i] ELSE 0
         /\ bought.combine => Cardinality(rows) <= 1
         /\ ~bought.combine => \A r \in rows :
                /\ Cardinality(DOMAIN r.units) = 1
                /\ \A i \in DOMAIN r.units : bought.mode[i] = "SEPARATE" => r.units[i] = 1

\* As long as no two transactions raced, the cart is of the club of its items
\* and asks for at least one unit of each, and so does every order.
CartIsSound == ~raced =>
    /\ ShopsOf(cart.lines) = {cart.shop} \ {NoShop}
    /\ \A i \in DOMAIN cart.lines : cart.lines[i] > 0
    /\ \A o \in CartOrders : \A i \in DOMAIN cartOrder[o].of.lines : cartOrder[o].of.lines[i] > 0

\* What was paid is no longer in the cart, unless it was edited since the checkout.
PaidIsOutOfCart == \A o \in untouched : cartOrder[o].status = "PAID" =>
    DOMAIN cartOrder[o].of.lines \cap DOMAIN cart.lines = {}

CartInv == CartTypeOK /\ OrderIsOfOneClub /\ HandedOverAsOrdered /\ CartIsSound /\ PaidIsOutOfCart
=============================================================================
