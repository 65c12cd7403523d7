--------------------------------- MODULE Stock ---------------------------------
(***************************************************************************)
(* What a club puts on sale, edited while it is sold.  TicketsService and  *)
(* ProductsService read an entry or a product, decide, and write it with   *)
(* neither a lock nor a version: they stop between.  A paid order takes    *)
(* its units in one transaction that locks the row (CommerceService).      *)
(*                                                                         *)
(* A definition under "Bug:" is used by no other: it takes the place of    *)
(* the one after it to show that a property notices the bug.               *)
(***************************************************************************)
EXTENDS Integers, FiniteSets

CONSTANTS
    TicketTypes,
    Products,
    StockEditors,   \* edits being served
    NoGood,
    MaxTotal,       \* bound on the units of a row
    MaxGoods        \* bound on the rows there are at once

Goods == TicketTypes \cup Products

ASSUME StockAssumption ==
    /\ TicketTypes \cap Products = {} /\ NoGood \notin Goods
    /\ {MaxTotal, MaxGoods} \subseteq Nat

VARIABLES
    good,           \* a row: its status and units; quantityTotal, quantitySold and
                    \* replacementReserved of a TicketType; the total of a
                    \* Product is its stockQuantity
    stockEdit,      \* what an edit does, and the row it read
    strayed,        \* rows written by an edit after they changed since it read them
    off             \* rows deactivated and not activated since

stockVars == <<good, stockEdit, strayed, off>>

TicketTypeStatuses == {"NONE", "ACTIVE", "INACTIVE", "SOLD_OUT"}
ProductStatuses    == {"NONE", "ACTIVE", "INACTIVE", "OUT_OF_STOCK"}
StockOps           == {"idle", "total", "activate", "deactivate", "delete"}

NoRow  == [status |-> "NONE", total |-> 0, sold |-> 0, held |-> 0]
NoEdit == [op |-> "idle", of |-> NoGood, saw |-> NoRow]

Exists(g)  == good[g].status # "NONE"
\* The units of a ticket type or of a product that nobody bought.
FreeOf(g, row) == IF g \in TicketTypes THEN row.total - row.sold - row.held ELSE row.total

StockInit ==
    /\ good = [g \in Goods |-> NoRow]
    /\ stockEdit = [e \in StockEditors |-> NoEdit]
    /\ strayed = {} /\ off = {}

-----------------------------------------------------------------------------
(* Statuses.                                                               *)

\* resolveProductStatus.
ProductStatus(stock) == IF stock > 0 THEN "ACTIVE" ELSE "OUT_OF_STOCK"

\* Bug: an edit of the units puts on sale again what was withdrawn.
StatusWithUnits(g, row) ==
    IF g \in Products THEN ProductStatus(row.total)
    ELSE IF row.total <= row.sold + row.held THEN "SOLD_OUT" ELSE "ACTIVE"

\* The status an edit of the units gives.
StatusWithTotal(g, row) ==
    IF row.status = "INACTIVE" THEN "INACTIVE"
    ELSE IF g \in Products THEN ProductStatus(row.total)
    ELSE IF row.total <= row.sold + row.held THEN "SOLD_OUT" ELSE "ACTIVE"

\* The status an activation gives: what is held for replacements is not counted.
StatusActivated(g, row) ==
    IF g \in Products THEN ProductStatus(row.total)
    ELSE IF row.total > 0 /\ row.sold >= row.total THEN "SOLD_OUT" ELSE "ACTIVE"

\* A ticket type keeps what was sold and what is held for replacements.
Covers(g, row, n) == g \in TicketTypes => n >= row.sold + row.held

\* Bug: the database checks what was sold and forgets what is held.
KeptSold(g, new) ==
    LET row == good[g] IN
    g \in TicketTypes => new.total >= new.sold /\ (row.held > 0 => new.status = row.status)

\* Bug: a ticket type with units held may be withdrawn.
KeptUnits(g, new) == g \in TicketTypes => new.total >= new.sold + new.held

\* What the database admits of a write: it checks the units again, and while
\* units are held for a replacement a trigger keeps the offer as it is.
Admitted(g, new) ==
    LET row == good[g] IN
    g \in TicketTypes => /\ new.total >= new.sold + new.held
                         /\ row.held > 0 => new.status = row.status

-----------------------------------------------------------------------------
(* Actions.                                                                *)

CreateGood(g, n) ==
    /\ ~Exists(g) /\ g \notin strayed /\ Cardinality({h \in Goods : Exists(h)}) < MaxGoods
    /\ good' = [good EXCEPT ![g] = [NoRow EXCEPT !.total = n,
                    !.status = IF g \in Products THEN ProductStatus(n) ELSE "ACTIVE"]]
    /\ UNCHANGED <<stockEdit, strayed, off>>

\* findTicketTypeOrFail, findProductOrFail; a ticket type is deleted unsold.
BeginStockEdit(e, g, op) ==
    /\ stockEdit[e].op = "idle" /\ Exists(g)
    /\ op = "delete" /\ g \in TicketTypes => good[g].sold = 0
    /\ stockEdit' = [stockEdit EXCEPT ![e] = [op |-> op, of |-> g, saw |-> good[g]]]
    /\ UNCHANGED <<good, strayed, off>>

\* Only the columns that the edit names are written, from the row as it was read.
CommitStockEdit(e) ==
    LET edit == stockEdit[e]
        g == edit.of
        row == good[g]
        Put(new) == good' = [good EXCEPT ![g] = IF Admitted(g, new) THEN new ELSE row] IN
    /\ edit.op # "idle"
    /\ stockEdit' = [stockEdit EXCEPT ![e] = NoEdit]
    /\ strayed' = IF Exists(g) /\ row # edit.saw THEN strayed \cup {g} ELSE strayed
    /\ \/ ~Exists(g) /\ UNCHANGED <<good, off>>
       \/ /\ Exists(g) /\ edit.op = "total" /\ off' = off
          /\ \E n \in 0..MaxTotal :
                 /\ Covers(g, edit.saw, n)
                 /\ Put([row EXCEPT !.total = n,
                                    !.status = StatusWithTotal(g, [edit.saw EXCEPT !.total = n])])
       \/ /\ Exists(g) /\ edit.op = "activate"
          /\ Put([row EXCEPT !.status = StatusActivated(g, edit.saw)])
          /\ off' = off \ {g}
       \/ /\ Exists(g) /\ edit.op = "deactivate"
          /\ Put([row EXCEPT !.status = "INACTIVE"])
          /\ off' = IF good'[g].status = "INACTIVE" THEN off \cup {g} ELSE off
       \* The tickets issued keep their type from being deleted.
       \/ /\ Exists(g) /\ edit.op = "delete"
          /\ Put(IF g \in TicketTypes /\ row.sold > 0 THEN row ELSE NoRow)
          /\ off' = IF good'[g].status # "NONE" THEN off ELSE off \ {g}

\* A paid order takes a unit (confirmOrderReservations).
SellUnit(g) ==
    /\ Exists(g) /\ FreeOf(g, good[g]) >= 1
    /\ good' = IF g \in TicketTypes THEN [good EXCEPT ![g].sold = @ + 1]
               ELSE [good EXCEPT ![g].total = @ - 1]
    /\ UNCHANGED <<stockEdit, strayed, off>>

\* Replacements of a cancelled event hold units, which are then sold or freed.
HoldUnit(g) ==
    /\ g \in TicketTypes /\ good[g].status = "ACTIVE" /\ FreeOf(g, good[g]) >= 1
    /\ good' = [good EXCEPT ![g].held = @ + 1]
    /\ UNCHANGED <<stockEdit, strayed, off>>

SettleUnit(g) ==
    /\ good[g].held > 0
    /\ good' = [good EXCEPT ![g].held = @ - 1, ![g].sold = @ + 1]
    /\ UNCHANGED <<stockEdit, strayed, off>>

FreeUnit(g) ==
    /\ good[g].held > 0
    /\ good' = [good EXCEPT ![g].held = @ - 1]
    /\ UNCHANGED <<stockEdit, strayed, off>>

StockNext ==
    \/ \E g \in Goods :
           \/ \E n \in 0..MaxTotal : CreateGood(g, n)
           \/ SellUnit(g) \/ HoldUnit(g) \/ SettleUnit(g) \/ FreeUnit(g)
    \/ \E e \in StockEditors :
           \/ \E g \in Goods, op \in StockOps \ {"idle"} : BeginStockEdit(e, g, op)
           \/ CommitStockEdit(e)

StockSpec == StockInit /\ [][StockNext]_stockVars

-----------------------------------------------------------------------------
(* Properties.                                                             *)

StockTypeOK == \A g \in Goods :
    /\ good[g].status \in IF g \in TicketTypes THEN TicketTypeStatuses ELSE ProductStatuses
    /\ good[g].total \in 0..MaxTotal /\ good[g].sold \in Nat

\* No edit takes away an entry that was sold or is held for a replacement, even
\* one that decided before the entry was sold.
NothingSoldIsLost == \A g \in TicketTypes : Exists(g) => FreeOf(g, good[g]) >= 0

\* While units are held for the buyers of a cancelled event, the offer they were
\* promised stays on sale as it was.
PromisedStays == \A g \in TicketTypes : good[g].held > 0 => good[g].status = "ACTIVE"

\* What was withdrawn from sale stays withdrawn until it is activated, whatever
\* else is edited, unless it was withdrawn under an edit.
WithdrawnStays == \A g \in off \ strayed : good[g].status = "INACTIVE"

\* A product that is shown out of stock has none.
OutIsOut == \A g \in Products \ strayed : good[g].status = "OUT_OF_STOCK" => good[g].total = 0

\* An entry that was sold is never deleted, even when it was sold under the edit.
SoldStays == \A g \in TicketTypes : good[g].sold > 0 => Exists(g)

StockInv == StockTypeOK /\ NothingSoldIsLost /\ PromisedStays /\ WithdrawnStays /\ OutIsOut /\ SoldStays
=============================================================================
