------------------------------ MODULE EventDates ------------------------------
(***************************************************************************)
(* The dates and the image of an event, edited by several managers while   *)
(* it is sold, and the window of each ticket, which a rescheduling shifts. *)
(* EventsService.createEvent, updateEvent, postponeEvent and               *)
(* rescheduleEvent; what CommerceService does at checkout and approval.    *)
(*                                                                         *)
(* updateEvent reads the event for the dates it is not given, reads it     *)
(* again for its updatedAt and image, and then locks it: three steps.  The *)
(* others are one transaction that locks the row.  The capacity of an edit *)
(* is in Redemption, cancelled events are in EventResolution.              *)
(*                                                                         *)
(* A definition under "Bug:" is used by no other: it takes the place of    *)
(* the one after it to show that a property notices the bug.               *)
(***************************************************************************)
EXTENDS Integers, FiniteSets

CONSTANTS
    Managers,       \* edits being served
    Guests,         \* buyers of one ticket each
    Images,         \* uploads an edit may bring; each is consumed once
    NoImage,        \* imageUrl is null; an edit with it is one with removeImage
    Keep,           \* an edit that brings no image and removes none
    LastHour,       \* bound on dates and on the clock
    MaxVersions     \* bound on the updates of the event

ASSUME EventDatesAssumption ==
    /\ {NoImage, Keep} \cap Images = {} /\ NoImage # Keep
    /\ LastHour \in Nat /\ MaxVersions \in Nat \ {0}

VARIABLES
    night,          \* the Event row: dates, status, image; version is its updatedAt
    edit,           \* an edit being served
    pictures,       \* images consumed so far, and those queued for deletion
    purchase,       \* Order.status of a guest's order
    window,         \* validFrom and validUntil of a guest's ticket
    knows,          \* the dates a guest bought or was notified of
    revived,        \* guests whose order was closed while the dates changed
    now

eventDatesVars == <<night, edit, pictures, purchase, window, knows, revived, now>>

Hours == 0..LastHour
Least(a, b) == IF a < b THEN a ELSE b

Dates   == [starts : Hours, ends : Hours]
NoDates == [starts |-> 0, ends |-> 0]
DatesOf(x) == [starts |-> x.starts, ends |-> x.ends]

NoNight  == [status |-> "NONE", starts |-> 0, ends |-> 0, image |-> NoImage, version |-> 0]
NotEditing == [step |-> "idle", redated |-> FALSE, dates |-> NoDates, image |-> Keep,
               version |-> 0, saw |-> NoImage]

\* parseEventDates.
Parses(d) == d.ends > d.starts

\* Bug: only the tickets issued are looked at.
TicketsOnly(g) == purchase[g] = "PAID"

\* hasCommercialHistory: an order item of the event is found whatever became of its order.
BoughtBy(g) == purchase[g] # "none"

HasCommercialHistory == \E g \in Guests : BoughtBy(g)

EventDatesInit ==
    /\ night = NoNight
    /\ edit = [m \in Managers |-> NotEditing]
    /\ pictures = [used |-> {}, queued |-> {}]
    /\ purchase = [g \in Guests |-> "none"]
    /\ window = [g \in Guests |-> NoDates]
    /\ knows = [g \in Guests |-> NoDates]
    /\ revived = {}
    /\ now = 0

-----------------------------------------------------------------------------
(* Creation and edits.                                                     *)

FreeImages == Images \ pictures.used

PurchasesRest == UNCHANGED <<purchase, window, knows, revived, now>>

\* Every update of the row advances its updatedAt.
WriteNight(status, d, image) ==
    /\ night.version < MaxVersions
    /\ night' = [status |-> status, starts |-> d.starts, ends |-> d.ends, image |-> image,
                 version |-> night.version + 1]

CreateNight ==
    /\ night.status = "NONE"
    /\ \E d \in Dates, i \in FreeImages \cup {NoImage} :
        /\ Parses(d)
        /\ WriteNight("DRAFT", d, i)
        /\ pictures' = [pictures EXCEPT !.used = @ \cup ({i} \ {NoImage})]
    /\ UNCHANGED edit /\ PurchasesRest

\* The dates the edit is not given are those of the event at its first read.
BeginEdit(m) ==
    /\ edit[m].step = "idle" /\ night.status # "NONE"
    /\ \E s \in Hours \cup {-1}, t \in Hours \cup {-1},
         i \in FreeImages \cup {NoImage, Keep} :
        LET d == [starts |-> IF s < 0 THEN night.starts ELSE s,
                  ends   |-> IF t < 0 THEN night.ends ELSE t]
            redated == s >= 0 \/ t >= 0 IN
        /\ redated => Parses(d)
        /\ edit' = [edit EXCEPT ![m] =
                       [step |-> "read", redated |-> redated, image |-> i,
                        dates |-> IF redated THEN d ELSE NoDates, version |-> 0, saw |-> NoImage]]
    /\ UNCHANGED <<night, pictures>> /\ PurchasesRest

ReadAgain(m) ==
    /\ edit[m].step = "read"
    /\ edit' = [edit EXCEPT ![m].step = "locking", ![m].version = night.version,
                            ![m].saw = night.image]
    /\ UNCHANGED <<night, pictures>> /\ PurchasesRest

\* Bug: the edit is written whatever happened to the event since it was read.
AnyVersion(m) == TRUE

\* EVENT_CHANGED otherwise.
Unchanged(m) == night.version = edit[m].version

\* EVENT_REPROGRAMMING_REQUIRED otherwise.
MayRedate(m) == edit[m].redated /\ edit[m].dates # DatesOf(night) => ~HasCommercialHistory

\* consumeUpload refuses an upload that another edit consumed.
CommitEdit(m) ==
    /\ edit[m].step = "locking" /\ Unchanged(m) /\ MayRedate(m)
    /\ edit[m].image \notin pictures.used
    /\ LET d == IF edit[m].redated THEN edit[m].dates ELSE DatesOf(night) IN
       /\ WriteNight(night.status, d, IF edit[m].image = Keep THEN night.image ELSE edit[m].image)
       /\ pictures' = IF edit[m].image = Keep THEN pictures
                      ELSE [used   |-> pictures.used \cup ({edit[m].image} \ {NoImage}),
                            queued |-> pictures.queued \cup ({edit[m].saw} \ {NoImage})]
    /\ edit' = [edit EXCEPT ![m] = NotEditing]
    /\ PurchasesRest

EditFails(m) ==
    /\ edit[m].step = "locking"
    /\ ~Unchanged(m) \/ ~MayRedate(m) \/ edit[m].image \in pictures.used
    /\ edit' = [edit EXCEPT ![m] = NotEditing]
    /\ UNCHANGED <<night, pictures>> /\ PurchasesRest

-----------------------------------------------------------------------------
(* The life of the event.                                                  *)

PutOnSale ==
    /\ night.status \in {"DRAFT", "PUBLISHED"} /\ night.ends > now
    /\ WriteNight("SALE_ACTIVE", night, night.image)
    /\ UNCHANGED <<edit, pictures>> /\ PurchasesRest

PostponeNight ==
    /\ night.status \in {"PUBLISHED", "SALE_ACTIVE"} /\ night.ends > now
    /\ WriteNight("POSTPONED", night, night.image)
    /\ UNCHANGED <<edit, pictures>> /\ PurchasesRest

\* Bug: the end of a ticket is only shifted.
ShiftedBy(w, delta, d) ==
    [starts |-> Least(w.starts + delta, d.ends), ends |-> w.ends + delta]

\* A window moves with the start of the event and never outlasts it.
Shifted(w, delta, d) ==
    [starts |-> Least(w.starts + delta, d.ends), ends |-> Least(w.ends + delta, d.ends)]

\* notifyEventBuyers reaches the orders that may still be paid or are, and the tickets.
Reached(g) == purchase[g] \in {"PENDING", "PAID"}

RescheduleNight ==
    /\ night.status = "POSTPONED"
    /\ \E d \in Dates :
        /\ Parses(d) /\ d.starts > now
        /\ WriteNight("PUBLISHED", d, night.image)
        /\ window' = [g \in Guests |-> IF purchase[g] # "PAID" THEN window[g]
                                       ELSE Shifted(window[g], d.starts - night.starts, d)]
        /\ knows' = [g \in Guests |-> IF Reached(g) THEN d ELSE knows[g]]
    /\ revived' = revived \cup {g \in Guests : purchase[g] = "CLOSED"}
    /\ UNCHANGED <<edit, pictures, purchase, now>>

-----------------------------------------------------------------------------
(* Purchases.                                                              *)

BuyTicket(g) ==
    /\ purchase[g] = "none" /\ night.status = "SALE_ACTIVE" /\ night.ends > now
    /\ purchase' = [purchase EXCEPT ![g] = "PENDING"]
    /\ knows' = [knows EXCEPT ![g] = DatesOf(night)]
    /\ UNCHANGED <<night, edit, pictures, window, revived, now>>

\* The order expires, is cancelled or its payment is refused.
CloseOrder(g) ==
    /\ purchase[g] = "PENDING"
    /\ purchase' = [purchase EXCEPT ![g] = "CLOSED"]
    /\ UNCHANGED <<night, edit, pictures, window, knows, revived, now>>

\* Also an approval that comes after the order was closed: the ticket takes the dates
\* of the event as it is then.
ApprovePurchase(g) ==
    /\ purchase[g] \in {"PENDING", "CLOSED"}
    /\ purchase' = [purchase EXCEPT ![g] = "PAID"]
    /\ window' = [window EXCEPT ![g] = DatesOf(night)]
    /\ UNCHANGED <<night, edit, pictures, knows, revived, now>>

HourPasses ==
    /\ now < LastHour /\ now' = now + 1
    /\ UNCHANGED <<night, edit, pictures, purchase, window, knows, revived>>

EventDatesNext ==
    \/ CreateNight \/ PutOnSale \/ PostponeNight \/ RescheduleNight \/ HourPasses
    \/ \E m \in Managers : BeginEdit(m) \/ ReadAgain(m) \/ CommitEdit(m) \/ EditFails(m)
    \/ \E g \in Guests : BuyTicket(g) \/ CloseOrder(g) \/ ApprovePurchase(g)

EventDatesSpec == EventDatesInit /\ [][EventDatesNext]_eventDatesVars

-----------------------------------------------------------------------------
(* Properties.                                                             *)

EventDatesTypeOK ==
    /\ night \in [status : {"NONE", "DRAFT", "PUBLISHED", "SALE_ACTIVE", "POSTPONED"},
                  starts : Hours, ends : Hours, image : Images \cup {NoImage},
                  version : 0..MaxVersions]
    /\ edit \in [Managers -> [step : {"idle", "read", "locking"}, redated : BOOLEAN,
                     dates : Dates, image : Images \cup {NoImage, Keep},
                     version : 0..MaxVersions, saw : Images \cup {NoImage}]]
    /\ pictures \in [used : SUBSET Images, queued : SUBSET Images]
    /\ purchase \in [Guests -> {"none", "PENDING", "CLOSED", "PAID"}]
    /\ window \in [Guests -> Dates] /\ knows \in [Guests -> Dates]
    /\ revived \subseteq Guests /\ now \in Hours

\* A ticket opens with its event and closes no later than it, however often the event is
\* rescheduled and however late the payment was approved.
TicketsFollowTheEvent ==
    \A g \in Guests : purchase[g] = "PAID" =>
        /\ window[g].starts = night.starts
        /\ window[g].starts < window[g].ends /\ window[g].ends <= night.ends

\* A buyer bought the present dates or was notified of them: no edit moves an event with
\* purchases, even one that is committed while the order is made.  (An order that was
\* closed at a rescheduling and is approved later was not notified.)
BuyersKnowTheDates ==
    \A g \in Guests : purchase[g] \in {"PENDING", "PAID"} /\ g \notin revived =>
        knows[g] = DatesOf(night)

\* Of the images an event was given, the last is its image and all others are queued
\* for deletion, whichever edits overlap.
ImagesAreAccounted == pictures.used = pictures.queued \cup ({night.image} \ {NoImage})
                      /\ night.image \notin pictures.queued

\* The invariant of the dates of an event, under concurrent edits.
EventDatesInv == EventDatesTypeOK /\ TicketsFollowTheEvent /\ BuyersKnowTheDates /\ ImagesAreAccounted
=============================================================================
