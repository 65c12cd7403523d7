------------------------------- MODULE Discovery -------------------------------
(***************************************************************************)
(* What customers are shown and what they can buy.  ClubsService ranks the *)
(* clubs and the events for its home, continues them page by page with a   *)
(* cursor, and lists everything by page number; the event's page, the cart *)
(* and the checkout (CommerceService) each decide again what is available. *)
(* Every page is computed from the database as it is by then.              *)
(*                                                                         *)
(* A definition under "Bug:" is used by no other: it takes the place of    *)
(* the one after it to show that a property notices the bug.               *)
(***************************************************************************)
EXTENDS Integers, FiniteSets, FiniteSetsExt, Sequences, SequencesExt

CONSTANTS
    Clubs,
    ShopEvents,
    ShopTickets,    \* ticket types, each of an event
    ClubOf,         \* the club of each event
    ShopEventOf,    \* the event of each ticket type
    StartsAt, EndsAt,       \* of each event
    SaleFrom, SaleUntil,    \* of each ticket type
    TokenUntil,     \* when the tokens of a club's seller expire
    Listed,         \* an order of the clubs and events: their names and ids
    StatusAtFirst,  \* of each event
    Schedules,      \* what the schedule of a club may be: on each day, whether it
                    \* opens, from when and until when
    PageSize,
    CursorLife,     \* how long a cursor may be used
    MaxHour,        \* bound on the clock, whose unit is a quarter of a day
    MaxChanges      \* bound on the changes of what is shown

EventStatuses == {"DRAFT", "PUBLISHED", "SALE_ACTIVE", "SOLD_OUT", "IN_PROGRESS", "POSTPONED",
                  "CANCELLED", "FINISHED"}

\* The hours of a club on one day.
DayLength == 4
Openings  == [opens : BOOLEAN, from : 0..(DayLength - 1), until : 0..(DayLength - 1)]

ASSUME DiscoveryAssumption ==
    /\ IsFiniteSet(Clubs) /\ IsFiniteSet(ShopEvents) /\ IsFiniteSet(ShopTickets)
    /\ ClubOf \in [ShopEvents -> Clubs] /\ ShopEventOf \in [ShopTickets -> ShopEvents]
    /\ \A e \in ShopEvents : {StartsAt[e], EndsAt[e]} \subseteq Nat /\ StartsAt[e] < EndsAt[e]
    /\ \A t \in ShopTickets : {SaleFrom[t], SaleUntil[t]} \subseteq Nat
    /\ \A c \in Clubs : TokenUntil[c] \in Nat
    /\ \A x \in Clubs \cup ShopEvents : Listed[x] \in Nat
    /\ \A S \in {Clubs, ShopEvents} : \A x, y \in S : Listed[x] = Listed[y] => x = y
    /\ StatusAtFirst \in [ShopEvents -> EventStatuses]
    /\ Schedules \subseteq [0..6 -> Openings]
    /\ {PageSize, CursorLife, MaxHour, MaxChanges} \subseteq Nat /\ PageSize > 0

VARIABLES
    hour,
    club,           \* active, connected, whether it offers promotions, schedule
    shopEvent,      \* Event.status
    ticket,         \* status, units neither sold nor held, units reserved
    changes,
    walk,           \* a customer who reads a catalog with its cursor
    pages           \* a customer who reads the events by page number

discoveryVars == <<hour, club, shopEvent, ticket, changes, walk, pages>>

\* VISIBLE_EVENT_STATUSES, CUSTOMER_VISIBLE_EVENT_STATUSES.
VisibleStatuses == {"PUBLISHED", "SALE_ACTIVE", "SOLD_OUT", "IN_PROGRESS"}
StatusSteps == {<<"PUBLISHED", "SALE_ACTIVE">>, <<"SALE_ACTIVE", "POSTPONED">>,
                <<"SALE_ACTIVE", "CANCELLED">>, <<"POSTPONED", "PUBLISHED">>}

NoWalk  == [step |-> "none", category |-> "events", asOf |-> 0, shown |-> <<>>, calm |-> TRUE]
NoPages == [step |-> "none", since |-> 0, number |-> 0, shown |-> <<>>, calm |-> TRUE]

DiscoveryInit ==
    /\ hour = 0 /\ changes = 0
    /\ club \in [Clubs -> {[active |-> TRUE, connected |-> TRUE, offer |-> FALSE, schedule |-> s] :
                               s \in Schedules}]
    /\ shopEvent = StatusAtFirst
    /\ ticket = [t \in ShopTickets |-> [status |-> "ACTIVE", left |-> 1, reserved |-> 0]]
    /\ walk = NoWalk /\ pages = NoPages

-----------------------------------------------------------------------------
(* The hours of a club.                                                    *)

DayOf(h)  == (h \div DayLength) % 7

\* isOpenWithinEntry: a night that ends the next day is open until midnight.
OpenWithin(entry, time) ==
    entry.opens /\ time >= entry.from /\ (entry.until > entry.from => time < entry.until)

\* isOpenFromPreviousEntry: what is left of it after midnight.
OpenFromPrevious(entry, time) ==
    entry.opens /\ entry.until <= entry.from /\ time < entry.until

\* Bug: a night that began yesterday is not remembered.
OpenToday(schedule, h) == OpenWithin(schedule[DayOf(h)], h % DayLength)

\* isClubOpenNow.
OpenNow(schedule, h) ==
    \/ OpenWithin(schedule[DayOf(h)], h % DayLength)
    \/ OpenFromPrevious(schedule[(DayOf(h) + 6) % 7], h % DayLength)

\* homeNightWindow, whose night changes at six in the morning.
Night(h) ==
    LET day == IF h % DayLength < 1 THEN h \div DayLength - 1 ELSE h \div DayLength IN
    [start |-> day * DayLength + 3, end |-> (day + 1) * DayLength + 1]

\* eventHomeGroup: under way, tonight, later.
EventGroup(e, h) ==
    IF StartsAt[e] <= h /\ EndsAt[e] > h THEN 0
    ELSE IF StartsAt[e] < Night(h).end /\ EndsAt[e] > Night(h).start THEN 1
    ELSE 2

-----------------------------------------------------------------------------
(* What is available.                                                      *)

\* paymentReadyClubWhere.
Ready(c, h)       == club[c].active /\ club[c].connected /\ TokenUntil[c] > h
Visible(e, h)     == shopEvent[e] \in VisibleStatuses /\ EndsAt[e] > h
AllowsSales(e, h) == shopEvent[e] \in {"SALE_ACTIVE", "IN_PROGRESS"} /\ EndsAt[e] > h
OnSaleAt(t, h)    == SaleFrom[t] <= h /\ SaleUntil[t] > h
Remaining(t)      == Max({ticket[t].left - ticket[t].reserved, 0})
TicketsOf(e)      == {t \in ShopTickets : ShopEventOf[t] = e}

\* homeEventAvailability.
Availability(e, h) ==
    LET active == {t \in TicketsOf(e) : ticket[t].status = "ACTIVE"}
        stocked == MapThenSumSet(LAMBDA t : Max({ticket[t].left, 0}), active)
        sellable == {t \in active : AllowsSales(e, h) /\ OnSaleAt(t, h) /\ Remaining(t) > 0}
        units == MapThenSumSet(Remaining, sellable) IN
    [units |-> units,
     access |-> IF shopEvent[e] = "SOLD_OUT" \/ (active # {} /\ stocked = 0) THEN "SOLD_OUT"
                ELSE IF TicketsOf(e) = {} THEN "INFORMATIONAL"
                ELSE IF units > 0 THEN "AVAILABLE"
                ELSE "UNAVAILABLE"]

AccessRank(e, h) == CASE Availability(e, h).access = "SOLD_OUT" -> 2
                      [] Availability(e, h).access = "UNAVAILABLE" -> 1
                      [] OTHER -> 0

\* The event's page: quantityAvailable.
DetailUnits(t) == Remaining(t)

\* resolveCartSource: the units of a ticket type that the cart takes.
CartUnits(t, h) ==
    LET e == ShopEventOf[t] IN
    IF /\ club[ClubOf[e]].active /\ club[ClubOf[e]].connected /\ TokenUntil[ClubOf[e]] > h
       /\ AllowsSales(e, h) /\ ticket[t].status = "ACTIVE" /\ OnSaleAt(t, h)
    THEN Remaining(t) ELSE 0

\* checkout, paid through the seller of the club: lines of a ticket type.
CheckoutTakes(t, n, h) ==
    LET e == ShopEventOf[t] IN
    /\ Ready(ClubOf[e], h) /\ AllowsSales(e, h) /\ ticket[t].status = "ACTIVE" /\ OnSaleAt(t, h)
    /\ ticket[t].left - ticket[t].reserved >= n

-----------------------------------------------------------------------------
(* The catalogs, as of an hour.                                            *)

\* The first of two sequences of numbers in the order of their first difference.
Before(a, b) == \E i \in DOMAIN a : a[i] < b[i] /\ \A j \in 1..(i - 1) : a[j] = b[j]

\* The elements of a set in the order of their keys, each at its place.
InOrder(S, key) ==
    LET place == [x \in S |-> Cardinality({y \in S : Before(key[y], key[x])}) + 1] IN
    [n \in 1..Cardinality(S) |-> CHOOSE x \in S : place[x] = n]

RankedEvents(h) ==
    InOrder({e \in ShopEvents : Ready(ClubOf[e], h) /\ Visible(e, h)},
            [e \in ShopEvents |-> <<EventGroup(e, h), AccessRank(e, h), StartsAt[e], Listed[e]>>])

\* Events in the order in which they start.
ByStart(S) == InOrder(S, [e \in ShopEvents |-> <<StartsAt[e], Listed[e]>>])

PostponedEvents(h) == ByStart({e \in ShopEvents : Ready(ClubOf[e], h) /\ shopEvent[e] = "POSTPONED"})

ClubEvents(c, h)   == {e \in ShopEvents : ClubOf[e] = c /\ Visible(e, h)}
HasContent(c, h)   == \/ ClubEvents(c, h) # {} \/ club[c].offer
                      \/ \E e \in ShopEvents : ClubOf[e] = c /\ shopEvent[e] = "POSTPONED"

ClubGroup(c, h) ==
    IF ~Ready(c, h) THEN 4
    ELSE IF \E e \in ClubEvents(c, h) : EventGroup(e, h) < 2 THEN 0
    ELSE IF OpenNow(club[c].schedule, h) /\ club[c].offer THEN 1
    ELSE IF HasContent(c, h) THEN 2
    ELSE 3

RankedClubs(h) ==
    InOrder({c \in Clubs : club[c].active}, [c \in Clubs |-> <<ClubGroup(c, h), Listed[c]>>])

Catalog(category, h) ==
    IF category = "clubs" THEN RankedClubs(h) ELSE RankedEvents(h) \o PostponedEvents(h)

\* Why a club shows nothing: on the home, and on its own page.
HomeEmptyReason(c, h) ==
    IF ~Ready(c, h) THEN "PAYMENTS_UNAVAILABLE"
    ELSE IF HasContent(c, h) THEN "none"
    ELSE "NO_EVENTS_OR_OFFERS"
PageEmptyReason(c, h) ==
    IF ~Ready(c, h) THEN "PAYMENTS_UNAVAILABLE"
    ELSE IF ClubEvents(c, h) = {} /\ ~club[c].offer THEN "NO_EVENTS_OR_OFFERS"
    ELSE "none"

-----------------------------------------------------------------------------
(* A customer who reads.                                                   *)

\* The page that begins after an element, and whether it is the last.
PageFrom(list, from) == SubSeq(list, from + 1, Min({from + PageSize, Len(list)}))

Browse(category) ==
    LET list == Catalog(category, hour) IN
    /\ walk.step = "none"
    /\ walk' = [step |-> IF Len(list) > PageSize THEN "more" ELSE "end", category |-> category,
                asOf |-> hour, shown |-> PageFrom(list, 0), calm |-> TRUE]
    /\ UNCHANGED <<hour, club, shopEvent, ticket, changes, pages>>

\* Bug: a page is classified when it is asked for, not as of the first.
AsOfNow(w) == hour

\* The cursor fixes the hour of classification.
AsOf(w) == w.asOf

NextOfWalk ==
    LET list == Catalog(walk.category, AsOf(walk))
        from == SelectInSeq(list, LAMBDA x : x = Last(walk.shown)) IN
    /\ walk.step = "more"
    /\ walk' = IF hour - walk.asOf > CursorLife \/ from = 0
               THEN [walk EXCEPT !.step = "refused"]
               ELSE [walk EXCEPT !.shown = @ \o PageFrom(list, from),
                                 !.step = IF from + PageSize < Len(list) THEN "more" ELSE "end"]
    /\ UNCHANGED <<hour, club, shopEvent, ticket, changes, pages>>

\* exploreCustomerContent, its events: ordered by when they start, by page number.
Explored(h) == ByStart({e \in ShopEvents : Ready(ClubOf[e], h) /\ Visible(e, h)})

\* Bug: the rows read to learn of a next page are shown with this one.
PageAndNext(list, from) == SubSeq(list, from + 1, Min({from + PageSize + 1, Len(list)}))

PageAt(list, from) == PageFrom(list, from)

Explore ==
    LET list == Explored(hour)
        from == pages.number * PageSize IN
    /\ pages.step \in {"none", "more"}
    /\ pages' = [pages EXCEPT !.since = IF pages.step = "none" THEN hour ELSE @,
                              !.number = @ + 1,
                              !.shown = @ \o PageAt(list, from),
                              !.step = IF Len(list) > from + PageSize THEN "more" ELSE "end"]
    /\ UNCHANGED <<hour, club, shopEvent, ticket, changes, walk>>

Leave ==
    /\ walk.step \in {"end", "refused"} \/ pages.step = "end"
    /\ walk' = IF walk.step \in {"end", "refused"} THEN NoWalk ELSE walk
    /\ pages' = IF pages.step = "end" THEN NoPages ELSE pages
    /\ UNCHANGED <<hour, club, shopEvent, ticket, changes>>

-----------------------------------------------------------------------------
(* What changes meanwhile.                                                 *)

Change ==
    /\ changes < MaxChanges /\ changes' = changes + 1
    /\ walk' = [walk EXCEPT !.calm = walk.step = "none"]
    /\ pages' = [pages EXCEPT !.calm = pages.step = "none"]
    /\ UNCHANGED hour

\* updateClub, activateClub, deactivateClub, the connection of the seller, offers.
ChangeClub(c, new) ==
    /\ Change /\ new # club[c] /\ club' = [club EXCEPT ![c] = new]
    /\ UNCHANGED <<shopEvent, ticket>>

ChangeEvent(e, status) ==
    /\ Change /\ <<shopEvent[e], status>> \in StatusSteps
    /\ shopEvent' = [shopEvent EXCEPT ![e] = status] /\ UNCHANGED <<club, ticket>>

\* A ticket type sold, sold out, withdrawn, or given fewer units than are reserved.
ChangeTicket(t, new) ==
    /\ Change /\ new # ticket[t] /\ ticket' = [ticket EXCEPT ![t] = new]
    /\ UNCHANGED <<club, shopEvent>>

Reserve(t) ==
    /\ CheckoutTakes(t, 1, hour) /\ Change
    /\ ticket' = [ticket EXCEPT ![t].reserved = @ + 1] /\ UNCHANGED <<club, shopEvent>>

PassHour ==
    /\ hour < MaxHour /\ hour' = hour + 1
    /\ UNCHANGED <<club, shopEvent, ticket, changes, walk, pages>>

DiscoveryNext ==
    \/ \E category \in {"clubs", "events"} : Browse(category)
    \/ NextOfWalk \/ Explore \/ Leave \/ PassHour
    \/ \E c \in Clubs :
           \/ \E s \in Schedules : ChangeClub(c, [club[c] EXCEPT !.schedule = s])
           \/ ChangeClub(c, [club[c] EXCEPT !.active = ~@])
           \/ ChangeClub(c, [club[c] EXCEPT !.connected = ~@])
           \/ ChangeClub(c, [club[c] EXCEPT !.offer = ~@])
    \/ \E e \in ShopEvents, status \in EventStatuses : ChangeEvent(e, status)
    \/ \E t \in ShopTickets :
           \/ \E n \in {0, 1} : ChangeTicket(t, [ticket[t] EXCEPT !.left = n])
           \/ \E s \in {"ACTIVE", "INACTIVE", "SOLD_OUT"} : ChangeTicket(t, [ticket[t] EXCEPT !.status = s])
           \/ Reserve(t)

DiscoverySpec == DiscoveryInit /\ [][DiscoveryNext]_discoveryVars

-----------------------------------------------------------------------------
(* Properties.                                                             *)

\* A club is open exactly within one of its openings, which last until the next
\* time its clock says the closing time.
OpenAsScheduled == \A c \in Clubs :
    OpenNow(club[c].schedule, hour) <=>
        \E back \in {0, 1} :
            LET day == hour \div DayLength - back
                entry == club[c].schedule[(day + 7) % 7]
                opens == day * DayLength + entry.from
                length == IF entry.until > entry.from THEN entry.until - entry.from
                          ELSE entry.until - entry.from + DayLength IN
            entry.opens /\ hour \in opens..(opens + length - 1)

\* The home, the event's page, the cart and the checkout agree: what the home
\* says can be bought is what the cart takes and the checkout accepts.
PagesAgree == \A e \in ShopEvents :
    LET home == Availability(e, hour)
        inCart == {t \in TicketsOf(e) : CartUnits(t, hour) > 0} IN
    /\ \A t \in TicketsOf(e) : \A n \in 1..2 : CheckoutTakes(t, n, hour) <=> CartUnits(t, hour) >= n
    /\ \A t \in inCart : DetailUnits(t) = CartUnits(t, hour)
    /\ Ready(ClubOf[e], hour) => /\ (home.access = "AVAILABLE") <=> inCart # {}
                                 /\ home.units = MapThenSumSet(DetailUnits, inCart)

\* The home and the club's page give one reason for showing nothing, except of a
\* club that has a postponed event, which only the home counts.
ReasonsAgree == \A c \in Clubs :
    \/ HomeEmptyReason(c, hour) = PageEmptyReason(c, hour)
    \/ \E e \in ShopEvents : ClubOf[e] = c /\ shopEvent[e] = "POSTPONED"

\* A customer who reads a catalog to its end while nothing in it is edited sees
\* all of it once and in order, although events begin and end meanwhile.
WalkIsWhole == walk.step = "end" /\ walk.calm => walk.shown = Catalog(walk.category, walk.asOf)

\* By page number that holds while, besides, no event ends.
ExploreIsWhole ==
    pages.step = "end" /\ pages.calm /\ Explored(pages.since) = Explored(hour) =>
        pages.shown = Explored(hour)

DiscoveryTypeOK ==
    /\ hour \in 0..MaxHour /\ shopEvent \in [ShopEvents -> EventStatuses]
    /\ walk.step \in {"none", "more", "end", "refused"} /\ pages.step \in {"none", "more", "end"}

DiscoveryInv ==
    /\ DiscoveryTypeOK /\ OpenAsScheduled /\ PagesAgree /\ ReasonsAgree
    /\ WalkIsWhole /\ ExploreIsWhole
=============================================================================
