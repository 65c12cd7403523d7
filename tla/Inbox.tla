--------------------------------- MODULE Inbox ---------------------------------
(***************************************************************************)
(* The inbox of one user: notices that arrive, are read, and are listed    *)
(* page by page from the newest to the oldest while others arrive and are  *)
(* read.  NotificationService.list, markRead and markAllRead.              *)
(*                                                                         *)
(* A notice is its place in the order of createdAt and id.  Its row has    *)
(* the time at which its transaction began, so it may appear after newer   *)
(* ones.  The cursor of a page is the place of its last notice, with the   *)
(* audience it was listed for: list refuses it with another.               *)
(***************************************************************************)
EXTENDS Integers, FiniteSets

CONSTANTS
    MaxNotices,     \* bound on the notices
    AudienceOf,     \* AudienceOf[n]: "CUSTOMER" or "OPERATIONS"
    Lists,          \* devices that list the inbox
    PageLimit

Notices   == 1..MaxNotices
Audiences == {"CUSTOMER", "OPERATIONS"}
Filters   == {"all", "unread", "read"}

ASSUME InboxAssumption ==
    /\ MaxNotices \in Nat
    /\ AudienceOf \in [Notices -> Audiences]
    /\ PageLimit \in Nat \ {0}

VARIABLES
    arrived,        \* notices whose delivery IN_APP is SENT
    read,           \* notices with a readAt
    listing            \* what a device has listed, and where it is

inboxListVars == <<arrived, read, listing>>

\* The place before all of them, where a listing begins.
Newest == MaxNotices + 1

NoListing == [filter |-> "all", audiences |-> Audiences, cursor |-> Newest, more |-> FALSE,
           start |-> {}, shown |-> {}, twice |-> {}]

\* What the query of the list selects, whatever the cursor.
Selected(filter, audiences) ==
    {n \in arrived : /\ AudienceOf[n] \in audiences
                     /\ filter = "unread" => n \notin read
                     /\ filter = "read" => n \in read}

InboxInit ==
    /\ arrived = {}
    /\ read = {}
    /\ listing = [w \in Lists |-> NoListing]

Arrive(n) ==
    /\ n \notin arrived
    /\ arrived' = arrived \cup {n}
    /\ UNCHANGED <<read, listing>>

\* markRead: a notice of the user that has no readAt.
MarkRead(n) ==
    /\ n \in arrived \ read
    /\ read' = read \cup {n}
    /\ UNCHANGED <<arrived, listing>>

\* markAllRead, of one audience or of both.
MarkAllRead(audiences) ==
    /\ read' = read \cup {n \in arrived : AudienceOf[n] \in audiences}
    /\ UNCHANGED <<arrived, listing>>

\* A device lists from the newest on; "start" is what there is to list by then.
BeginList(w, filter, audiences) ==
    /\ listing' = [listing EXCEPT ![w] = [NoListing EXCEPT !.filter = filter, !.audiences = audiences,
                                        !.more = TRUE, !.start = Selected(filter, audiences)]]
    /\ UNCHANGED <<arrived, read>>

\* The first "limit" of S, from the newest on.
PageOf(S) == {n \in S : Cardinality({m \in S : m > n}) < PageLimit}
IsLast(n, page) == n \in page /\ \A m \in page : n <= m

\* list: one more row than the page has tells whether there are more, and the
\* last row of the page is the cursor of the next.
NextPage(w) ==
    LET rest == {n \in Selected(listing[w].filter, listing[w].audiences) : n < listing[w].cursor}
        page == PageOf(rest) IN
    /\ listing[w].more
    /\ \E cursor \in Notices \cup {0} :
           /\ IF rest # page THEN IsLast(cursor, page) ELSE cursor = 0
           /\ listing' = [listing EXCEPT ![w].cursor = cursor, ![w].more = rest # page,
                                   ![w].shown = @ \cup page,
                                   ![w].twice = @ \cup (page \cap listing[w].shown)]
    /\ UNCHANGED <<arrived, read>>

InboxNext ==
    \/ \E n \in Notices : Arrive(n) \/ MarkRead(n)
    \/ \E audiences \in (SUBSET Audiences) \ {{}} : MarkAllRead(audiences)
    \/ \E w \in Lists :
           \/ \E filter \in Filters, audiences \in (SUBSET Audiences) \ {{}} :
                  BeginList(w, filter, audiences)
           \/ NextPage(w)

InboxSpec == InboxInit /\ [][InboxNext]_inboxListVars

-----------------------------------------------------------------------------
(* Properties.                                                             *)

InboxTypeOK ==
    /\ arrived \subseteq Notices
    /\ read \subseteq arrived
    /\ listing \in [Lists -> [filter : Filters, audiences : SUBSET Audiences, cursor : 0..Newest,
                           more : BOOLEAN, start : SUBSET Notices, shown : SUBSET Notices,
                           twice : SUBSET Notices]]

\* A device that lists page after page is shown every notice there was when it
\* began and that the filter still selects, down to its cursor; it is shown
\* none twice and none of another audience, whatever arrives or is read
\* meanwhile (list, markRead, markAllRead).
ListShowsAll ==
    \A w \in Lists :
        /\ \A n \in listing[w].start \cap Selected(listing[w].filter, listing[w].audiences) :
               n >= listing[w].cursor => n \in listing[w].shown
        /\ listing[w].twice = {}
        /\ \A n \in listing[w].shown : n \in arrived /\ AudienceOf[n] \in listing[w].audiences

InboxInv == InboxTypeOK /\ ListShowsAll
=============================================================================
