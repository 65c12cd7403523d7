-------------------------- MODULE SellerConnection --------------------------
(***************************************************************************)
(* The connection of a club's Mercado Pago account: the OAuth links an     *)
(* administrator starts, the callback that exchanges one for the seller's  *)
(* credentials, the refresh of an expired access token by whoever needs    *)
(* it, and the disconnection.                                              *)
(* payments/application/seller-connection.service.ts                       *)
(*                                                                         *)
(* Every await on the database or on the provider ends a step, so calls of *)
(* several instances interleave between the read of a connection and the   *)
(* write that follows it.                                                  *)
(* A definition under "Bug:" is used by no other: it takes the place of    *)
(* the one after it to show that a property notices the mistake.           *)
(***************************************************************************)
EXTENDS Integers, FiniteSets

CONSTANTS SellerClubs,    \* clubs that connect an account
          Sellers,        \* accounts at the provider (externalSellerId)
          OAuthLinks,     \* rows of MarketplaceOAuthState ever created
          SellerCalls,    \* requests served at the same time
          NoSeller,       \* no account: the club has no connection row
          MaxCallCrashes  \* instances that die in the middle of a call

ASSUME SellerAssumption ==
    /\ NoSeller \notin Sellers \cup SellerClubs \cup OAuthLinks
    /\ MaxCallCrashes \in Nat

VARIABLES
    connection,   \* club -> its MarketplaceSellerConnection
    oauthState,   \* link -> its MarketplaceOAuthState
    sellerCall,   \* what each request has read and does next
    mixed,        \* clubs whose row was written by a call that had read an older one
    callCrashes

sellerVars == <<connection, oauthState, sellerCall, mixed, callCrashes>>

ConnectionStatuses ==
    {"NOT_CONNECTED", "CONNECTED", "REAUTHORIZATION_REQUIRED", "DISCONNECTED"}

CallSteps == {"idle", "exchange", "check", "save", "refresh", "renew", "fail", "disconnect"}

NoCall == [step |-> "idle", club |-> NoSeller, link |-> NoSeller, seller |-> NoSeller,
         stale |-> FALSE, links |-> {}]

SellerInit ==
    /\ connection = [c \in SellerClubs |->
         [status |-> "NOT_CONNECTED", seller |-> NoSeller, token |-> NoSeller,
          live |-> FALSE, refreshable |-> FALSE, link |-> NoSeller]]
    /\ oauthState = [l \in OAuthLinks |->
         [club |-> NoSeller, consumed |-> FALSE, expired |-> FALSE, cut |-> FALSE]]
    /\ sellerCall = [h \in SellerCalls |-> NoCall]
    /\ mixed = {}
    /\ callCrashes = 0

(***************************************************************************)
(* A write on the row of club c by call h: the other calls that read it    *)
(* now hold an older row, and if h itself did the write is mixed with      *)
(* another one.                                                            *)
(***************************************************************************)
Writes(h, c, row) ==
    /\ connection' = [connection EXCEPT ![c] = row]
    /\ mixed' = IF sellerCall[h].stale THEN mixed \cup {c} ELSE mixed
    /\ sellerCall' = [k \in SellerCalls |->
         IF k = h THEN NoCall
         ELSE IF sellerCall[k].club = c THEN [sellerCall[k] EXCEPT !.stale = TRUE]
         ELSE sellerCall[k]]

Goes(h, step) == sellerCall' = [sellerCall EXCEPT ![h].step = step]
Leaves(h) == sellerCall' = [sellerCall EXCEPT ![h] = NoCall]

\* start: an administrator asks for a link, a row of its own (which of the free ones
\* does not matter); it lapses in ten minutes, to no effect once it was consumed
FreeLinks == {l \in OAuthLinks : oauthState[l].club = NoSeller}

StartLink(c) ==
    /\ FreeLinks # {}
    /\ oauthState' = [oauthState EXCEPT ![CHOOSE l \in FreeLinks : TRUE].club = c]
    /\ UNCHANGED <<connection, sellerCall, mixed, callCrashes>>

LinkExpires(l) ==
    /\ oauthState[l].club # NoSeller /\ ~oauthState[l].consumed /\ ~oauthState[l].expired
    /\ oauthState' = [oauthState EXCEPT ![l].expired = TRUE]
    /\ UNCHANGED <<connection, sellerCall, mixed, callCrashes>>

\* Bug: whatever its consumedAt says.
ClaimableAgain(l) == oauthState[l].club # NoSeller /\ ~oauthState[l].expired

\* callback, the transaction that claims the link; a consumed link changes nothing
Claimable(l) ==
    /\ oauthState[l].club # NoSeller
    /\ ~oauthState[l].consumed
    /\ ~oauthState[l].expired

ClaimLink(h, l) ==
    /\ sellerCall[h].step = "idle"
    /\ Claimable(l)
    /\ oauthState' = [oauthState EXCEPT ![l].consumed = TRUE]
    /\ sellerCall' = [sellerCall EXCEPT ![h] =
         [NoCall EXCEPT !.step = "exchange", !.club = oauthState[l].club, !.link = l]]
    /\ UNCHANGED <<connection, mixed, callCrashes>>

\* the provider answers with an account and all the scopes, or the call fails
ExchangeCode(h) ==
    /\ sellerCall[h].step = "exchange"
    /\ \/ \E s \in Sellers :
            sellerCall' = [sellerCall EXCEPT ![h].step = "check", ![h].seller = s]
       \/ Leaves(h)
    /\ UNCHANGED <<connection, oauthState, mixed, callCrashes>>

\* Bug: only connected accounts are looked at.
HeldConnected(c, s) ==
    \E d \in SellerClubs \ {c} : connection[d].seller = s /\ connection[d].status = "CONNECTED"

HeldElsewhere(c, s) == \E d \in SellerClubs \ {c} : connection[d].seller = s

CheckSeller(h) ==
    /\ sellerCall[h].step = "check"
    /\ IF HeldElsewhere(sellerCall[h].club, sellerCall[h].seller)
         THEN Leaves(h) ELSE Goes(h, "save")
    /\ UNCHANGED <<connection, oauthState, mixed, callCrashes>>

\* the upsert; the unique index on the seller refuses what the check missed, and
\* an answer without a refresh token leaves the stored one
SaveConnection(h) ==
    LET c == sellerCall[h].club
        s == sellerCall[h].seller
    IN  /\ sellerCall[h].step = "save"
        /\ \/ /\ ~HeldElsewhere(c, s)
              /\ \E refresh \in {TRUE, connection[c].refreshable} :
                   Writes(h, c, [status |-> "CONNECTED", seller |-> s, token |-> s,
                                 live |-> TRUE, refreshable |-> refresh,
                                 link |-> sellerCall[h].link])
           \/ /\ HeldElsewhere(c, s)
              /\ Leaves(h)
              /\ UNCHANGED <<connection, mixed>>
        /\ UNCHANGED <<oauthState, callCrashes>>

\* tokenExpiresAt passes
TokenLapses(c) ==
    /\ connection[c].live
    /\ connection' = [connection EXCEPT ![c].live = FALSE]
    /\ UNCHANGED <<oauthState, sellerCall, mixed, callCrashes>>

\* accessTokenForClub: an expired token with a refresh token is renewed; the other
\* outcomes return or fail and change nothing
ReadExpired(h, c) ==
    /\ sellerCall[h].step = "idle"
    /\ connection[c].status = "CONNECTED" /\ ~connection[c].live
    /\ connection[c].refreshable
    /\ sellerCall' = [sellerCall EXCEPT ![h] =
         [NoCall EXCEPT !.step = "refresh", !.club = c, !.seller = connection[c].seller]]
    /\ UNCHANGED <<connection, oauthState, mixed, callCrashes>>

\* Bug: the accounts are not compared.
AnySeller(h, s) == s \in Sellers

SameSeller(h, s) == s = sellerCall[h].seller

\* oauth.refresh answers for some account, or fails; only the account the row named
\* when it was read is accepted
RefreshToken(h) ==
    /\ sellerCall[h].step = "refresh"
    /\ \/ \E s \in Sellers :
            IF SameSeller(h, s)
              THEN sellerCall' = [sellerCall EXCEPT ![h].step = "renew", ![h].seller = s]
              ELSE Goes(h, "fail")
       \/ Goes(h, "fail")
    /\ UNCHANGED <<connection, oauthState, mixed, callCrashes>>

\* the row is written by its id whatever it says by now
CommitRefresh(h) ==
    LET c == sellerCall[h].club
    IN  /\ sellerCall[h].step = "renew"
        /\ Writes(h, c, [connection[c] EXCEPT !.status = "CONNECTED", !.live = TRUE,
                                              !.token = sellerCall[h].seller])
        /\ UNCHANGED <<oauthState, callCrashes>>

CommitFailure(h) ==
    LET c == sellerCall[h].club
    IN  /\ sellerCall[h].step = "fail"
        /\ Writes(h, c, [connection[c] EXCEPT !.status = "REAUTHORIZATION_REQUIRED"])
        /\ UNCHANGED <<oauthState, callCrashes>>

LinksOf(c) == {l \in OAuthLinks : oauthState[l].club = c}

\* Bug: the links that were never used are left.
CutUsed(c) == {l \in LinksOf(c) : oauthState[l].consumed}

\* the links a disconnection consumes
Cut(c) == LinksOf(c)

\* disconnect: the links of the club are consumed, then the row is marked
BeginDisconnect(h, c) ==
    /\ sellerCall[h].step = "idle"
    /\ connection[c].seller # NoSeller
    /\ oauthState' = [l \in OAuthLinks |->
         IF l \in Cut(c) THEN [oauthState[l] EXCEPT !.consumed = TRUE] ELSE oauthState[l]]
    /\ sellerCall' = [sellerCall EXCEPT ![h] =
         [NoCall EXCEPT !.step = "disconnect", !.club = c, !.links = LinksOf(c)]]
    /\ UNCHANGED <<connection, mixed, callCrashes>>

CommitDisconnect(h) ==
    LET c == sellerCall[h].club
    IN  /\ sellerCall[h].step = "disconnect"
        /\ Writes(h, c, [connection[c] EXCEPT !.status = "DISCONNECTED"])
        /\ oauthState' = [l \in OAuthLinks |->
             [oauthState[l] EXCEPT !.cut = @ \/ l \in sellerCall[h].links]]
        /\ UNCHANGED callCrashes

CallDies(h) ==
    /\ sellerCall[h].step # "idle"
    /\ callCrashes < MaxCallCrashes
    /\ Leaves(h)
    /\ callCrashes' = callCrashes + 1
    /\ UNCHANGED <<connection, oauthState, mixed>>

SellerNext ==
    \/ \E c \in SellerClubs : StartLink(c)
    \/ \E l \in OAuthLinks : LinkExpires(l)
    \/ \E c \in SellerClubs : TokenLapses(c)
    \/ \E h \in SellerCalls :
         \/ \E l \in OAuthLinks : ClaimLink(h, l)
         \/ \E c \in SellerClubs : ReadExpired(h, c)
         \/ \E c \in SellerClubs : BeginDisconnect(h, c)
         \/ ExchangeCode(h)
         \/ CheckSeller(h)
         \/ SaveConnection(h)
         \/ RefreshToken(h)
         \/ CommitRefresh(h)
         \/ CommitFailure(h)
         \/ CommitDisconnect(h)
         \/ CallDies(h)

SellerSpec == SellerInit /\ [][SellerNext]_sellerVars

-----------------------------------------------------------------------------
SellerTypeOK ==
    /\ connection \in [SellerClubs ->
         [status : ConnectionStatuses, seller : Sellers \cup {NoSeller},
          token : Sellers \cup {NoSeller}, live : BOOLEAN, refreshable : BOOLEAN,
          link : OAuthLinks \cup {NoSeller}]]
    /\ oauthState \in [OAuthLinks ->
         [club : SellerClubs \cup {NoSeller}, consumed : BOOLEAN, expired : BOOLEAN,
          cut : BOOLEAN]]
    /\ \A h \in SellerCalls : sellerCall[h].step \in CallSteps
    /\ mixed \subseteq SellerClubs
    /\ callCrashes \in 0 .. MaxCallCrashes

\* An account collects for one club at most, whoever connects it and in any order:
\* what the check reads may be old by the time of the upsert.
OneClubPerSeller ==
    \A c, d \in SellerClubs :
        c # d /\ connection[c].seller # NoSeller => connection[c].seller # connection[d].seller

\* The access token a payment is created with is the one of the account the club is
\* connected to, unless a refresh committed over a row that had changed under it.
TokenIsTheSellers ==
    \A c \in SellerClubs \ mixed : connection[c].token = connection[c].seller

\* A club that disconnected its account is connected again only by a link its
\* administrator asked for afterwards, unless a refresh or a callback that was under
\* way committed over the disconnection.
DisconnectHolds ==
    \A c \in SellerClubs \ mixed :
        connection[c].status = "CONNECTED" => ~oauthState[connection[c].link].cut

\* A link is good for one exchange: no two calls ever hold the same one, and a call
\* that exchanges a link holds one of its club.
LinkIsUsedOnce ==
    \A h \in SellerCalls : sellerCall[h].link # NoSeller =>
        /\ oauthState[sellerCall[h].link].consumed
        /\ oauthState[sellerCall[h].link].club = sellerCall[h].club
        /\ \A k \in SellerCalls \ {h} : sellerCall[k].link # sellerCall[h].link
        /\ \A c \in SellerClubs : connection[c].link # sellerCall[h].link

SellerInv ==
    /\ SellerTypeOK
    /\ OneClubPerSeller
    /\ TokenIsTheSellers
    /\ DisconnectHolds
    /\ LinkIsUsedOnce

=============================================================================
