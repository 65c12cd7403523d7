-------------------------- MODULE CatalogueProofs ---------------------------
(***************************************************************************)
(* The invariants of the parts that share no table but run on the same     *)
(* platform, the connection of a seller, the stock of tickets and          *)
(* products, promotions, featured campaigns, the cart and what customers   *)
(* are shown, each for any of its rows, and those of the whole of which    *)
(* they are parts.                                                         *)
(***************************************************************************)
EXTENDS MCPlatform, SumTheorems, SequenceTheorems

-----------------------------------------------------------------------------
(***************************************************************************)
(* SellerConnection                                                        *)
(***************************************************************************)
\* A call being served, by what it is made of.
Calls == [step : CallSteps, club : SellerClubs \cup {NoSeller}, link : OAuthLinks \cup {NoSeller},
          seller : Sellers \cup {NoSeller}, stale : BOOLEAN, links : SUBSET OAuthLinks]

\* What a call knows: its club and its link; a link that was cut since, or a row that
\* was written since, has made it stale.
CallKnows(h) ==
    /\ sellerCall[h].step # "idle" => sellerCall[h].club \in SellerClubs
    /\ sellerCall[h].link # NoSeller =>
         /\ sellerCall[h].club \in SellerClubs
         /\ oauthState[sellerCall[h].link].consumed
         /\ oauthState[sellerCall[h].link].club = sellerCall[h].club
         /\ ~sellerCall[h].stale => ~oauthState[sellerCall[h].link].cut
    /\ sellerCall[h].step \in {"exchange", "check", "save"} =>
         sellerCall[h].link # NoSeller
    /\ sellerCall[h].step \in {"check", "save"} => sellerCall[h].seller \in Sellers
    /\ sellerCall[h].step \in {"refresh", "renew"} /\ ~sellerCall[h].stale =>
         /\ connection[sellerCall[h].club].status = "CONNECTED"
         /\ connection[sellerCall[h].club].seller = sellerCall[h].seller
    /\ sellerCall[h].step \in {"refresh", "renew"} => connection[sellerCall[h].club].link # NoSeller
    /\ \A l \in sellerCall[h].links :
         /\ sellerCall[h].club \in SellerClubs
         /\ oauthState[l].club = sellerCall[h].club /\ oauthState[l].consumed

\* A row names a consumed link of its club, and has one if it is connected.
RowKnows(c) ==
    /\ connection[c].link # NoSeller =>
         oauthState[connection[c].link].club = c /\ oauthState[connection[c].link].consumed
    /\ connection[c].status = "CONNECTED" => connection[c].link # NoSeller

\* A link is held by one call, and not by a call once a row names it.
LinksApart ==
    \A h \in SellerCalls : sellerCall[h].link # NoSeller =>
        /\ \A k \in SellerCalls \ {h} : sellerCall[k].link # sellerCall[h].link
        /\ \A c \in SellerClubs : connection[c].link # sellerCall[h].link

\* The inductive invariant: why a token is of the seller of its row, and why
\* a link serves one connection.
SellerIInv ==
    /\ SellerTypeOK /\ sellerCall \in [SellerCalls -> Calls]
    /\ OneClubPerSeller /\ TokenIsTheSellers /\ DisconnectHolds /\ LinksApart
    /\ \A h \in SellerCalls : CallKnows(h)
    /\ \A c \in SellerClubs : RowKnows(c)
    /\ \A l \in OAuthLinks : oauthState[l].cut => oauthState[l].consumed

\* The rows and the calls, by what they are made of.
Connections == [status : ConnectionStatuses, seller : Sellers \cup {NoSeller},
          token : Sellers \cup {NoSeller}, live : BOOLEAN, refreshable : BOOLEAN,
          link : OAuthLinks \cup {NoSeller}]
LinkRows == [club : SellerClubs \cup {NoSeller}, consumed : BOOLEAN, expired : BOOLEAN,
          cut : BOOLEAN]

\* The invariant, by types.
LEMMA SellerTypes ==
    ASSUME SellerIInv
    PROVE  /\ connection \in [SellerClubs -> Connections] /\ oauthState \in [OAuthLinks -> LinkRows]
           /\ sellerCall \in [SellerCalls -> Calls] /\ NoCall \in Calls
           /\ mixed \subseteq SellerClubs
BY DEF SellerIInv, SellerTypeOK, Connections, LinkRows, NoCall, Calls, CallSteps

\* No club is connected at first, and no call is being served.
LEMMA InitSeller == SellerInit => SellerIInv
<1> SUFFICES ASSUME SellerInit PROVE SellerIInv
    OBVIOUS
<1>1. SellerTypeOK
    BY SellerAssumption DEF SellerInit, SellerTypeOK, NoCall, CallSteps, ConnectionStatuses
<1>2. sellerCall \in [SellerCalls -> Calls]
    BY DEF SellerInit, NoCall, Calls, CallSteps
<1>3. OneClubPerSeller /\ TokenIsTheSellers /\ DisconnectHolds /\ LinksApart
    BY DEF SellerInit, OneClubPerSeller, TokenIsTheSellers, DisconnectHolds, LinksApart, NoCall
<1>4. \A h \in SellerCalls : CallKnows(h)
    BY DEF SellerInit, CallKnows, NoCall
<1>5. \A c \in SellerClubs : RowKnows(c)
    BY DEF SellerInit, RowKnows
<1> QED
    BY <1>1, <1>2, <1>3, <1>4, <1>5 DEF SellerIInv, SellerInit

\* A link is asked for, or lapses; an access token lapses.
LEMMA LapseStep ==
    ASSUME SellerIInv,
           \/ \E c \in SellerClubs : StartLink(c) \/ TokenLapses(c)
           \/ \E l \in OAuthLinks : LinkExpires(l)
    PROVE  SellerIInv'
<1>0. connection \in [SellerClubs -> Connections] /\ oauthState \in [OAuthLinks -> LinkRows]
    BY SellerTypes
<1>1. /\ UNCHANGED <<sellerCall, mixed, callCrashes>>
      /\ connection' \in [SellerClubs -> Connections] /\ oauthState' \in [OAuthLinks -> LinkRows]
      /\ \A c \in SellerClubs :
             /\ connection'[c].status = connection[c].status /\ connection'[c].link = connection[c].link
             /\ connection'[c].seller = connection[c].seller /\ connection'[c].token = connection[c].token
      /\ \A l \in OAuthLinks :
             /\ oauthState'[l].consumed = oauthState[l].consumed /\ oauthState'[l].cut = oauthState[l].cut
             /\ oauthState[l].club # NoSeller => oauthState'[l].club = oauthState[l].club
    <2>1. ASSUME NEW c \in SellerClubs, StartLink(c) PROVE <1>1!:
        <3> DEFINE l == CHOOSE l \in FreeLinks : TRUE
        <3>1. l \in OAuthLinks /\ oauthState[l].club = NoSeller
            BY <2>1 DEF StartLink, FreeLinks
        <3>2. oauthState' = [oauthState EXCEPT ![l].club = c] /\ UNCHANGED <<connection, sellerCall, mixed, callCrashes>>
            BY <2>1 DEF StartLink
        <3> HIDE DEF l
        <3> QED BY <1>0, <3>1, <3>2 DEF LinkRows
    <2>2. ASSUME NEW c \in SellerClubs, TokenLapses(c) PROVE <1>1!:
        BY <1>0, <2>2 DEF TokenLapses, Connections
    <2>3. ASSUME NEW l \in OAuthLinks, LinkExpires(l) PROVE <1>1!:
        BY <1>0, <2>3 DEF LinkExpires, LinkRows
    <2> QED
        BY <2>1, <2>2, <2>3
<1>2. SellerTypeOK' /\ sellerCall' \in [SellerCalls -> Calls]
    BY <1>1 DEF SellerIInv, SellerTypeOK, Connections, LinkRows
<1>3. OneClubPerSeller' /\ TokenIsTheSellers'
    BY <1>1 DEF SellerIInv, OneClubPerSeller, TokenIsTheSellers
<1>4. DisconnectHolds'
    BY <1>0, <1>1 DEF SellerIInv, DisconnectHolds, RowKnows, Connections
<1>5. LinksApart'
    BY <1>1 DEF SellerIInv, LinksApart
<1>6. \A c \in SellerClubs : RowKnows(c)'
    BY <1>0, <1>1, SellerAssumption DEF SellerIInv, RowKnows, Connections
<1>7. ASSUME NEW h \in SellerCalls PROVE CallKnows(h)'
    <2>1. CallKnows(h) /\ sellerCall[h] \in Calls
        BY DEF SellerIInv
    <2>2. sellerCall'[h] = sellerCall[h]
        BY <1>1
    <2>3. sellerCall[h].link \in OAuthLinks \cup {NoSeller} /\ sellerCall[h].links \subseteq OAuthLinks
        BY <2>1 DEF Calls
    <2>4. sellerCall[h].link # NoSeller =>
              /\ oauthState'[sellerCall[h].link].consumed
              /\ oauthState'[sellerCall[h].link].club = sellerCall[h].club
              /\ ~sellerCall[h].stale => ~oauthState'[sellerCall[h].link].cut
        <3>1. ASSUME sellerCall[h].link # NoSeller PROVE sellerCall[h].club # NoSeller
            BY <2>1, <3>1, SellerAssumption DEF CallKnows
        <3> QED
            BY <1>1, <2>1, <2>3, <3>1 DEF CallKnows
    <2>5. \A l \in sellerCall[h].links :
              oauthState'[l].club = sellerCall[h].club /\ oauthState'[l].consumed
        BY <1>1, <2>1, <2>3, SellerAssumption DEF CallKnows
    <2> QED
        BY <1>1, <2>1, <2>2, <2>4, <2>5 DEF CallKnows
<1>8. \A l \in OAuthLinks : oauthState'[l].cut => oauthState'[l].consumed
    BY <1>1 DEF SellerIInv
<1> QED
    BY <1>2, <1>3, <1>4, <1>5, <1>6, <1>7, <1>8 DEF SellerIInv

\* A call that only moves on, or is gone, leaves the rest as it is.
LEMMA CallMoves ==
    ASSUME SellerIInv, NEW h \in SellerCalls, UNCHANGED <<connection, oauthState, mixed>>,
           callCrashes' \in 0..MaxCallCrashes, NEW x \in Calls,
           sellerCall' = [sellerCall EXCEPT ![h] = x],
           x.link # NoSeller => x.link = sellerCall[h].link,
           CallKnows(h)'
    PROVE  SellerIInv'
<1>1. /\ sellerCall' \in [SellerCalls -> Calls] /\ sellerCall'[h] = x
      /\ \A k \in SellerCalls : k # h => sellerCall'[k] = sellerCall[k]
    BY SellerTypes
<1>2. SellerTypeOK'
    BY <1>1 DEF SellerIInv, SellerTypeOK, Calls
<1>3. OneClubPerSeller' /\ TokenIsTheSellers' /\ DisconnectHolds'
    BY DEF SellerIInv, OneClubPerSeller, TokenIsTheSellers, DisconnectHolds
<1>4. LinksApart'
    BY <1>1 DEF SellerIInv, LinksApart
<1>5. ASSUME NEW k \in SellerCalls PROVE CallKnows(k)'
    <2>1. CASE k = h
        BY <2>1
    <2>2. CASE k # h
        BY <1>1, <2>2 DEF SellerIInv, CallKnows
    <2> QED
        BY <2>1, <2>2
<1>6. \A c \in SellerClubs : RowKnows(c)'
    BY DEF SellerIInv, RowKnows
<1> QED
    BY <1>1, <1>2, <1>3, <1>4, <1>5, <1>6 DEF SellerIInv

\* The exchange, the check, the answer to a refresh; a call that reads an expired
\* token; one that dies.
LEMMA CallStep ==
    ASSUME SellerIInv, NEW h \in SellerCalls,
           ExchangeCode(h) \/ CheckSeller(h) \/ RefreshToken(h) \/ CallDies(h)
             \/ \E c \in SellerClubs : ReadExpired(h, c)
    PROVE  SellerIInv'
<1> DEFINE call == sellerCall[h]
<1>0. call \in Calls /\ sellerCall \in [SellerCalls -> Calls] /\ NoCall \in Calls /\ CallKnows(h)
    BY SellerTypes DEF SellerIInv
<1>1. UNCHANGED <<connection, oauthState, mixed>> /\ callCrashes' \in 0..MaxCallCrashes
    <2>1. \/ callCrashes' = callCrashes
          \/ callCrashes < MaxCallCrashes /\ callCrashes' = callCrashes + 1
        BY DEF ExchangeCode, CheckSeller, RefreshToken, CallDies, ReadExpired
    <2>2. callCrashes \in 0..MaxCallCrashes /\ MaxCallCrashes \in Nat
        BY SellerAssumption DEF SellerIInv, SellerTypeOK
    <2>3. callCrashes' \in 0..MaxCallCrashes
        BY <2>1, <2>2
    <2>4. UNCHANGED <<connection, oauthState, mixed>>
        BY DEF ExchangeCode, CheckSeller, RefreshToken, CallDies, ReadExpired
    <2> QED
        BY <2>3, <2>4
<1>2. CASE sellerCall' = [sellerCall EXCEPT ![h] = NoCall]
    <2>1. CallKnows(h)'
        BY <1>0, <1>2 DEF CallKnows, NoCall
    <2> QED
        BY <1>0, <1>1, <1>2, <2>1, CallMoves DEF NoCall
<1>3. ASSUME NEW s \in Sellers, call.step = "exchange",
             sellerCall' = [sellerCall EXCEPT ![h].step = "check", ![h].seller = s]
      PROVE  SellerIInv'
    <2> DEFINE x == [call EXCEPT !.step = "check", !.seller = s]
    <2>1. x \in Calls /\ x.link = call.link /\ x.step = "check" /\ x.seller = s /\ x.club = call.club
          /\ x.stale = call.stale /\ x.links = call.links
        BY <1>0 DEF Calls, CallSteps
    <2>2. sellerCall' = [sellerCall EXCEPT ![h] = x]
        BY <1>0, <1>3
    <2> HIDE DEF x
    <2>3. sellerCall'[h] = x
        BY <1>0, <2>2
    <2>4. CallKnows(h)'
        BY <1>0, <1>1, <1>3, <2>1, <2>3 DEF CallKnows
    <2> QED
        BY <1>1, <2>1, <2>2, <2>4, CallMoves
<1>4. ASSUME CheckSeller(h), Goes(h, "save") PROVE SellerIInv'
    <2> DEFINE x == [call EXCEPT !.step = "save"]
    <2>1. x \in Calls /\ x.link = call.link /\ x.step = "save" /\ x.seller = call.seller /\ x.club = call.club
          /\ x.stale = call.stale /\ x.links = call.links
        BY <1>0 DEF Calls, CallSteps
    <2>2. sellerCall' = [sellerCall EXCEPT ![h] = x] /\ call.step = "check"
        BY <1>0, <1>4 DEF Goes, CheckSeller
    <2> HIDE DEF x
    <2>3. sellerCall'[h] = x
        BY <1>0, <2>2
    <2>4. CallKnows(h)'
        BY <1>0, <1>1, <2>1, <2>2, <2>3 DEF CallKnows
    <2> QED
        BY <1>1, <2>1, <2>2, <2>4, CallMoves
<1>5. ASSUME RefreshToken(h), Goes(h, "fail") PROVE SellerIInv'
    <2> DEFINE x == [call EXCEPT !.step = "fail"]
    <2>1. x \in Calls /\ x.link = call.link /\ x.step = "fail" /\ x.seller = call.seller /\ x.club = call.club
          /\ x.stale = call.stale /\ x.links = call.links
        BY <1>0 DEF Calls, CallSteps
    <2>2. sellerCall' = [sellerCall EXCEPT ![h] = x] /\ call.step = "refresh"
        BY <1>0, <1>5 DEF Goes, RefreshToken
    <2> HIDE DEF x
    <2>3. sellerCall'[h] = x
        BY <1>0, <2>2
    <2>4. CallKnows(h)'
        BY <1>0, <1>1, <2>1, <2>2, <2>3 DEF CallKnows
    <2> QED
        BY <1>1, <2>1, <2>2, <2>4, CallMoves
<1>6. ASSUME NEW s \in Sellers, RefreshToken(h), SameSeller(h, s),
             sellerCall' = [sellerCall EXCEPT ![h].step = "renew", ![h].seller = s]
      PROVE  SellerIInv'
    <2> DEFINE x == [call EXCEPT !.step = "renew", !.seller = s]
    <2>1. x \in Calls /\ x.link = call.link /\ x.step = "renew" /\ x.seller = call.seller /\ x.club = call.club
          /\ x.stale = call.stale /\ x.links = call.links
        BY <1>0, <1>6 DEF Calls, CallSteps, SameSeller
    <2>2. sellerCall' = [sellerCall EXCEPT ![h] = x] /\ call.step = "refresh"
        BY <1>0, <1>6 DEF RefreshToken
    <2> HIDE DEF x
    <2>3. sellerCall'[h] = x
        BY <1>0, <2>2
    <2>4. CallKnows(h)'
        BY <1>0, <1>1, <2>1, <2>2, <2>3 DEF CallKnows
    <2> QED
        BY <1>1, <2>1, <2>2, <2>4, CallMoves
<1>7. ASSUME NEW c \in SellerClubs, ReadExpired(h, c) PROVE SellerIInv'
    <2> DEFINE x == [NoCall EXCEPT !.step = "refresh", !.club = c, !.seller = connection[c].seller]
    <2>0. connection[c].link # NoSeller
        BY <1>7 DEF ReadExpired, SellerIInv, RowKnows
    <2>1. x \in Calls /\ x.link = NoSeller /\ x.step = "refresh" /\ x.seller = connection[c].seller /\ x.club = c
          /\ x.stale = FALSE /\ x.links = {}
        BY SellerTypes DEF Calls, CallSteps, NoCall, Connections
    <2>2. sellerCall' = [sellerCall EXCEPT ![h] = x] /\ connection[c].status = "CONNECTED"
        BY <1>7 DEF ReadExpired
    <2> HIDE DEF x
    <2>3. sellerCall'[h] = x
        BY <1>0, <2>2
    <2>4. CallKnows(h)'
        BY <1>1, <2>0, <2>1, <2>2, <2>3 DEF CallKnows
    <2> QED
        BY <1>1, <2>1, <2>2, <2>4, CallMoves
<1> QED
    BY <1>2, <1>3, <1>4, <1>5, <1>6, <1>7
       DEF ExchangeCode, CheckSeller, RefreshToken, CallDies, Leaves

\* The links that are cut with a write of a call.
CutsLinks(cut) ==
    /\ oauthState' \in [OAuthLinks -> LinkRows]
    /\ \A l \in OAuthLinks : /\ oauthState'[l].club = oauthState[l].club
                            /\ oauthState'[l].consumed = oauthState[l].consumed
                            /\ oauthState'[l].cut = (oauthState[l].cut \/ l \in cut)

\* The row a call may write for its club c: the account of the row or a free one, a
\* link of the call or of the row, and, if the call and the row are up to date, a token
\* of that account and a link nobody cut.
GoodRow(h, c, row, cut) ==
    /\ row.seller = connection[c].seller \/ ~HeldElsewhere(c, row.seller)
    /\ row.link \in {NoSeller, connection[c].link, sellerCall[h].link}
    /\ row.status = "CONNECTED" => row.link # NoSeller
    /\ connection[c].link # NoSeller => row.link # NoSeller
    /\ ~sellerCall[h].stale /\ c \notin mixed =>
         /\ row.token = row.seller
         /\ row.status = "CONNECTED" => ~oauthState[row.link].cut /\ row.link \notin cut

\* A call writes the row of its club, and may cut links of the club: the calls that
\* know more about the club than they should are stale.
LEMMA WriteStep ==
    ASSUME SellerIInv, NEW h \in SellerCalls, NEW row \in Connections, NEW cut \in SUBSET OAuthLinks,
           NEW c \in SellerClubs, c = sellerCall[h].club, Writes(h, c, row), CutsLinks(cut),
           UNCHANGED callCrashes, GoodRow(h, c, row, cut),
           \A l \in cut : oauthState[l].club = c /\ oauthState[l].consumed
    PROVE  SellerIInv'
<1>0. /\ connection \in [SellerClubs -> Connections] /\ oauthState \in [OAuthLinks -> LinkRows]
      /\ sellerCall \in [SellerCalls -> Calls] /\ NoCall \in Calls /\ mixed \subseteq SellerClubs
    BY SellerTypes
<1>1. /\ connection' = [connection EXCEPT ![c] = row]
      /\ mixed' = IF sellerCall[h].stale THEN mixed \cup {c} ELSE mixed
      /\ sellerCall' = [k \in SellerCalls |->
             IF k = h THEN NoCall
             ELSE IF sellerCall[k].club = c THEN [sellerCall[k] EXCEPT !.stale = TRUE]
             ELSE sellerCall[k]]
    BY DEF Writes
<1>2. /\ connection' \in [SellerClubs -> Connections] /\ connection'[c] = row
      /\ \A d \in SellerClubs : d # c => connection'[d] = connection[d]
    BY <1>0, <1>1
<1>3. /\ oauthState' \in [OAuthLinks -> LinkRows]
      /\ \A l \in OAuthLinks : /\ oauthState'[l].club = oauthState[l].club
                               /\ oauthState'[l].consumed = oauthState[l].consumed
                               /\ oauthState'[l].cut = (oauthState[l].cut \/ l \in cut)
    BY DEF CutsLinks
<1>G. /\ \/ row.seller = connection[c].seller
         \/ ~HeldElsewhere(c, row.seller)
      /\ row.link # NoSeller => row.link = connection[c].link \/ row.link = sellerCall[h].link
      /\ row.status = "CONNECTED" => row.link # NoSeller
      /\ connection[c].link # NoSeller => row.link # NoSeller
      /\ ~sellerCall[h].stale /\ c \notin mixed =>
           /\ row.token = row.seller
           /\ row.status = "CONNECTED" => ~oauthState[row.link].cut /\ row.link \notin cut
    BY DEF GoodRow
<1>4. \A k \in SellerCalls : k # h =>
          /\ sellerCall'[k] \in Calls
          /\ sellerCall'[k].step = sellerCall[k].step /\ sellerCall'[k].club = sellerCall[k].club
          /\ sellerCall'[k].link = sellerCall[k].link /\ sellerCall'[k].seller = sellerCall[k].seller
          /\ sellerCall'[k].links = sellerCall[k].links
          /\ ~sellerCall'[k].stale => ~sellerCall[k].stale /\ sellerCall[k].club # c
    <2> TAKE k \in SellerCalls
    <2> HAVE k # h
    <2>1. sellerCall[k] \in Calls
        BY <1>0
    <2>2. CASE sellerCall[k].club = c
        <3>1. sellerCall'[k] = [sellerCall[k] EXCEPT !.stale = TRUE]
            BY <1>1, <2>2
        <3> QED BY <2>1, <3>1 DEF Calls
    <2>3. CASE sellerCall[k].club # c
        <3>1. sellerCall'[k] = sellerCall[k]
            BY <1>1, <2>3
        <3> QED BY <2>1, <2>3, <3>1
    <2> QED
        BY <2>2, <2>3
<1>5. sellerCall'[h] = NoCall
    BY <1>1
<1>6. mixed \subseteq mixed' /\ mixed' \subseteq SellerClubs /\ (sellerCall[h].stale => c \in mixed')
    BY <1>0, <1>1
<1>7. sellerCall' \in [SellerCalls -> Calls]
    <2>1. \A k \in SellerCalls : sellerCall'[k] \in Calls
        BY <1>0, <1>4, <1>5
    <2>2. sellerCall' = [k \in SellerCalls |-> sellerCall'[k]]
        BY <1>1
    <2> QED
        BY <2>1, <2>2
<1>8. SellerTypeOK'
    BY <1>2, <1>3, <1>6, <1>7 DEF SellerIInv, SellerTypeOK, Connections, LinkRows, Calls
<1>9. OneClubPerSeller'
    <2>1. \/ row.seller = connection[c].seller
          \/ \A d \in SellerClubs \ {c} : connection[d].seller # row.seller
        BY <1>G DEF HeldElsewhere
    <2>2. \A d, e \in SellerClubs : d # e /\ connection[d].seller # NoSeller => connection[d].seller # connection[e].seller
        BY DEF SellerIInv, OneClubPerSeller
    <2> QED
        BY <1>2, <2>1, <2>2 DEF OneClubPerSeller
<1>10. \A d \in SellerClubs : RowKnows(d)'
    <2>0. \A l \in OAuthLinks : /\ oauthState'[l].club = oauthState[l].club
                                /\ oauthState[l].consumed => oauthState'[l].consumed
        BY <1>3
    <2>1. \A d \in SellerClubs : RowKnows(d) /\ connection[d].link \in OAuthLinks \cup {NoSeller}
        BY <1>0 DEF SellerIInv, Connections
    <2>2. CallKnows(h) /\ sellerCall[h].link \in OAuthLinks \cup {NoSeller} /\ row.link \in OAuthLinks \cup {NoSeller}
        BY <1>0 DEF SellerIInv, Calls, Connections
    <2>3. row.link # NoSeller => oauthState[row.link].club = c /\ oauthState[row.link].consumed
        BY <1>G, <2>1, <2>2 DEF CallKnows, RowKnows
    <2>4. RowKnows(c)'
        <3>1. c \in SellerClubs /\ connection'[c].link = row.link /\ connection'[c].status = row.status
            BY <1>2
        <3>2. row.link # NoSeller => oauthState'[row.link].club = c /\ oauthState'[row.link].consumed
            <4>1. ASSUME row.link # NoSeller PROVE row.link \in OAuthLinks
                BY <2>2, <4>1
            <4> QED
                BY <2>0, <2>3, <4>1
        <3> QED
            BY <1>G, <3>1, <3>2 DEF RowKnows
    <2>5. ASSUME NEW d \in SellerClubs, d # c PROVE RowKnows(d)'
        <3>1. connection'[d] = connection[d]
            BY <1>2, <2>5
        <3>2. connection[d].link # NoSeller => connection[d].link \in OAuthLinks
            BY <2>1
        <3> QED
            BY <2>0, <2>1, <3>1, <3>2 DEF RowKnows
    <2> QED
        BY <2>4, <2>5
<1>11. TokenIsTheSellers' /\ DisconnectHolds'
    <2>1. ASSUME NEW d \in SellerClubs, d \notin mixed'
          PROVE  /\ connection'[d].token = connection'[d].seller
                 /\ connection'[d].status = "CONNECTED" => ~oauthState'[connection'[d].link].cut
        <3>1. CASE d = c
            <4>1. ~sellerCall[h].stale /\ c \notin mixed
                BY <1>6, <2>1, <3>1
            <4>2. /\ row.token = row.seller
                  /\ row.status = "CONNECTED" => ~oauthState[row.link].cut /\ row.link \notin cut /\ row.link \in OAuthLinks
                BY <1>G, <4>1 DEF Connections
            <4> QED
                BY <1>2, <1>3, <3>1, <4>2
        <3>2. CASE d # c
            <4>1. connection'[d] = connection[d] /\ d \notin mixed
                BY <1>2, <1>6, <2>1, <3>2
            <4>2. /\ connection[d].token = connection[d].seller
                  /\ connection[d].status = "CONNECTED" => ~oauthState[connection[d].link].cut
                BY <4>1 DEF SellerIInv, TokenIsTheSellers, DisconnectHolds
            <4>3. connection[d].status = "CONNECTED" =>
                      /\ connection[d].link \in OAuthLinks /\ oauthState[connection[d].link].club = d
                BY <1>0 DEF SellerIInv, RowKnows, Connections
            <4>4. connection[d].status = "CONNECTED" => connection[d].link \notin cut
                BY <3>2, <4>3
            <4> QED
                BY <1>3, <4>1, <4>2, <4>3, <4>4
        <3> QED
            BY <3>1, <3>2
    <2> QED
        BY <2>1 DEF TokenIsTheSellers, DisconnectHolds
<1>12. LinksApart'
    <2>1. ASSUME NEW k \in SellerCalls, sellerCall'[k].link # NoSeller
          PROVE  /\ \A j \in SellerCalls \ {k} : sellerCall'[j].link # sellerCall'[k].link
                 /\ \A d \in SellerClubs : connection'[d].link # sellerCall'[k].link
        <3>1. k # h /\ sellerCall'[k].link = sellerCall[k].link
            BY <1>4, <1>5, <2>1 DEF NoCall
        <3>2. /\ \A j \in SellerCalls \ {k} : sellerCall[j].link # sellerCall[k].link
              /\ \A d \in SellerClubs : connection[d].link # sellerCall[k].link
            BY <2>1, <3>1 DEF SellerIInv, LinksApart
        <3>3. \A j \in SellerCalls \ {k} : sellerCall'[j].link = sellerCall[j].link \/ sellerCall'[j].link = NoSeller
            BY <1>4, <1>5 DEF NoCall
        <3>4. row.link # sellerCall[k].link
            BY <1>G, <2>1, <3>1, <3>2
        <3> QED
            BY <1>2, <2>1, <3>1, <3>2, <3>3, <3>4
    <2> QED
        BY <2>1 DEF LinksApart
<1>13. ASSUME NEW k \in SellerCalls PROVE CallKnows(k)'
    <2>1. CASE k = h
        BY <1>5, <2>1 DEF CallKnows, NoCall
    <2>2. CASE k # h
        <3>1. CallKnows(k) /\ sellerCall[k] \in Calls
            BY <1>0 DEF SellerIInv
        <3>2. /\ sellerCall[k].link \in OAuthLinks \cup {NoSeller} /\ sellerCall[k].links \subseteq OAuthLinks
              /\ sellerCall[k].club \in SellerClubs \cup {NoSeller}
            BY <3>1 DEF Calls
        <3>3. sellerCall[k].link # NoSeller =>
                  /\ sellerCall[k].club \in SellerClubs
                  /\ oauthState'[sellerCall[k].link].consumed
                  /\ oauthState'[sellerCall[k].link].club = sellerCall[k].club
                  /\ ~sellerCall'[k].stale => ~oauthState'[sellerCall[k].link].cut
            <4>1. ASSUME sellerCall[k].link # NoSeller, ~sellerCall'[k].stale
                  PROVE  ~oauthState'[sellerCall[k].link].cut
                <5>1. ~sellerCall[k].stale /\ sellerCall[k].club # c
                    BY <1>4, <2>2, <4>1
                <5>2. ~oauthState[sellerCall[k].link].cut /\ oauthState[sellerCall[k].link].club = sellerCall[k].club
                    BY <3>1, <4>1, <5>1 DEF CallKnows
                <5>3. sellerCall[k].link \notin cut
                    BY <5>1, <5>2
                <5> QED
                    BY <1>3, <3>2, <4>1, <5>2, <5>3
            <4> QED
                BY <1>3, <3>1, <3>2, <4>1 DEF CallKnows
        <3>4. sellerCall[k].step \in {"refresh", "renew"} /\ ~sellerCall'[k].stale =>
                  /\ connection'[sellerCall[k].club].status = "CONNECTED"
                  /\ connection'[sellerCall[k].club].seller = sellerCall[k].seller
            BY <1>2, <1>4, <2>2, <3>1 DEF CallKnows
        <3>5. \A l \in sellerCall[k].links :
                  /\ sellerCall[k].club \in SellerClubs
                  /\ oauthState'[l].club = sellerCall[k].club /\ oauthState'[l].consumed
            BY <1>3, <3>1, <3>2 DEF CallKnows
        <3>6. sellerCall[k].step \in {"refresh", "renew"} =>
                  connection'[sellerCall[k].club].link # NoSeller
            BY <1>2, <1>G, <3>1 DEF CallKnows
        <3> QED
            BY <1>4, <2>2, <3>1, <3>3, <3>4, <3>5, <3>6 DEF CallKnows
    <2> QED
        BY <2>1, <2>2
<1>14. \A l \in OAuthLinks : oauthState'[l].cut => oauthState'[l].consumed
    BY <1>3 DEF SellerIInv
<1> QED
    BY <1>7, <1>8, <1>9, <1>10, <1>11, <1>12, <1>13, <1>14 DEF SellerIInv

\* What the four writers have in common.
LEMMA Writer ==
    ASSUME SellerIInv, NEW h \in SellerCalls, sellerCall[h].step # "idle"
    PROVE  /\ sellerCall[h].club \in SellerClubs /\ sellerCall[h] \in Calls /\ CallKnows(h)
           /\ connection[sellerCall[h].club] \in Connections
           /\ RowKnows(sellerCall[h].club)
           /\ sellerCall[h].club \notin mixed =>
                /\ connection[sellerCall[h].club].token = connection[sellerCall[h].club].seller
                /\ connection[sellerCall[h].club].status = "CONNECTED" =>
                       ~oauthState[connection[sellerCall[h].club].link].cut
<1>1. CallKnows(h) /\ sellerCall[h] \in Calls
    BY DEF SellerIInv
<1>2. sellerCall[h].club \in SellerClubs
    BY <1>1 DEF CallKnows
<1>3. connection[sellerCall[h].club] \in Connections
    BY <1>2, SellerTypes
<1> QED
    BY <1>1, <1>2, <1>3 DEF SellerIInv, TokenIsTheSellers, DisconnectHolds

\* Nothing is cut.
LEMMA NothingCut ==
    ASSUME SellerIInv, UNCHANGED oauthState
    PROVE  CutsLinks({})
<1>1. oauthState \in [OAuthLinks -> LinkRows]
    BY SellerTypes
<1>2. \A l \in OAuthLinks : oauthState[l].cut = (oauthState[l].cut \/ l \in {})
    BY <1>1 DEF LinkRows
<1> QED
    BY <1>1, <1>2 DEF CutsLinks

\* The upsert of a callback.
LEMMA SaveStep ==
    ASSUME SellerIInv, NEW h \in SellerCalls, SaveConnection(h)
    PROVE  SellerIInv'
<1>0. PICK c \in SellerClubs : c = sellerCall[h].club
    BY Writer DEF SaveConnection
<1>1. /\ sellerCall[h].step = "save" /\ sellerCall[h] \in Calls /\ CallKnows(h)
      /\ sellerCall[h].seller \in Sellers /\ sellerCall[h].link \in OAuthLinks
      /\ ~sellerCall[h].stale => ~oauthState[sellerCall[h].link].cut
    <2>1. sellerCall[h].step = "save" /\ sellerCall[h] \in Calls /\ CallKnows(h)
        BY Writer DEF SaveConnection
    <2> QED
        BY <2>1 DEF CallKnows, Calls
<1>2. CASE HeldElsewhere(c, sellerCall[h].seller)
    <2>1. sellerCall' = [sellerCall EXCEPT ![h] = NoCall] /\ UNCHANGED <<connection, mixed, oauthState, callCrashes>>
        BY <1>0, <1>2 DEF SaveConnection, Leaves
    <2>2. sellerCall'[h] = NoCall
        BY <2>1, SellerTypes
    <2>3. CallKnows(h)'
        BY <2>2 DEF CallKnows, NoCall
    <2>4. callCrashes' \in 0..MaxCallCrashes /\ NoCall \in Calls /\ NoCall.link = NoSeller
        BY <2>1, SellerTypes DEF SellerIInv, SellerTypeOK, NoCall
    <2> QED
        BY <2>1, <2>3, <2>4, CallMoves
<1>3. CASE ~HeldElsewhere(c, sellerCall[h].seller)
    <2>1. PICK refresh \in {TRUE, connection[c].refreshable} :
              Writes(h, c, [status |-> "CONNECTED", seller |-> sellerCall[h].seller,
                            token |-> sellerCall[h].seller, live |-> TRUE, refreshable |-> refresh,
                            link |-> sellerCall[h].link])
        BY <1>0, <1>3 DEF SaveConnection
    <2> DEFINE row == [status |-> "CONNECTED", seller |-> sellerCall[h].seller,
                       token |-> sellerCall[h].seller, live |-> TRUE, refreshable |-> refresh,
                       link |-> sellerCall[h].link]
    <2>2. connection[c] \in Connections
        BY SellerTypes
    <2>3. row \in Connections /\ row.seller = sellerCall[h].seller /\ row.token = row.seller
          /\ row.link = sellerCall[h].link
        BY <1>1, <2>2 DEF Connections, ConnectionStatuses
    <2>4. Writes(h, c, row)
        BY <2>1
    <2> HIDE DEF row
    <2>5. sellerCall[h].link # NoSeller
        BY <1>1, SellerAssumption
    <2>6. GoodRow(h, c, row, {})
        BY <1>1, <1>3, <2>3, <2>5 DEF GoodRow
    <2>7. UNCHANGED <<oauthState, callCrashes>>
        BY DEF SaveConnection
    <2>8. CutsLinks({})
        BY <2>7, NothingCut
    <2> QED
        BY <1>0, <2>3, <2>4, <2>6, <2>7, <2>8, WriteStep
<1> QED
    BY <1>2, <1>3

\* A refreshed token, a failed refresh and a disconnection are written over the row as
\* it is by then.
LEMMA CommitStep ==
    ASSUME SellerIInv, NEW h \in SellerCalls, CommitRefresh(h) \/ CommitFailure(h) \/ CommitDisconnect(h)
    PROVE  SellerIInv'
<1>0. PICK c \in SellerClubs : c = sellerCall[h].club
    BY Writer DEF CommitRefresh, CommitFailure, CommitDisconnect
<1>1. /\ sellerCall[h] \in Calls /\ CallKnows(h) /\ connection[c] \in Connections /\ RowKnows(c)
      /\ c \notin mixed => /\ connection[c].token = connection[c].seller
                           /\ connection[c].status = "CONNECTED" => ~oauthState[connection[c].link].cut
    BY <1>0, Writer DEF CommitRefresh, CommitFailure, CommitDisconnect
<1>2. UNCHANGED callCrashes
    BY DEF CommitRefresh, CommitFailure, CommitDisconnect
<1>3. ASSUME CommitRefresh(h) PROVE SellerIInv'
    <2> DEFINE row == [connection[c] EXCEPT !.status = "CONNECTED", !.live = TRUE,
                                            !.token = sellerCall[h].seller]
    <2>1. Writes(h, c, row) /\ sellerCall[h].step = "renew" /\ UNCHANGED oauthState
        BY <1>0, <1>3 DEF CommitRefresh
    <2>2. row \in Connections /\ row.seller = connection[c].seller /\ row.link = connection[c].link
          /\ row.token = sellerCall[h].seller
        BY <1>1 DEF Connections, ConnectionStatuses, Calls
    <2> HIDE DEF row
    <2>3. /\ connection[c].link # NoSeller
          /\ ~sellerCall[h].stale => connection[c].status = "CONNECTED" /\ connection[c].seller = sellerCall[h].seller
        BY <1>0, <1>1, <2>1 DEF CallKnows
    <2>4. GoodRow(h, c, row, {})
        BY <1>1, <2>2, <2>3 DEF GoodRow
    <2>5. CutsLinks({})
        BY <2>1, NothingCut
    <2> QED
        BY <1>0, <1>2, <2>1, <2>2, <2>4, <2>5, WriteStep
<1>4. ASSUME CommitFailure(h) PROVE SellerIInv'
    <2> DEFINE row == [connection[c] EXCEPT !.status = "REAUTHORIZATION_REQUIRED"]
    <2>1. Writes(h, c, row) /\ UNCHANGED oauthState
        BY <1>0, <1>4 DEF CommitFailure
    <2>2. row \in Connections /\ row.seller = connection[c].seller /\ row.link = connection[c].link
          /\ row.token = connection[c].token /\ row.status # "CONNECTED"
        BY <1>1 DEF Connections, ConnectionStatuses
    <2> HIDE DEF row
    <2>4. GoodRow(h, c, row, {})
        BY <1>1, <2>2 DEF GoodRow
    <2>5. CutsLinks({})
        BY <2>1, NothingCut
    <2> QED
        BY <1>0, <1>2, <2>1, <2>2, <2>4, <2>5, WriteStep
<1>5. ASSUME CommitDisconnect(h) PROVE SellerIInv'
    <2> DEFINE row == [connection[c] EXCEPT !.status = "DISCONNECTED"]
               cut == sellerCall[h].links
    <2>1. Writes(h, c, row)
          /\ oauthState' = [l \in OAuthLinks |-> [oauthState[l] EXCEPT !.cut = @ \/ l \in sellerCall[h].links]]
        BY <1>0, <1>5 DEF CommitDisconnect
    <2>2. row \in Connections /\ row.seller = connection[c].seller /\ row.link = connection[c].link
          /\ row.token = connection[c].token /\ row.status # "CONNECTED"
        BY <1>1 DEF Connections, ConnectionStatuses
    <2> HIDE DEF row
    <2>3. cut \subseteq OAuthLinks /\ \A l \in cut : oauthState[l].club = c /\ oauthState[l].consumed
        BY <1>0, <1>1 DEF CallKnows, Calls
    <2>4. GoodRow(h, c, row, cut)
        BY <1>1, <2>2 DEF GoodRow
    <2>5. CutsLinks(cut)
        <3>1. \A l \in OAuthLinks :
                  /\ [oauthState[l] EXCEPT !.cut = @ \/ l \in cut] \in LinkRows
                  /\ [oauthState[l] EXCEPT !.cut = @ \/ l \in cut].club = oauthState[l].club
                  /\ [oauthState[l] EXCEPT !.cut = @ \/ l \in cut].consumed = oauthState[l].consumed
                  /\ [oauthState[l] EXCEPT !.cut = @ \/ l \in cut].cut = (oauthState[l].cut \/ l \in cut)
            BY SellerTypes DEF LinkRows
        <3> QED
            BY <2>1, <3>1 DEF CutsLinks
    <2>6. cut \in SUBSET OAuthLinks
        BY <2>3
    <2> HIDE DEF cut
    <2> QED
        BY <1>0, <1>2, <2>1, <2>2, <2>3, <2>4, <2>5, <2>6, WriteStep
<1> QED
    BY <1>3, <1>4, <1>5

\* Links are consumed and a call begins: it holds a link nobody has used, or none.
LEMMA BeginStep ==
    ASSUME SellerIInv, NEW h \in SellerCalls, NEW x \in Calls, UNCHANGED <<connection, mixed, callCrashes>>,
           sellerCall' = [sellerCall EXCEPT ![h] = x],
           oauthState' \in [OAuthLinks -> LinkRows],
           \A l \in OAuthLinks : /\ oauthState'[l].club = oauthState[l].club
                                 /\ oauthState'[l].cut = oauthState[l].cut
                                 /\ oauthState[l].consumed => oauthState'[l].consumed,
           x.link # NoSeller => ~oauthState[x.link].consumed,
           CallKnows(h)'
    PROVE  SellerIInv'
<1>0. /\ connection \in [SellerClubs -> Connections] /\ sellerCall \in [SellerCalls -> Calls]
    BY SellerTypes
<1>1. /\ sellerCall' \in [SellerCalls -> Calls] /\ sellerCall'[h] = x
      /\ \A k \in SellerCalls : k # h => sellerCall'[k] = sellerCall[k]
    BY <1>0
<1>2. SellerTypeOK'
    BY <1>1 DEF SellerIInv, SellerTypeOK, LinkRows, Calls
<1>3. OneClubPerSeller' /\ TokenIsTheSellers'
    BY DEF SellerIInv, OneClubPerSeller, TokenIsTheSellers
<1>4. \A c \in SellerClubs : RowKnows(c) /\ (connection[c].link # NoSeller => connection[c].link \in OAuthLinks)
    BY <1>0 DEF SellerIInv, Connections
<1>5. DisconnectHolds'
    BY <1>4 DEF SellerIInv, DisconnectHolds, RowKnows
<1>6. \A c \in SellerClubs : RowKnows(c)'
    BY <1>4 DEF RowKnows
<1>7. \A k \in SellerCalls : sellerCall[k].link # NoSeller =>
          sellerCall[k].link \in OAuthLinks /\ oauthState[sellerCall[k].link].consumed
    BY <1>0 DEF SellerIInv, CallKnows, Calls
<1>8. LinksApart'
    <2>1. ASSUME NEW k \in SellerCalls, sellerCall'[k].link # NoSeller
          PROVE  /\ \A j \in SellerCalls \ {k} : sellerCall'[j].link # sellerCall'[k].link
                 /\ \A c \in SellerClubs : connection[c].link # sellerCall'[k].link
        <3>1. CASE k = h
            <4>1. x.link # NoSeller /\ ~oauthState[x.link].consumed
                BY <1>1, <2>1, <3>1
            <4>2. \A c \in SellerClubs : connection[c].link # x.link
                BY <1>4, <4>1 DEF RowKnows
            <4>3. \A j \in SellerCalls : sellerCall[j].link # x.link
                BY <1>7, <4>1
            <4> QED
                BY <1>1, <3>1, <4>2, <4>3
        <3>2. CASE k # h
            <4>1. sellerCall'[k] = sellerCall[k] /\ sellerCall[k].link # NoSeller
                BY <1>1, <2>1, <3>2
            <4>2. /\ \A j \in SellerCalls \ {k} : sellerCall[j].link # sellerCall[k].link
                  /\ \A c \in SellerClubs : connection[c].link # sellerCall[k].link
                BY <4>1 DEF SellerIInv, LinksApart
            <4>3. x.link # sellerCall[k].link
                BY <1>7, <4>1
            <4> QED
                BY <1>1, <4>1, <4>2, <4>3
        <3> QED
            BY <3>1, <3>2
    <2> QED
        BY <2>1 DEF LinksApart
<1>9. ASSUME NEW k \in SellerCalls PROVE CallKnows(k)'
    <2>1. CASE k = h
        BY <2>1
    <2>2. CASE k # h
        <3>1. CallKnows(k) /\ sellerCall[k] \in Calls /\ sellerCall'[k] = sellerCall[k]
            BY <1>0, <1>1, <2>2 DEF SellerIInv
        <3>2. /\ sellerCall[k].link # NoSeller => sellerCall[k].link \in OAuthLinks
              /\ sellerCall[k].links \subseteq OAuthLinks
            BY <3>1 DEF Calls
        <3> QED
            BY <3>1, <3>2 DEF CallKnows
    <2> QED
        BY <2>1, <2>2
<1>10. \A l \in OAuthLinks : oauthState'[l].cut => oauthState'[l].consumed
    BY DEF SellerIInv
<1> QED
    BY <1>1, <1>2, <1>3, <1>5, <1>6, <1>8, <1>9, <1>10 DEF SellerIInv

\* The transaction of a callback claims a link, that of a disconnection all of a club.
LEMMA LinksStep ==
    ASSUME SellerIInv, NEW h \in SellerCalls,
           \/ \E l \in OAuthLinks : ClaimLink(h, l)
           \/ \E c \in SellerClubs : BeginDisconnect(h, c)
    PROVE  SellerIInv'
<1>0. oauthState \in [OAuthLinks -> LinkRows] /\ sellerCall \in [SellerCalls -> Calls] /\ NoCall \in Calls
    BY SellerTypes
<1>1. ASSUME NEW l \in OAuthLinks, ClaimLink(h, l) PROVE SellerIInv'
    <2>0. PICK c \in SellerClubs : c = oauthState[l].club
        BY <1>0, <1>1 DEF ClaimLink, Claimable, LinkRows
    <2> DEFINE x == [NoCall EXCEPT !.step = "exchange", !.club = c, !.link = l]
    <2>1. ~oauthState[l].consumed /\ ~oauthState[l].cut /\ l # NoSeller
        BY <1>0, <1>1, SellerAssumption DEF ClaimLink, Claimable, LinkRows, SellerIInv
    <2>2. /\ x \in Calls /\ x.step = "exchange" /\ x.club = c /\ x.link = l
          /\ x.links = {} /\ ~x.stale
        BY DEF NoCall, Calls, CallSteps
    <2>3. sellerCall' = [sellerCall EXCEPT ![h] = x] /\ UNCHANGED <<connection, mixed, callCrashes>>
        BY <1>1, <2>0 DEF ClaimLink
    <2> HIDE DEF x
    <2>4. oauthState' = [oauthState EXCEPT ![l].consumed = TRUE]
        BY <1>1 DEF ClaimLink
    <2>10. oauthState'[l].consumed = TRUE
        BY <1>0, <2>4 DEF LinkRows
    <2>5. /\ oauthState' \in [OAuthLinks -> LinkRows]
          /\ \A m \in OAuthLinks : /\ oauthState'[m].club = oauthState[m].club
                                   /\ oauthState'[m].cut = oauthState[m].cut
                                   /\ oauthState[m].consumed => oauthState'[m].consumed
        BY <1>0, <2>4 DEF LinkRows
    <2>6. sellerCall'[h] = x
        BY <1>0, <2>3
    <2>7. oauthState'[l].consumed /\ oauthState'[l].club = c /\ ~oauthState'[l].cut
        <3>1. oauthState'[l].club = c
            BY <2>0, <2>5
        <3>2. oauthState'[l].cut = oauthState[l].cut
            BY <2>5
        <3> QED
            BY <2>1, <2>10, <3>1, <3>2
    <2>8. CallKnows(h)'
        BY <2>1, <2>2, <2>6, <2>7 DEF CallKnows
    <2>9. ~oauthState[x.link].consumed
        BY <2>1, <2>2
    <2> QED
        BY <2>2, <2>3, <2>5, <2>8, <2>9, BeginStep
<1>2. ASSUME NEW c \in SellerClubs, BeginDisconnect(h, c) PROVE SellerIInv'
    <2> DEFINE x == [NoCall EXCEPT !.step = "disconnect", !.club = c, !.links = LinksOf(c)]
    <2>1. LinksOf(c) \subseteq OAuthLinks /\ \A l \in LinksOf(c) : oauthState[l].club = c
        BY DEF LinksOf
    <2>2. x \in Calls /\ x.step = "disconnect" /\ x.club = c /\ x.link = NoSeller /\ x.links = LinksOf(c)
        BY <2>1 DEF NoCall, Calls, CallSteps
    <2>3. sellerCall' = [sellerCall EXCEPT ![h] = x] /\ UNCHANGED <<connection, mixed, callCrashes>>
        BY <1>2 DEF BeginDisconnect
    <2> HIDE DEF x
    <2>4. oauthState' = [l \in OAuthLinks |->
             IF l \in LinksOf(c) THEN [oauthState[l] EXCEPT !.consumed = TRUE] ELSE oauthState[l]]
        BY <1>2 DEF BeginDisconnect, Cut
    <2>5. \A m \in OAuthLinks : /\ oauthState'[m] \in LinkRows
                                /\ m \in LinksOf(c) => oauthState'[m].consumed
                                /\ oauthState'[m].club = oauthState[m].club
                                /\ oauthState'[m].cut = oauthState[m].cut
                                /\ oauthState[m].consumed => oauthState'[m].consumed
        <3> TAKE m \in OAuthLinks
        <3>1. oauthState[m] \in LinkRows
            BY <1>0
        <3>2. CASE m \in LinksOf(c)
            <4>1. oauthState'[m] = [oauthState[m] EXCEPT !.consumed = TRUE]
                BY <2>4, <3>2
            <4> QED
                BY <3>1, <4>1 DEF LinkRows
        <3>3. CASE m \notin LinksOf(c)
            <4>1. oauthState'[m] = oauthState[m]
                BY <2>4, <3>3
            <4> QED
                BY <3>1, <3>3, <4>1
        <3> QED
            BY <3>2, <3>3
    <2>6. oauthState' \in [OAuthLinks -> LinkRows]
        <3>1. oauthState' = [m \in OAuthLinks |-> oauthState'[m]]
            BY <2>4
        <3> QED
            BY <2>5, <3>1
    <2>7. sellerCall'[h] = x
        BY <1>0, <2>3
    <2>8. \A l \in LinksOf(c) : oauthState'[l].club = c /\ oauthState'[l].consumed
        BY <2>1, <2>5
    <2>9. CallKnows(h)'
        BY <2>2, <2>7, <2>8 DEF CallKnows
    <2> QED
        BY <2>2, <2>3, <2>5, <2>6, <2>9, BeginStep
<1> QED
    BY <1>1, <1>2

\* The other parts of the system leave the connections alone.
LEMMA SellerStutter ==
    ASSUME SellerIInv, UNCHANGED sellerVars
    PROVE  SellerIInv'
<1>1. UNCHANGED <<connection, oauthState, sellerCall, mixed, callCrashes>>
    BY DEF sellerVars
<1>2. SellerTypeOK' /\ OneClubPerSeller' /\ TokenIsTheSellers' /\ DisconnectHolds' /\ LinksApart'
    BY <1>1 DEF SellerIInv, SellerTypeOK, OneClubPerSeller, TokenIsTheSellers, DisconnectHolds, LinksApart
<1>3. \A h \in SellerCalls : CallKnows(h)'
    BY <1>1 DEF SellerIInv, CallKnows
<1>4. \A c \in SellerClubs : RowKnows(c)'
    BY <1>1 DEF SellerIInv, RowKnows
<1> QED
    BY <1>1, <1>2, <1>3, <1>4 DEF SellerIInv

\* Every step of a call keeps the invariant.
LEMMA SellerStep ==
    ASSUME SellerIInv, [SellerNext]_sellerVars
    PROVE  SellerIInv'
BY LapseStep, CallStep, SaveStep, CommitStep, LinksStep, SellerStutter DEF SellerNext

\* What the invariant says of the properties a run checks.
LEMMA SellerShown ==
    ASSUME SellerIInv
    PROVE  SellerInv
<1>1. LinkIsUsedOnce
    BY DEF SellerIInv, LinksApart, CallKnows, LinkIsUsedOnce
<1> QED
    BY <1>1 DEF SellerIInv, SellerInv

\* Connections of sellers: an account collects for one club, a token is the account's,
\* a disconnection holds, a link is used once (seller-connection.service.ts), whatever
\* the calls, the links and the crashes.
THEOREM SellerInvariance == SellerSpec => []SellerInv
<1>1. SellerInit => SellerIInv
    BY InitSeller
<1>2. SellerIInv /\ [SellerNext]_sellerVars => SellerIInv'
    BY SellerStep
<1>3. SellerIInv => SellerInv
    BY SellerShown
<1> QED
    BY <1>1, <1>2, <1>3, PTL DEF SellerSpec

-----------------------------------------------------------------------------
(***************************************************************************)
(* Stock                                                                   *)
(***************************************************************************)
\* A row of the catalogue, and an edit being served.
GoodRows == [status : TicketTypeStatuses \cup ProductStatuses, total : 0..MaxTotal,
             sold : Nat, held : Nat]
StockEdits == [op : StockOps, of : Goods \cup {NoGood}, saw : GoodRows]

\* A row of good g, when o are the goods withdrawn and s those that an edit wrote over
\* a change.  The units sold and held fit, nothing of them is left of a row that is
\* gone, and a product counts none.
RowFits(g, row, o, s) ==
    /\ row \in GoodRows
    /\ row.status \in IF g \in TicketTypes THEN TicketTypeStatuses ELSE ProductStatuses
    /\ g \in TicketTypes => row.sold + row.held <= row.total
    /\ g \in Products => row.sold = 0 /\ row.held = 0
    /\ row.status = "NONE" => row.sold = 0 /\ row.held = 0
    /\ row.held > 0 => row.status = "ACTIVE"
    /\ g \in o \ s => row.status = "INACTIVE"
    /\ g \in Products \ s /\ row.status = "OUT_OF_STOCK" => row.total = 0

\* The inductive invariant.
StockIInv ==
    /\ good \in [Goods -> GoodRows]
    /\ stockEdit \in [StockEditors -> StockEdits]
    /\ \A g \in Goods : RowFits(g, good[g], off, strayed)
    /\ \A e \in StockEditors : stockEdit[e].op # "idle" => stockEdit[e].of \in Goods
    /\ off \subseteq Goods

\* What the constants and the rows that do not exist are.
LEMMA StockConstants ==
    /\ MaxTotal \in Nat /\ TicketTypes \cap Products = {}
    /\ NoRow \in GoodRows /\ NoEdit \in StockEdits /\ NoEdit.op = "idle"
    /\ NoRow.status = "NONE" /\ NoRow.total = 0 /\ NoRow.sold = 0 /\ NoRow.held = 0
BY StockAssumption DEF NoRow, NoEdit, GoodRows, StockEdits, TicketTypeStatuses, StockOps

\* No good exists at first.
LEMMA InitStock == StockInit => StockIInv
<1> SUFFICES ASSUME StockInit PROVE StockIInv
    OBVIOUS
<1>1. good \in [Goods -> GoodRows] /\ stockEdit \in [StockEditors -> StockEdits]
    BY StockConstants DEF StockInit
<1>2. ASSUME NEW g \in Goods PROVE RowFits(g, good[g], off, strayed)
    <2>1. good[g] = NoRow /\ off = {}
        BY DEF StockInit
    <2> QED
        BY <2>1, StockConstants DEF RowFits, TicketTypeStatuses, ProductStatuses
<1>3. \A e \in StockEditors : stockEdit[e].op = "idle"
    BY StockConstants DEF StockInit
<1> QED
    BY <1>1, <1>2, <1>3 DEF StockIInv, StockInit

\* One row changes; what is said of the others goes on holding.
LEMMA RowChanges ==
    ASSUME StockIInv, NEW g \in Goods, NEW row \in GoodRows, good' = [good EXCEPT ![g] = row],
           stockEdit' \in [StockEditors -> StockEdits],
           \A e \in StockEditors : stockEdit'[e].op # "idle" => stockEdit'[e].of \in Goods,
           \A h \in Goods \ {g} : (h \in off' <=> h \in off) /\ (h \in strayed' <=> h \in strayed),
           RowFits(g, row, off', strayed'), off' \subseteq Goods
    PROVE  StockIInv'
<1>1. /\ good' \in [Goods -> GoodRows] /\ good'[g] = row
      /\ \A h \in Goods \ {g} : good'[h] = good[h]
    BY DEF StockIInv
<1>2. ASSUME NEW h \in Goods PROVE RowFits(h, good'[h], off', strayed')
    <2>1. CASE h = g
        BY <1>1, <2>1
    <2>2. CASE h # g
        <3>1. RowFits(h, good[h], off, strayed) /\ good'[h] = good[h]
            BY <1>1, <2>2 DEF StockIInv
        <3> QED
            BY <2>2, <3>1 DEF RowFits
    <2> QED
        BY <2>1, <2>2
<1> QED
    BY <1>1, <1>2 DEF StockIInv

\* A unit is sold, held, settled or freed; a row is created.
LEMMA UnitStep ==
    ASSUME StockIInv, NEW g \in Goods,
           \/ \E n \in 0..MaxTotal : CreateGood(g, n)
           \/ SellUnit(g) \/ HoldUnit(g) \/ SettleUnit(g) \/ FreeUnit(g)
    PROVE  StockIInv'
<1> DEFINE row == good[g]
<1>0. /\ row \in GoodRows /\ RowFits(g, row, off, strayed) /\ good \in [Goods -> GoodRows]
      /\ MaxTotal \in Nat /\ row.total \in 0..MaxTotal /\ row.sold \in Nat /\ row.held \in Nat
    BY StockConstants DEF StockIInv, GoodRows
<1>1. UNCHANGED <<stockEdit, strayed, off>>
    BY DEF CreateGood, SellUnit, HoldUnit, SettleUnit, FreeUnit
<1>2. ASSUME NEW new \in GoodRows, good' = [good EXCEPT ![g] = new], RowFits(g, new, off, strayed)
      PROVE  StockIInv'
    <2>1. /\ stockEdit' \in [StockEditors -> StockEdits]
          /\ \A e \in StockEditors : stockEdit'[e].op # "idle" => stockEdit'[e].of \in Goods
        BY <1>1 DEF StockIInv
    <2>2. RowFits(g, new, off', strayed')
        BY <1>1, <1>2
    <2>3. off' \subseteq Goods
        BY <1>1 DEF StockIInv
    <2> QED
        BY <1>1, <1>2, <2>1, <2>2, <2>3, RowChanges
<1>3. ASSUME NEW n \in 0..MaxTotal, CreateGood(g, n) PROVE StockIInv'
    <2> DEFINE status == IF g \in Products THEN ProductStatus(n) ELSE "ACTIVE"
               new == [NoRow EXCEPT !.total = n, !.status = status]
    <2>1. /\ status \in {"ACTIVE", "OUT_OF_STOCK"} /\ (status = "OUT_OF_STOCK" => g \in Products /\ n = 0)
          /\ status \in IF g \in TicketTypes THEN TicketTypeStatuses ELSE ProductStatuses
        BY StockConstants DEF ProductStatus, TicketTypeStatuses, ProductStatuses, Goods
    <2>2. good' = [good EXCEPT ![g] = new] /\ row.status = "NONE" /\ g \notin strayed
        BY <1>3 DEF CreateGood, Exists
    <2> HIDE DEF status
    <2>3. new \in GoodRows /\ new.total = n /\ new.status = status /\ new.sold = 0 /\ new.held = 0
        BY <2>1 DEF NoRow, GoodRows, TicketTypeStatuses, ProductStatuses
    <2> HIDE DEF new
    <2>4. g \notin off
        BY <1>0, <2>2 DEF RowFits
    <2>5. RowFits(g, new, off, strayed)
        BY <2>1, <2>3, <2>4, StockConstants DEF RowFits
    <2> QED
        BY <1>2, <2>2, <2>3, <2>5
<1>4. ASSUME SellUnit(g), g \in TicketTypes PROVE StockIInv'
    <2> DEFINE new == [row EXCEPT !.sold = row.sold + 1]
    <2>1. /\ new \in GoodRows /\ new.total = row.total /\ new.status = row.status
          /\ new.sold = row.sold + 1 /\ new.held = row.held
        BY <1>0 DEF GoodRows
    <2>2. good' = [good EXCEPT ![g] = new]
        BY <1>0, <1>4 DEF SellUnit
    <2>3. row.status # "NONE" /\ row.total - row.sold - row.held >= 1 /\ g \notin Products
        BY <1>4, StockConstants DEF SellUnit, Exists, FreeOf
    <2> HIDE DEF new
    <2>4. new.sold + new.held <= new.total
        BY <1>0, <2>1, <2>3
    <2>5. RowFits(g, new, off, strayed)
        BY <1>0, <2>1, <2>3, <2>4 DEF RowFits
    <2> QED
        BY <1>2, <2>1, <2>2, <2>5
<1>5. ASSUME SellUnit(g), g \notin TicketTypes PROVE StockIInv'
    <2> DEFINE new == [row EXCEPT !.total = row.total - 1]
    <2>1. row.status # "NONE" /\ row.total >= 1 /\ g \in Products
        BY <1>5 DEF SellUnit, Exists, FreeOf, Goods
    <2>2. row.total - 1 \in 0..MaxTotal
        BY <1>0, <2>1
    <2>3. /\ new \in GoodRows /\ new.total = row.total - 1 /\ new.status = row.status
          /\ new.sold = row.sold /\ new.held = row.held
        BY <1>0, <2>2 DEF GoodRows
    <2>4. good' = [good EXCEPT ![g] = new]
        BY <1>0, <1>5 DEF SellUnit
    <2> HIDE DEF new
    <2>5. RowFits(g, new, off, strayed)
        BY <1>0, <1>5, <2>1, <2>3 DEF RowFits
    <2> QED
        BY <1>2, <2>3, <2>4, <2>5
<1>6. ASSUME HoldUnit(g) PROVE StockIInv'
    <2> DEFINE new == [row EXCEPT !.held = row.held + 1]
    <2>1. /\ new \in GoodRows /\ new.total = row.total /\ new.status = row.status
          /\ new.sold = row.sold /\ new.held = row.held + 1
        BY <1>0 DEF GoodRows
    <2>2. good' = [good EXCEPT ![g] = new]
        BY <1>0, <1>6 DEF HoldUnit
    <2>3. row.status = "ACTIVE" /\ row.total - row.sold - row.held >= 1 /\ g \in TicketTypes /\ g \notin Products
        BY <1>6, StockConstants DEF HoldUnit, FreeOf
    <2> HIDE DEF new
    <2>4. new.sold + new.held <= new.total
        BY <1>0, <2>1, <2>3
    <2>5. RowFits(g, new, off, strayed)
        BY <1>0, <2>1, <2>3, <2>4 DEF RowFits
    <2> QED
        BY <1>2, <2>1, <2>2, <2>5
<1>7. ASSUME SettleUnit(g) PROVE StockIInv'
    <2> DEFINE new == [row EXCEPT !.held = row.held - 1, !.sold = row.sold + 1]
    <2>0. row.held > 0
        BY <1>7 DEF SettleUnit
    <2>1. row.held - 1 \in Nat /\ row.sold + 1 \in Nat
        BY <1>0, <2>0
    <2>2. /\ new \in GoodRows /\ new.total = row.total /\ new.status = row.status
          /\ new.sold = row.sold + 1 /\ new.held = row.held - 1
        BY <1>0, <2>1 DEF GoodRows
    <2>3. good' = [good EXCEPT ![g] = new]
        BY <1>0, <1>7 DEF SettleUnit
    <2>4. row.status = "ACTIVE" /\ g \in TicketTypes /\ g \notin Products
        BY <1>0, <2>0, StockConstants DEF RowFits, Goods
    <2> HIDE DEF new
    <2>5. new.sold + new.held <= new.total
        BY <1>0, <2>2, <2>4 DEF RowFits
    <2>6. RowFits(g, new, off, strayed)
        BY <1>0, <2>2, <2>4, <2>5 DEF RowFits
    <2> QED
        BY <1>2, <2>2, <2>3, <2>6
<1>8. ASSUME FreeUnit(g) PROVE StockIInv'
    <2> DEFINE new == [row EXCEPT !.held = row.held - 1]
    <2>0. row.held > 0
        BY <1>8 DEF FreeUnit
    <2>1. row.held - 1 \in Nat
        BY <1>0, <2>0
    <2>2. /\ new \in GoodRows /\ new.total = row.total /\ new.status = row.status
          /\ new.sold = row.sold /\ new.held = row.held - 1
        BY <1>0, <2>1 DEF GoodRows
    <2>3. good' = [good EXCEPT ![g] = new]
        BY <1>0, <1>8 DEF FreeUnit
    <2>4. row.status = "ACTIVE" /\ g \in TicketTypes /\ g \notin Products
        BY <1>0, <2>0, StockConstants DEF RowFits, Goods
    <2> HIDE DEF new
    <2>5. new.sold + new.held <= new.total
        BY <1>0, <2>2, <2>4 DEF RowFits
    <2>6. RowFits(g, new, off, strayed)
        BY <1>0, <2>2, <2>4, <2>5 DEF RowFits
    <2> QED
        BY <1>2, <2>2, <2>3, <2>6
<1> QED
    BY <1>3, <1>4, <1>5, <1>6, <1>7, <1>8

\* An edit reads its row.
LEMMA BeginEditStep ==
    ASSUME StockIInv, NEW e \in StockEditors, NEW g \in Goods, NEW op \in StockOps \ {"idle"},
           BeginStockEdit(e, g, op)
    PROVE  StockIInv'
<1>1. UNCHANGED <<good, strayed, off>>
      /\ stockEdit' = [stockEdit EXCEPT ![e] = [op |-> op, of |-> g, saw |-> good[g]]]
    BY DEF BeginStockEdit
<1>2. good[g] \in GoodRows
    BY DEF StockIInv
<1>3. [op |-> op, of |-> g, saw |-> good[g]] \in StockEdits
    BY <1>2 DEF StockEdits
<1>4. stockEdit' \in [StockEditors -> StockEdits]
      /\ \A d \in StockEditors : stockEdit'[d].op # "idle" => stockEdit'[d].of \in Goods
    BY <1>1, <1>3 DEF StockIInv
<1> QED
    BY <1>1, <1>4 DEF StockIInv

\* The status an edit writes: out of stock with no unit, withdrawn as it was.
LEMMA StatusGiven ==
    ASSUME NEW g \in Goods, NEW row \in GoodRows
    PROVE  /\ \A s \in {StatusWithTotal(g, row), StatusActivated(g, row)} :
                  /\ s \in TicketTypeStatuses \cup ProductStatuses /\ s # "NONE"
                  /\ s \in IF g \in TicketTypes THEN TicketTypeStatuses ELSE ProductStatuses
                  /\ g \in Products /\ s = "OUT_OF_STOCK" => row.total = 0
           /\ row.status = "INACTIVE" => StatusWithTotal(g, row) = "INACTIVE"
<1>1. row.total \in 0..MaxTotal /\ g \in TicketTypes \cup Products /\ MaxTotal \in Nat
      /\ ~(g \in TicketTypes /\ g \in Products)
    BY StockConstants DEF GoodRows, Goods
<1>2. /\ g \in Products => StatusActivated(g, row) = IF row.total > 0 THEN "ACTIVE" ELSE "OUT_OF_STOCK"
      /\ g \in TicketTypes => StatusActivated(g, row) \in {"SOLD_OUT", "ACTIVE"}
    BY <1>1 DEF StatusActivated, ProductStatus
<1>3. /\ row.status = "INACTIVE" => StatusWithTotal(g, row) = "INACTIVE"
      /\ row.status # "INACTIVE" /\ g \in Products =>
             StatusWithTotal(g, row) = IF row.total > 0 THEN "ACTIVE" ELSE "OUT_OF_STOCK"
      /\ row.status # "INACTIVE" /\ g \in TicketTypes => StatusWithTotal(g, row) \in {"SOLD_OUT", "ACTIVE"}
    BY <1>1 DEF StatusWithTotal, ProductStatus
<1> QED
    BY <1>1, <1>2, <1>3 DEF TicketTypeStatuses, ProductStatuses

\* An edit writes its columns over the row as it is by then, if the database admits
\* the result.
LEMMA CommitEditStep ==
    ASSUME StockIInv, NEW e \in StockEditors, CommitStockEdit(e)
    PROVE  StockIInv'
<1> DEFINE edit == stockEdit[e]
<1>0. edit \in StockEdits /\ edit.op # "idle" /\ edit.of \in Goods /\ edit.saw \in GoodRows
    BY DEF StockIInv, CommitStockEdit, StockEdits
<1>1. PICK g \in Goods : g = edit.of
    BY <1>0
<1> DEFINE row == good[g]
<1>2. /\ row \in GoodRows /\ RowFits(g, row, off, strayed) /\ good \in [Goods -> GoodRows]
      /\ MaxTotal \in Nat /\ row.total \in 0..MaxTotal /\ row.sold \in Nat /\ row.held \in Nat
    BY StockConstants DEF StockIInv, GoodRows
<1>3. /\ stockEdit' = [stockEdit EXCEPT ![e] = NoEdit]
      /\ strayed' = IF row.status # "NONE" /\ row # edit.saw THEN strayed \cup {g} ELSE strayed
    BY <1>1 DEF CommitStockEdit, Exists
<1>4. /\ stockEdit' \in [StockEditors -> StockEdits]
      /\ \A d \in StockEditors : stockEdit'[d].op # "idle" => stockEdit'[d].of \in Goods
    BY <1>3, StockConstants DEF StockIInv
<1>5. \A h \in Goods \ {g} : h \in strayed' <=> h \in strayed
    BY <1>3
<1>6. ASSUME NEW new \in GoodRows, good' = [good EXCEPT ![g] = new], off' \ {g} = off \ {g},
             RowFits(g, new, off', strayed')
      PROVE  StockIInv'
    <2>1. \A h \in Goods \ {g} : h \in off' <=> h \in off
        BY <1>6
    <2>2. off' \subseteq Goods
        BY <1>6 DEF StockIInv
    <2> QED
        BY <1>4, <1>5, <1>6, <2>1, <2>2, RowChanges
<1>7. good = [good EXCEPT ![g] = row]
    BY <1>2
\* The row as it is: refused, or nothing to do.
<1>8. ASSUME good' = [good EXCEPT ![g] = row], off' \in {off, off \ {g}} PROVE StockIInv'
    <2>1. RowFits(g, row, off', strayed')
        BY <1>2, <1>3, <1>8 DEF RowFits
    <2> QED
        BY <1>2, <1>6, <1>8, <2>1
\* A status and a total that the database admits.
<1>9. ASSUME NEW status \in TicketTypeStatuses \cup ProductStatuses, NEW n \in 0..MaxTotal,
             row.status # "NONE", status # "NONE",
             good' = [good EXCEPT ![g] = [row EXCEPT !.total = n, !.status = status]],
             Admitted(g, [row EXCEPT !.total = n, !.status = status]),
             status \in IF g \in TicketTypes THEN TicketTypeStatuses ELSE ProductStatuses,
             off' \ {g} = off \ {g},
             g \in off' \ strayed' => status = "INACTIVE",
             g \in Products \ strayed' /\ status = "OUT_OF_STOCK" => n = 0
      PROVE  StockIInv'
    <2> DEFINE new == [row EXCEPT !.total = n, !.status = status]
    <2>1. /\ new \in GoodRows /\ new.total = n /\ new.status = status
          /\ new.sold = row.sold /\ new.held = row.held
        BY <1>2 DEF GoodRows
    <2>2. good' = [good EXCEPT ![g] = new] /\ Admitted(g, new)
        BY <1>9
    <2> HIDE DEF new
    <2>3. g \in TicketTypes => /\ row.sold + row.held <= n
                               /\ row.held > 0 => status = row.status
        BY <1>2, <2>1, <2>2 DEF Admitted
    <2>4. g \notin TicketTypes => row.held = 0
        BY <1>2 DEF RowFits, Goods
    <2>5. RowFits(g, new, off', strayed')
        BY <1>2, <1>9, <2>1, <2>3, <2>4 DEF RowFits
    <2> QED
        BY <1>6, <1>9, <2>1, <2>2, <2>5
<1>10. CASE row.status = "NONE"
    <2>1. good' = good /\ off' = off
        BY <1>1, <1>10 DEF CommitStockEdit, Exists
    <2> QED
        BY <1>7, <1>8, <2>1
<1>11. ASSUME row.status # "NONE", edit.op = "total", NEW n \in 0..MaxTotal, off' = off,
              LET new == [row EXCEPT !.total = n,
                                     !.status = StatusWithTotal(g, [edit.saw EXCEPT !.total = n])]
              IN  good' = [good EXCEPT ![g] = IF Admitted(g, new) THEN new ELSE row]
       PROVE  StockIInv'
    <2> DEFINE seen == [edit.saw EXCEPT !.total = n]
               status == StatusWithTotal(g, seen)
               new == [row EXCEPT !.total = n, !.status = status]
    <2>1. seen \in GoodRows /\ seen.status = edit.saw.status /\ seen.total = n
        BY <1>0 DEF GoodRows
    <2> HIDE DEF seen
    <2>2. /\ status \in TicketTypeStatuses \cup ProductStatuses /\ status # "NONE"
          /\ status \in IF g \in TicketTypes THEN TicketTypeStatuses ELSE ProductStatuses
          /\ g \in Products /\ status = "OUT_OF_STOCK" => n = 0
          /\ seen.status = "INACTIVE" => status = "INACTIVE"
        BY <2>1, StatusGiven
    <2>3. good' = [good EXCEPT ![g] = IF Admitted(g, new) THEN new ELSE row]
        BY <1>11 DEF seen
    <2> HIDE DEF status
    <2>4. g \in off' \ strayed' => status = "INACTIVE"
        BY <1>2, <1>3, <1>11, <2>1, <2>2 DEF RowFits
    <2>5. CASE Admitted(g, new)
        <3>1. good' = [good EXCEPT ![g] = new]
            BY <2>3, <2>5
        <3> QED
            BY <1>9, <1>11, <2>2, <2>4, <2>5, <3>1
    <2>6. CASE ~Admitted(g, new)
        <3>1. good' = [good EXCEPT ![g] = row]
            BY <2>3, <2>6
        <3> QED
            BY <1>8, <1>11, <3>1
    <2> QED
        BY <2>5, <2>6
<1>12. ASSUME row.status # "NONE", edit.op = "activate", off' = off \ {g},
              LET new == [row EXCEPT !.status = StatusActivated(g, edit.saw)]
              IN  good' = [good EXCEPT ![g] = IF Admitted(g, new) THEN new ELSE row]
       PROVE  StockIInv'
    <2> DEFINE status == StatusActivated(g, edit.saw)
               new == [row EXCEPT !.total = row.total, !.status = status]
    <2>1. /\ status \in TicketTypeStatuses \cup ProductStatuses /\ status # "NONE"
          /\ status \in IF g \in TicketTypes THEN TicketTypeStatuses ELSE ProductStatuses
          /\ g \in Products /\ status = "OUT_OF_STOCK" => edit.saw.total = 0
        BY <1>0, StatusGiven
    <2>2. new = [row EXCEPT !.status = status]
        BY <1>2 DEF GoodRows
    <2>3. good' = [good EXCEPT ![g] = IF Admitted(g, new) THEN new ELSE row]
        BY <1>12, <2>2
    <2> HIDE DEF status
    <2>4. g \in Products \ strayed' /\ status = "OUT_OF_STOCK" => row.total = 0
        BY <1>3, <1>12, <2>1
    <2>5. CASE Admitted(g, new)
        <3>1. good' = [good EXCEPT ![g] = new]
            BY <2>3, <2>5
        <3> QED
            BY <1>2, <1>9, <1>12, <2>1, <2>4, <2>5, <3>1
    <2>6. CASE ~Admitted(g, new)
        <3>1. good' = [good EXCEPT ![g] = row]
            BY <2>3, <2>6
        <3> QED
            BY <1>8, <1>12, <3>1
    <2> QED
        BY <2>5, <2>6
<1>13. ASSUME row.status # "NONE", edit.op = "deactivate",
              off' = IF good'[g].status = "INACTIVE" THEN off \cup {g} ELSE off,
              LET new == [row EXCEPT !.status = "INACTIVE"]
              IN  good' = [good EXCEPT ![g] = IF Admitted(g, new) THEN new ELSE row]
       PROVE  StockIInv'
    <2> DEFINE new == [row EXCEPT !.total = row.total, !.status = "INACTIVE"]
    <2>2. new = [row EXCEPT !.status = "INACTIVE"]
        BY <1>2 DEF GoodRows
    <2>3. good' = [good EXCEPT ![g] = IF Admitted(g, new) THEN new ELSE row]
        BY <1>13, <2>2
    <2>4. "INACTIVE" \in TicketTypeStatuses /\ "INACTIVE" \in ProductStatuses
        BY DEF TicketTypeStatuses, ProductStatuses
    <2>5. CASE Admitted(g, new)
        <3>1. good' = [good EXCEPT ![g] = new]
            BY <2>3, <2>5
        <3>2. off' \ {g} = off \ {g}
            BY <1>13
        <3> QED
            BY <1>2, <1>9, <1>13, <2>4, <2>5, <3>1, <3>2
    <2>6. CASE ~Admitted(g, new)
        <3>1. good' = [good EXCEPT ![g] = row]
            BY <2>3, <2>6
        <3>2. good'[g] = row
            BY <1>2, <3>1
        <3>3. off' \ {g} = off \ {g}
            BY <1>13
        <3>4. RowFits(g, row, off', strayed')
            BY <1>2, <1>3, <1>13, <3>2 DEF RowFits
        <3> QED
            BY <1>2, <1>6, <3>1, <3>3, <3>4
    <2> QED
        BY <2>5, <2>6
<1>14. ASSUME row.status # "NONE", edit.op = "delete",
              off' = IF good'[g].status # "NONE" THEN off ELSE off \ {g},
              LET new == IF g \in TicketTypes /\ row.sold > 0 THEN row ELSE NoRow
              IN  good' = [good EXCEPT ![g] = IF Admitted(g, new) THEN new ELSE row]
       PROVE  StockIInv'
    <2>1. \/ good' = [good EXCEPT ![g] = row]
          \/ good' = [good EXCEPT ![g] = NoRow]
        BY <1>14
    <2>2. CASE good' = [good EXCEPT ![g] = row]
        BY <1>8, <1>14, <2>2
    <2>3. CASE good' = [good EXCEPT ![g] = NoRow]
        <3>1. off' = off \ {g}
            BY <1>2, <1>14, <2>3, StockConstants
        <3>2. RowFits(g, NoRow, off', strayed')
            BY <3>1, StockConstants DEF RowFits, TicketTypeStatuses, ProductStatuses
        <3> QED
            BY <1>6, <2>3, <3>1, <3>2, StockConstants
    <2> QED
        BY <2>1, <2>2, <2>3
<1> QED
    BY <1>1, <1>10, <1>11, <1>12, <1>13, <1>14 DEF CommitStockEdit, Exists

\* Nothing changes when the catalogue rests.
LEMMA StockStutter ==
    ASSUME StockIInv, UNCHANGED stockVars
    PROVE  StockIInv'
BY DEF StockIInv, stockVars

\* Every step of the catalogue keeps the invariant.
LEMMA StockStep ==
    ASSUME StockIInv, [StockNext]_stockVars
    PROVE  StockIInv'
BY UnitStep, BeginEditStep, CommitEditStep, StockStutter DEF StockNext

\* The invariant is what is asked of the catalogue.
LEMMA StockShown ==
    ASSUME StockIInv
    PROVE  StockInv
<1>1. ASSUME NEW g \in Goods
      PROVE  RowFits(g, good[g], off, strayed) /\ good[g].total \in 0..MaxTotal /\ good[g].sold \in Nat /\ good[g].held \in Nat
    BY DEF StockIInv, GoodRows
<1>2. TicketTypes \subseteq Goods /\ Products \subseteq Goods /\ MaxTotal \in Nat
    BY StockConstants DEF Goods
<1>3. StockTypeOK
    BY <1>1 DEF StockTypeOK, RowFits
<1>4. NothingSoldIsLost
    <2> SUFFICES ASSUME NEW g \in TicketTypes PROVE FreeOf(g, good[g]) >= 0
        BY DEF NothingSoldIsLost
    <2>1. good[g].sold + good[g].held <= good[g].total
        BY <1>1, <1>2 DEF RowFits
    <2>2. good[g].total \in Nat /\ good[g].sold \in Nat /\ good[g].held \in Nat
        BY <1>1, <1>2
    <2> QED
        BY <2>1, <2>2 DEF FreeOf
<1>5. PromisedStays /\ SoldStays
    BY <1>1, <1>2 DEF PromisedStays, SoldStays, RowFits, Exists
<1>6. OutIsOut
    BY <1>1, <1>2 DEF OutIsOut, RowFits
<1>7. WithdrawnStays
    BY <1>1 DEF WithdrawnStays, RowFits, StockIInv
<1> QED
    BY <1>3, <1>4, <1>5, <1>6, <1>7 DEF StockInv

\* What was sold and what is held fit in the total, and what was withdrawn
\* from sale is not sold unless an edit wrote over it (tickets.service.ts,
\* products.service.ts).
THEOREM StockInvariance == StockSpec => []StockInv
<1>1. StockInit => StockIInv
    BY InitStock
<1>2. StockIInv /\ [StockNext]_stockVars => StockIInv'
    BY StockStep
<1>3. StockIInv => StockInv
    BY StockShown
<1> QED
    BY <1>1, <1>2, <1>3, PTL DEF StockSpec

-----------------------------------------------------------------------------
(***************************************************************************)
(* Promotions                                                              *)
(***************************************************************************)
\* An item of a promotion, the promotion, and an edit of it.
PromoItems == [of : PromoGoods, base : Nat, final : Nat]
PromoRows == [status : PromotionStatuses, event : PromoEvents \cup {NoPromoEvent},
              manual : BOOLEAN, base : Nat, final : Nat, over : BOOLEAN,
              items : SUBSET PromoItems]
PromoEdits == [op : {"idle", "edit", "replace", "status", "made"}, saw : PromoRows, new : PromoRows]

\* A list of items, none of which costs more than it would without its discount.
DiscountedItems(items) ==
    items \subseteq PromoItems /\ IsFiniteSet(items) /\ \A item \in items : item.final <= item.base

\* The tickets of a list are those of the event of the promotion.
ItemsOfEvent(items, event) ==
    \A item \in items : item.of \in PromoTickets => EventOfGood[item.of] = event

\* What an edit is about to write.
EditKnows(x) ==
    /\ DiscountedItems(x.saw.items) /\ DiscountedItems(x.new.items)
    /\ x.op \in {"edit", "replace"} =>
         /\ x.new.base = BaseOf(x.new.items)
         /\ ~x.new.manual => x.new.final = FinalOf(x.new.items) /\ x.new.final <= x.new.base
    /\ x.op = "edit" => x.new.items = x.saw.items
    /\ x.op = "replace" => ItemsOfEvent(x.new.items, x.new.event)
    /\ x.op = "status" => x.new.status \in {"ACTIVE", "INACTIVE"}

\* The row, when c says that edits crossed and l that an edit left its items.
RowIsPriced(row, c, l) ==
    /\ DiscountedItems(row.items)
    /\ row.status \in {"ACTIVE", "INACTIVE"} =>
         /\ ~row.manual => row.final <= row.base
         /\ ~c => /\ row.base = BaseOf(row.items)
                  /\ ~row.manual => row.final = FinalOf(row.items)
         /\ ~c /\ ~l => ItemsOfEvent(row.items, row.event)

\* The inductive invariant.
PromoIInv ==
    /\ promotion \in PromoRows /\ RowIsPriced(promotion, crossed, itemsLeft)
    /\ unitPrice \in [PromoGoods -> Nat]
    /\ promoEdit \in [PromoEditors -> PromoEdits]
    /\ \A e \in PromoEditors : EditKnows(promoEdit[e])
    /\ promoOrder \in [PromoOrders -> PromoOrderStatuses]
    /\ crossed \in BOOLEAN /\ itemsLeft \in BOOLEAN

-----------------------------------------------------------------------------
\* The sum of the prices, with and without discounts.
LEMMA BaseIsSum ==
    ASSUME NEW S
    PROVE  BaseOf(S) = SumOver([item \in S |-> item.base], S)
<1> DEFINE priced == [item \in S |-> item.base]
           Reads(g) == g = [s \in SUBSET S |-> IF s = {} THEN 0
                                               ELSE FirstOf(s).base + g[s \ {FirstOf(s)}]]
           Sums(g)  == g = [s \in SUBSET S |-> IF s = {} THEN 0
                                               ELSE priced[FirstOf(s)] + g[s \ {FirstOf(s)}]]
<1>1. BaseOf(S) = (CHOOSE g : Reads(g))[S]
    BY DEF BaseOf, SumOf, MapThenSumSet, MapThenFoldSet, FirstOf
<1>2. SumOver(priced, S) = (CHOOSE g : Sums(g))[S]
    BY DEF SumOver, MapThenSumSet, MapThenFoldSet, FirstOf
<1>3. ASSUME NEW g PROVE Reads(g) <=> Sums(g)
    <2>1. \A s \in SUBSET S : s # {} => FirstOf(s) \in S
        BY FirstOfIn
    <2>2. \A s \in SUBSET S : s # {} => priced[FirstOf(s)] = FirstOf(s).base
        BY <2>1
    <2>3. [s \in SUBSET S |-> IF s = {} THEN 0 ELSE FirstOf(s).base + g[s \ {FirstOf(s)}]]
          = [s \in SUBSET S |-> IF s = {} THEN 0 ELSE priced[FirstOf(s)] + g[s \ {FirstOf(s)}]]
        <3> HIDE DEF priced
        <3> QED BY <2>2, Zenon
    <2> QED
        BY <2>3, Zenon
<1>4. (CHOOSE g : Reads(g)) = (CHOOSE g : Sums(g))
    <2> HIDE DEF Reads, Sums
    <2> QED BY <1>3, Zenon
<1> QED
    BY <1>1, <1>2, <1>4, Zenon

\* The sum of the discounted prices.
LEMMA FinalIsSum ==
    ASSUME NEW S
    PROVE  FinalOf(S) = SumOver([item \in S |-> item.final], S)
<1> DEFINE priced == [item \in S |-> item.final]
           Reads(g) == g = [s \in SUBSET S |-> IF s = {} THEN 0
                                               ELSE FirstOf(s).final + g[s \ {FirstOf(s)}]]
           Sums(g)  == g = [s \in SUBSET S |-> IF s = {} THEN 0
                                               ELSE priced[FirstOf(s)] + g[s \ {FirstOf(s)}]]
<1>1. FinalOf(S) = (CHOOSE g : Reads(g))[S]
    BY DEF FinalOf, SumOf, MapThenSumSet, MapThenFoldSet, FirstOf
<1>2. SumOver(priced, S) = (CHOOSE g : Sums(g))[S]
    BY DEF SumOver, MapThenSumSet, MapThenFoldSet, FirstOf
<1>3. ASSUME NEW g PROVE Reads(g) <=> Sums(g)
    <2>1. \A s \in SUBSET S : s # {} => FirstOf(s) \in S
        BY FirstOfIn
    <2>2. \A s \in SUBSET S : s # {} => priced[FirstOf(s)] = FirstOf(s).final
        BY <2>1
    <2>3. [s \in SUBSET S |-> IF s = {} THEN 0 ELSE FirstOf(s).final + g[s \ {FirstOf(s)}]]
          = [s \in SUBSET S |-> IF s = {} THEN 0 ELSE priced[FirstOf(s)] + g[s \ {FirstOf(s)}]]
        <3> HIDE DEF priced
        <3> QED BY <2>2, Zenon
    <2> QED
        BY <2>3, Zenon
<1>4. (CHOOSE g : Reads(g)) = (CHOOSE g : Sums(g))
    <2> HIDE DEF Reads, Sums
    <2> QED BY <1>3, Zenon
<1> QED
    BY <1>1, <1>2, <1>4, Zenon

\* A list costs no more with its discounts than without.
LEMMA ListIsDiscounted ==
    ASSUME NEW items, DiscountedItems(items)
    PROVE  BaseOf(items) \in Nat /\ FinalOf(items) \in Nat /\ FinalOf(items) <= BaseOf(items)
<1> DEFINE b == [item \in items |-> item.base]
           f == [item \in items |-> item.final]
<1>1. IsFiniteSet(items)
    BY DEF DiscountedItems
<1>2. \A item \in items : b[item] \in Nat /\ f[item] \in Nat /\ f[item] <= b[item]
    BY DEF DiscountedItems, PromoItems
<1>3. BaseOf(items) = SumOver(b, items) /\ FinalOf(items) = SumOver(f, items)
    BY BaseIsSum, FinalIsSum
<1> HIDE DEF b, f
<1>4. SumOver(b, items) \in Nat /\ SumOver(f, items) \in Nat
    BY <1>1, <1>2, SumIsNat
<1>5. \A item \in items : f[item] \in Int /\ b[item] \in Int /\ f[item] <= b[item]
    BY <1>2
<1>6. SumOver(f, items) <= SumOver(b, items)
    BY <1>1, <1>5, SumsOrdered
<1> QED
    BY <1>3, <1>4, <1>6

\* The price of a unit is at most what it was, and not negative.
LEMMA UnitIsDiscounted ==
    ASSUME NEW cents \in Nat, NEW line, line.value \in Nat,
           line.discount \in {"NONE", "PERCENTAGE", "FIXED_AMOUNT"}
    PROVE  Discounted(line, cents) \in Nat /\ Discounted(line, cents) <= cents
<1>1. CASE line.discount = "PERCENTAGE"
    <2> DEFINE p == PercentOf(cents, line.value)
    <2>1. p \in Int /\ p >= 0
        <3> DEFINE n == 2 * cents * line.value + 100
        <3>1. n \in Nat
            OBVIOUS
        <3> HIDE DEF n
        <3>2. n \div 200 \in Int /\ n \div 200 >= 0
            BY <3>1
        <3>3. p = n \div 200
            BY DEF n, PercentOf
        <3> QED BY <3>2, <3>3
    <2>2. Discounted(line, cents) = Max({cents - p, 0})
        BY <1>1 DEF Discounted
    <2> HIDE DEF p
    <2>3. Max({cents - p, 0}) = IF cents - p >= 0 THEN cents - p ELSE 0
        BY <2>1, MaxOfTwo
    <2> QED
        BY <2>1, <2>2, <2>3
<1>2. CASE line.discount = "FIXED_AMOUNT"
    <2>1. Discounted(line, cents) = Max({cents - line.value, 0})
        BY <1>2 DEF Discounted
    <2>2. Max({cents - line.value, 0}) = IF cents - line.value >= 0 THEN cents - line.value ELSE 0
        BY MaxOfTwo
    <2> QED
        BY <2>1, <2>2
<1>3. CASE line.discount = "NONE"
    BY <1>3 DEF Discounted
<1> QED
    BY <1>1, <1>2, <1>3

\* The items the service makes of the lines it is sent.
LEMMA ItemsOfLines ==
    ASSUME unitPrice \in [PromoGoods -> Nat], NEW lines \in PromoLists
    PROVE  DiscountedItems({ItemOf(l) : l \in lines})
<1>1. ASSUME NEW l \in lines
      PROVE  ItemOf(l) \in PromoItems /\ ItemOf(l).final <= ItemOf(l).base
    <2>1. /\ l.of \in PromoGoods /\ l.quantity \in Nat \ {0} /\ l.value \in Nat
          /\ l.discount \in {"NONE", "PERCENTAGE", "FIXED_AMOUNT"}
        BY PromotionAssumption
    <2> DEFINE cents == unitPrice[l.of]
               unit == Discounted(l, cents)
               q == l.quantity
    <2>2. cents \in Nat /\ q \in Nat
        BY <2>1
    <2>3. unit \in Nat /\ unit <= cents
        <3> HIDE DEF cents
        <3> QED BY <2>1, <2>2, UnitIsDiscounted
    <2>4. ItemOf(l) = [of |-> l.of, base |-> cents * q, final |-> unit * q]
        BY DEF ItemOf
    <2> HIDE DEF cents, unit, q
    <2>5. cents * q \in Nat /\ unit * q \in Nat /\ unit * q <= cents * q
        <3> DEFINE d == cents - unit
        <3>1. d \in Nat /\ cents = unit + d
            BY <2>2, <2>3
        <3> HIDE DEF d
        <3>2. cents * q = unit * q + d * q /\ d * q \in Nat /\ unit * q \in Nat
            BY <2>2, <2>3, <3>1
        <3> QED BY <3>2
    <2> QED
        BY <2>1, <2>4, <2>5 DEF PromoItems
<1>2. IsFiniteSet(lines)
    BY PromotionAssumption
<1>3. IsFiniteSet({ItemOf(l) : l \in lines})
    <2> DEFINE T == {ItemOf(l) : l \in lines}
               f == [l \in lines |-> ItemOf(l)]
    <2>1. f \in Surjection(lines, T)
        BY DEF Surjection
    <2> HIDE DEF T, f
    <2>2. IsFiniteSet(T)
        BY <1>2, <2>1, FS_Surjection
    <2> QED
        BY <2>2 DEF T
<1> QED
    BY <1>1, <1>3 DEF DiscountedItems

\* The totals of a row are those of its items.
LEMMA TotalsOf ==
    ASSUME NEW row \in PromoRows, DiscountedItems(row.items), NEW price \in Nat
    PROVE  LET t == Totalled(row, price) IN
           /\ t \in PromoRows /\ t.items = row.items /\ t.event = row.event /\ t.status = row.status
           /\ t.base = BaseOf(t.items)
           /\ ~t.manual => t.final = FinalOf(t.items) /\ t.final <= t.base
<1> DEFINE b == BaseOf(row.items)
           f == IF row.manual THEN price ELSE FinalOf(row.items)
           t == [row EXCEPT !.base = b, !.final = f]
<1>1. Totalled(row, price) = t
    BY DEF Totalled
<1>2. b \in Nat /\ f \in Nat /\ (~row.manual => f <= b /\ f = FinalOf(row.items)) /\ b = BaseOf(row.items)
    BY ListIsDiscounted
<1> HIDE DEF b, f
<1>3. /\ t \in PromoRows /\ t.items = row.items /\ t.event = row.event /\ t.status = row.status
      /\ t.base = b /\ t.final = f /\ t.manual = row.manual
    BY <1>2 DEF PromoRows
<1> HIDE DEF t
<1> QED
    BY <1>1, <1>2, <1>3

-----------------------------------------------------------------------------
\* No promotion exists at first.
LEMMA InitPromo == PromoInit => PromoIInv
<1> SUFFICES ASSUME PromoInit PROVE PromoIInv
    OBVIOUS
<1>1. NoPromotion \in PromoRows /\ NoPromotion.items = {} /\ NoPromotion.status = "NONE"
    BY DEF NoPromotion, PromoRows, PromotionStatuses
<1>2. DiscountedItems({})
    BY FS_EmptySet DEF DiscountedItems
<1>3. NoPromoEdit \in PromoEdits /\ EditKnows(NoPromoEdit)
    BY <1>1, <1>2 DEF NoPromoEdit, PromoEdits, EditKnows
<1>4. ASSUME NEW g \in PromoGoods PROVE Max(PriceSteps[g]) \in Nat
    <2> DEFINE S == PriceSteps[g]
    <2>1. IsFiniteSet(S) /\ S # {} /\ \A x \in S : x \in Nat
        <3>1. PriceSteps \in [PromoGoods -> (SUBSET Nat) \ {{}}]
            BY PromotionAssumption
        <3>2. S \in (SUBSET Nat) \ {{}}
            BY <3>1
        <3>3. \A prices \in {PriceSteps[h] : h \in PromoGoods} \cup PromoLists : IsFiniteSet(prices)
            BY PromotionAssumption
        <3>4. S \in {PriceSteps[h] : h \in PromoGoods} \cup PromoLists
            OBVIOUS
        <3>5. IsFiniteSet(S)
            BY <3>3, <3>4
        <3> QED BY <3>2, <3>5
    <2> HIDE DEF S
    <2>2. \A x \in S : x \in Int
        BY <2>1
    <2>3. Max(S) \in S
        BY <2>1, <2>2, MaxOfFinite
    <2>4. Max(S) \in Nat
        BY <2>1, <2>3
    <2> QED
        BY <2>4 DEF S
<1>5. unitPrice \in [PromoGoods -> Nat]
    BY <1>4 DEF PromoInit
<1> QED
    BY <1>1, <1>2, <1>3, <1>5 DEF PromoInit, PromoIInv, RowIsPriced, PromoOrderStatuses

\* An edit or the row moves, and the orders and prices perhaps.
LEMMA PromoMoves ==
    ASSUME PromoIInv, promotion' \in PromoRows, RowIsPriced(promotion', crossed', itemsLeft'),
           unitPrice' \in [PromoGoods -> Nat], promoEdit' = promoEdit,
           promoOrder' \in [PromoOrders -> PromoOrderStatuses],
           crossed' \in BOOLEAN, itemsLeft' \in BOOLEAN
    PROVE  PromoIInv'
BY DEF PromoIInv

\* What goes on around the promotion, its creation and its deletion.
LEMMA AroundStep ==
    ASSUME PromoIInv,
           \/ DeletePromotion \/ EndPromotion
           \/ \E g \in PromoGoods : \E cents \in PriceSteps[g] : Reprice(g, cents)
           \/ \E ev \in PromoEvents : CloseEvent(ev)
           \/ \E o \in PromoOrders : OrderPromotion(o) \/ ApprovePayment(o) \/ ServePromotion(o)
    PROVE  PromoIInv'
<1>0. /\ promotion \in PromoRows /\ RowIsPriced(promotion, crossed, itemsLeft)
      /\ unitPrice \in [PromoGoods -> Nat] /\ promoOrder \in [PromoOrders -> PromoOrderStatuses]
      /\ crossed \in BOOLEAN /\ itemsLeft \in BOOLEAN
    BY DEF PromoIInv
<1>1. promoEdit' = promoEdit /\ crossed' = crossed /\ itemsLeft' = itemsLeft
    BY DEF DeletePromotion, EndPromotion, Reprice, CloseEvent, OrderPromotion, ApprovePayment, ServePromotion
<1>2. CASE DeletePromotion
    <2> DEFINE new == [promotion EXCEPT !.status = "DELETED", !.items = {}, !.base = 0, !.final = 0]
    <2>1. promotion' = new /\ unitPrice' = unitPrice /\ promoOrder' = promoOrder
        BY <1>2 DEF DeletePromotion
    <2>2. new \in PromoRows /\ new.status = "DELETED" /\ new.items = {}
        BY <1>0 DEF PromoRows, PromotionStatuses
    <2> HIDE DEF new
    <2>3. RowIsPriced(new, crossed, itemsLeft)
        BY <2>2, FS_EmptySet DEF RowIsPriced, DiscountedItems
    <2> QED
        BY <1>0, <1>1, <2>1, <2>2, <2>3, PromoMoves
<1>3. CASE EndPromotion
    <2> DEFINE new == [promotion EXCEPT !.over = TRUE]
    <2>1. promotion' = new /\ unitPrice' = unitPrice /\ promoOrder' = promoOrder
        BY <1>3 DEF EndPromotion
    <2>2. /\ new \in PromoRows /\ new.status = promotion.status /\ new.items = promotion.items
          /\ new.event = promotion.event /\ new.manual = promotion.manual
          /\ new.base = promotion.base /\ new.final = promotion.final
        BY <1>0 DEF PromoRows
    <2> HIDE DEF new
    <2>3. RowIsPriced(new, crossed, itemsLeft)
        BY <1>0, <2>2 DEF RowIsPriced
    <2> QED
        BY <1>0, <1>1, <2>1, <2>2, <2>3, PromoMoves
<1>4. ASSUME NEW g \in PromoGoods, NEW cents \in PriceSteps[g], Reprice(g, cents) PROVE PromoIInv'
    <2>1. cents \in Nat
        BY PromotionAssumption
    <2>2. promotion' = promotion /\ promoOrder' = promoOrder /\ unitPrice' \in [PromoGoods -> Nat]
        BY <1>0, <1>4, <2>1 DEF Reprice
    <2> QED
        BY <1>0, <1>1, <2>2, PromoMoves
<1>5. ASSUME NEW ev \in PromoEvents, CloseEvent(ev) PROVE PromoIInv'
    <2>1. promotion' = promotion /\ promoOrder' = promoOrder /\ unitPrice' = unitPrice
        BY <1>5 DEF CloseEvent
    <2> QED
        BY <1>0, <1>1, <2>1, PromoMoves
<1>6. ASSUME NEW o \in PromoOrders, OrderPromotion(o) \/ ApprovePayment(o) \/ ServePromotion(o) PROVE PromoIInv'
    <2>1. promotion' = promotion /\ unitPrice' = unitPrice
          /\ promoOrder' \in [PromoOrders -> PromoOrderStatuses]
        BY <1>0, <1>6 DEF OrderPromotion, ApprovePayment, ServePromotion, PromoOrderStatuses
    <2> QED
        BY <1>0, <1>1, <2>1, PromoMoves
<1> QED
    BY <1>2, <1>3, <1>4, <1>5, <1>6

\* A promotion is created with the sums of its items.
LEMMA CreateStep ==
    ASSUME PromoIInv, NEW event \in PromoEvents \cup {NoPromoEvent}, NEW lines \in PromoLists \cup {{}},
           NEW manual \in BOOLEAN, NEW price \in ManualPrices,
           CreatePromotion(event, lines, manual, price)
    PROVE  PromoIInv'
<1> DEFINE items == {ItemOf(l) : l \in lines}
           row == [NoPromotion EXCEPT !.status = "ACTIVE", !.event = event, !.manual = manual, !.items = items]
           new == Totalled(row, price)
<1>0. /\ unitPrice \in [PromoGoods -> Nat] /\ promoOrder \in [PromoOrders -> PromoOrderStatuses]
      /\ crossed \in BOOLEAN /\ itemsLeft \in BOOLEAN /\ price \in Nat
    BY PromotionAssumption DEF PromoIInv
<1>1. /\ lines \in PromoLists /\ Resolvable(lines, event)
      /\ promotion' = new
      /\ UNCHANGED <<unitPrice, promoEdit, crossed, itemsLeft, promoOrder>>
    BY DEF CreatePromotion
<1>2. DiscountedItems(items)
    BY <1>0, <1>1, ItemsOfLines
<1>3. ItemsOfEvent(items, event)
    BY <1>1 DEF ItemsOfEvent, Resolvable, ItemOf
<1> HIDE DEF items
<1>4. row \in PromoRows /\ row.items = items /\ row.event = event /\ row.status = "ACTIVE"
    BY <1>2 DEF NoPromotion, PromoRows, PromotionStatuses, DiscountedItems
<1> HIDE DEF row
<1>5. /\ new \in PromoRows /\ new.items = items /\ new.event = event /\ new.status = "ACTIVE"
      /\ new.base = BaseOf(new.items)
      /\ ~new.manual => new.final = FinalOf(new.items) /\ new.final <= new.base
    BY <1>0, <1>2, <1>4, TotalsOf
<1> HIDE DEF new
<1>6. RowIsPriced(new, crossed, itemsLeft)
    BY <1>2, <1>3, <1>5 DEF RowIsPriced
<1> QED
    BY <1>0, <1>1, <1>5, <1>6, PromoMoves

\* An edit begins or ends: the others know what they did.
LEMMA EditMoves ==
    ASSUME PromoIInv, NEW e \in PromoEditors, NEW x \in PromoEdits, EditKnows(x),
           promoEdit' = [promoEdit EXCEPT ![e] = x],
           promotion' \in PromoRows, RowIsPriced(promotion', crossed', itemsLeft'),
           unitPrice' = unitPrice, promoOrder' = promoOrder,
           crossed' \in BOOLEAN, itemsLeft' \in BOOLEAN
    PROVE  PromoIInv'
<1>1. promoEdit' \in [PromoEditors -> PromoEdits] /\ \A d \in PromoEditors : EditKnows(promoEdit'[d])
    BY DEF PromoIInv
<1> QED
    BY <1>1 DEF PromoIInv

\* An edit computes the sums of the items it read or was given.
LEMMA BeginPromoStep ==
    ASSUME PromoIInv, NEW e \in PromoEditors,
           \/ \E event \in PromoEvents \cup {NoPromoEvent}, lines \in PromoLists \cup {{}},
                 manual \in BOOLEAN, price \in ManualPrices \cup {-1}, renew \in BOOLEAN :
                 BeginUpdate(e, event, lines, manual, price, renew)
           \/ \E status \in {"ACTIVE", "INACTIVE"} : BeginStatus(e, status)
    PROVE  PromoIInv'
<1>0. /\ promotion \in PromoRows /\ RowIsPriced(promotion, crossed, itemsLeft)
      /\ unitPrice \in [PromoGoods -> Nat] /\ crossed \in BOOLEAN /\ itemsLeft \in BOOLEAN
      /\ DiscountedItems(promotion.items)
    BY DEF PromoIInv, RowIsPriced
<1>1. UNCHANGED <<promotion, unitPrice, crossed, itemsLeft, promoOrder>>
    BY DEF BeginUpdate, BeginStatus
<1>2. ASSUME NEW x \in PromoEdits, EditKnows(x), promoEdit' = [promoEdit EXCEPT ![e] = x]
      PROVE  PromoIInv'
    BY <1>0, <1>1, <1>2, EditMoves
<1>3. ASSUME NEW status \in {"ACTIVE", "INACTIVE"}, BeginStatus(e, status) PROVE PromoIInv'
    <2> DEFINE new == [promotion EXCEPT !.status = status]
               x == [op |-> "status", saw |-> promotion, new |-> new]
    <2>1. new \in PromoRows /\ new.items = promotion.items /\ new.status = status
        BY <1>0 DEF PromoRows, PromotionStatuses
    <2>2. promoEdit' = [promoEdit EXCEPT ![e] = x]
        BY <1>3 DEF BeginStatus
    <2> HIDE DEF new
    <2>3. x \in PromoEdits
        BY <1>0, <2>1 DEF PromoEdits
    <2>4. EditKnows(x)
        BY <1>0, <2>1 DEF EditKnows
    <2> HIDE DEF x
    <2> QED
        BY <1>2, <2>2, <2>3, <2>4
<1>4. ASSUME NEW event \in PromoEvents \cup {NoPromoEvent}, NEW lines \in PromoLists \cup {{}},
             NEW manual \in BOOLEAN, NEW price \in ManualPrices \cup {-1}, NEW renew \in BOOLEAN,
             BeginUpdate(e, event, lines, manual, price, renew)
      PROVE  PromoIInv'
    <2> DEFINE saw == promotion
               items == IF lines = {} THEN saw.items ELSE {ItemOf(l) : l \in lines}
               asks == IF renew THEN FALSE ELSE saw.over
               row == [saw EXCEPT !.event = event, !.manual = manual, !.items = items, !.over = asks]
               cents == IF price \in ManualPrices THEN price ELSE saw.final
               new == Totalled(row, cents)
               op == IF lines = {} THEN "edit" ELSE "replace"
               x == [op |-> op, saw |-> saw, new |-> new]
    <2>1. promoEdit' = [promoEdit EXCEPT ![e] = x] /\ Resolvable(lines, event)
        BY <1>4 DEF BeginUpdate
    <2>2. DiscountedItems(items)
        <3>1. CASE lines = {}
            BY <1>0, <3>1
        <3>2. CASE lines # {}
            <4>1. lines \in PromoLists
                BY <3>2
            <4> QED BY <1>0, <3>2, <4>1, ItemsOfLines
        <3> QED BY <3>1, <3>2
    <2>3. /\ op \in {"edit", "replace"} /\ (op = "edit" => items = saw.items)
          /\ op = "replace" => ItemsOfEvent(items, event)
        BY <2>1 DEF ItemsOfEvent, Resolvable, ItemOf
    <2>4. cents \in Nat /\ asks \in BOOLEAN
        BY <1>0, PromotionAssumption DEF PromoRows
    <2> HIDE DEF items, asks, cents, op
    <2>5. row \in PromoRows /\ row.items = items /\ row.event = event
        BY <1>0, <2>2, <2>4 DEF PromoRows, DiscountedItems
    <2> HIDE DEF row
    <2>6. /\ new \in PromoRows /\ new.items = items /\ new.event = event
          /\ new.base = BaseOf(new.items)
          /\ ~new.manual => new.final = FinalOf(new.items) /\ new.final <= new.base
        BY <2>2, <2>4, <2>5, TotalsOf
    <2> HIDE DEF new
    <2>7. x \in PromoEdits
        BY <1>0, <2>3, <2>6 DEF PromoEdits
    <2>8. EditKnows(x)
        BY <1>0, <2>2, <2>3, <2>6 DEF EditKnows
    <2> HIDE DEF x
    <2> QED
        BY <1>2, <2>1, <2>7, <2>8
<1> QED
    BY <1>3, <1>4

\* An edit writes the sums it computed, and is marked when the row it read
\* was changed meanwhile.
LEMMA CommitPromoStep ==
    ASSUME PromoIInv, NEW e \in PromoEditors, CommitPromoEdit(e)
    PROVE  PromoIInv'
<1> DEFINE edit == promoEdit[e]
           old == edit.saw
           new == edit.new
           row == promotion
<1>0. /\ row \in PromoRows /\ RowIsPriced(row, crossed, itemsLeft) /\ DiscountedItems(row.items)
      /\ crossed \in BOOLEAN /\ itemsLeft \in BOOLEAN
    BY DEF PromoIInv, RowIsPriced
<1>1. edit \in PromoEdits /\ EditKnows(edit) /\ edit.op \in {"edit", "replace", "status"}
      /\ old \in PromoRows /\ new \in PromoRows
    BY DEF PromoIInv, PromoEdits, CommitPromoEdit
<1>2. /\ promotion' = IF OnFile THEN Written(row, edit) ELSE row
      /\ crossed' = (crossed \/ old # row)
      /\ itemsLeft' = CASE edit.op = "replace" -> FALSE
                        [] edit.op = "edit" /\ new.event # old.event -> TRUE
                        [] OTHER -> itemsLeft
      /\ promoEdit' = [promoEdit EXCEPT ![e] = [NoPromoEdit EXCEPT !.op = "made"]]
      /\ unitPrice' = unitPrice /\ promoOrder' = promoOrder
    BY DEF CommitPromoEdit
<1>3. [NoPromoEdit EXCEPT !.op = "made"] \in PromoEdits /\ EditKnows([NoPromoEdit EXCEPT !.op = "made"])
    <2>1. NoPromotion \in PromoRows /\ NoPromotion.items = {}
        BY DEF NoPromotion, PromoRows, PromotionStatuses
    <2>2. DiscountedItems({})
        BY FS_EmptySet DEF DiscountedItems
    <2> QED
        BY <2>1, <2>2 DEF NoPromoEdit, PromoEdits, EditKnows
<1>4. crossed' \in BOOLEAN /\ itemsLeft' \in BOOLEAN
    <2>1. crossed' \in BOOLEAN
        BY <1>2
    <2>2. itemsLeft' \in BOOLEAN
        BY <1>0, <1>2
    <2> QED BY <2>1, <2>2
<1>5. promotion' \in PromoRows /\ RowIsPriced(promotion', crossed', itemsLeft')
    <2>1. CASE ~OnFile
        <3>1. promotion' = row /\ row.status \notin {"ACTIVE", "INACTIVE"}
            BY <1>2, <2>1 DEF OnFile
        <3> QED
            BY <1>0, <3>1 DEF RowIsPriced
    <2>2. CASE OnFile /\ edit.op = "status"
        <3> DEFINE w == [row EXCEPT !.status = new.status]
        <3>1. promotion' = w
            BY <1>2, <2>2 DEF Written
        <3>2. /\ w \in PromoRows /\ w.items = row.items /\ w.event = row.event /\ w.manual = row.manual
              /\ w.base = row.base /\ w.final = row.final
            BY <1>0, <1>1 DEF PromoRows
        <3>3. itemsLeft' = itemsLeft /\ (~crossed' => ~crossed)
            BY <1>2, <2>2
        <3>4. row.status \in {"ACTIVE", "INACTIVE"}
            BY <2>2 DEF OnFile
        <3> HIDE DEF w
        <3>5. RowIsPriced(w, crossed', itemsLeft')
            BY <1>0, <3>2, <3>3, <3>4 DEF RowIsPriced
        <3> QED
            BY <3>1, <3>2, <3>5
    <2>3. CASE OnFile /\ edit.op \in {"edit", "replace"}
        <3> DEFINE ev == IF new.event # old.event THEN new.event ELSE row.event
                   ov == IF old.over /\ ~new.over THEN FALSE ELSE row.over
                   it == IF edit.op = "replace" THEN new.items ELSE row.items
                   w == [row EXCEPT !.event = ev, !.manual = new.manual, !.base = new.base,
                                    !.final = new.final, !.over = ov, !.items = it]
        <3>1. promotion' = w
            BY <1>2, <2>3 DEF Written
        <3>2. DiscountedItems(it)
            BY <1>0, <1>1 DEF EditKnows
        <3>3. ev \in PromoEvents \cup {NoPromoEvent} /\ ov \in BOOLEAN /\ it \in SUBSET PromoItems
            BY <1>0, <1>1 DEF PromoRows
        <3>4. /\ new.base = BaseOf(new.items)
              /\ ~new.manual => new.final = FinalOf(new.items) /\ new.final <= new.base
            BY <1>1, <2>3 DEF EditKnows
        <3>5. ASSUME ~crossed' PROVE row = old /\ ~crossed /\ it = new.items /\ ev = new.event
            BY <1>1, <1>2, <2>3, <3>5 DEF EditKnows
        <3>6. ASSUME ~crossed', ~itemsLeft' PROVE ItemsOfEvent(it, ev)
            <4>1. CASE edit.op = "replace"
                BY <1>1, <3>5, <3>6, <4>1 DEF EditKnows
            <4>2. CASE edit.op = "edit"
                <5>1. new.event = old.event /\ ~itemsLeft
                    BY <1>2, <3>6, <4>2
                <5>2. ItemsOfEvent(row.items, row.event)
                    BY <1>0, <2>3, <3>5, <3>6, <5>1 DEF RowIsPriced, OnFile
                <5> QED
                    BY <4>2, <5>1, <5>2
            <4> QED
                BY <2>3, <4>1, <4>2
        <3> HIDE DEF ev, ov, it
        <3>7. /\ w \in PromoRows /\ w.items = it /\ w.event = ev /\ w.manual = new.manual
              /\ w.base = new.base /\ w.final = new.final
            BY <1>0, <1>1, <3>3 DEF PromoRows
        <3> HIDE DEF w
        <3>8. RowIsPriced(w, crossed', itemsLeft')
            BY <3>2, <3>4, <3>5, <3>6, <3>7 DEF RowIsPriced
        <3> QED
            BY <3>1, <3>7, <3>8
    <2> QED
        BY <1>1, <2>1, <2>2, <2>3
<1> QED
    BY <1>2, <1>3, <1>4, <1>5, EditMoves

\* Nothing changes when the promotions rest.
LEMMA PromoStutter ==
    ASSUME PromoIInv, UNCHANGED promoVars
    PROVE  PromoIInv'
BY DEF PromoIInv, promoVars

\* Every step of the promotions keeps the invariant.
LEMMA PromoStep ==
    ASSUME PromoIInv, [PromoNext]_promoVars
    PROVE  PromoIInv'
BY AroundStep, CreateStep, BeginPromoStep, CommitPromoStep, PromoStutter DEF PromoNext

\* The invariant is what is asked of the promotions.
LEMMA PromoShown ==
    ASSUME PromoIInv
    PROVE  PromoInv
<1>0. promotion \in PromoRows /\ RowIsPriced(promotion, crossed, itemsLeft)
    BY DEF PromoIInv
<1>1. PromoTypeOK
    BY DEF PromoIInv, PromoTypeOK, PromoRows, PromoEdits
<1>2. TotalsAreTheLines /\ EntriesAreOfTheEvent
    BY <1>0 DEF TotalsAreTheLines, EntriesAreOfTheEvent, RowIsPriced, OnFile, ItemsOfEvent
<1>3. CalculatedIsADiscount
    <2>1. promotion.base \in Nat /\ promotion.final \in Nat
        BY <1>0 DEF PromoRows
    <2> QED
        BY <1>0, <2>1 DEF CalculatedIsADiscount, RowIsPriced, OnFile
<1> QED
    BY <1>1, <1>2, <1>3 DEF PromoInv

\* An active promotion that no edits crossed costs what its items cost, no
\* more than without discounts (promotions.service.ts).
THEOREM PromoInvariance == PromoSpec => []PromoInv
<1>1. PromoInit => PromoIInv
    BY InitPromo
<1>2. PromoIInv /\ [PromoNext]_promoVars => PromoIInv'
    BY PromoStep
<1>3. PromoIInv => PromoInv
    BY PromoShown
<1> QED
    BY <1>1, <1>2, <1>3, PTL DEF PromoSpec

-----------------------------------------------------------------------------
(***************************************************************************)
(* Campaigns                                                               *)
(***************************************************************************)
\* A request being served, by what it is made of.
Served == [pc : {"idle", "create", "charge", "undo", "apply", "finish"},
           of : Campaigns \cup {NoCampaign}, outcome : {"NONE"} \cup Reported]

\* What a request relies on: the payment it is about to ask for was never asked for,
\* and the provider has given an approval it is about to apply.
ServerKnows(s) ==
    /\ serving[s].pc # "idle" => serving[s].of \in Campaigns
    /\ serving[s].pc = "charge" =>
         campaign[serving[s].of] # "NONE" /\ charge[serving[s].of] = "NONE"
    /\ serving[s].pc \in {"apply", "finish"} => serving[s].outcome \in Reported
    /\ serving[s].pc = "apply" /\ serving[s].outcome = "APPROVED" =>
         charge[serving[s].of] \in WasApproved

\* One request at most is about to ask for the payment of a campaign.
AskedOnce ==
    \A s, t \in Servers : s # t /\ serving[s].pc = "charge" /\ serving[t].pc = "charge" =>
        serving[s].of # serving[t].of

\* The rows of a campaign and its charge.
RowsAgree(c) ==
    /\ <<attempt[c], campaign[c]>> \in
            {<<"NONE", "NONE">>, <<"PENDING", "PENDING_PAYMENT">>, <<"APPROVED", "ACTIVE">>,
             <<"APPROVED", "EXPIRED">>, <<"REJECTED", "REJECTED">>, <<"EXPIRED", "EXPIRED">>}
    /\ attempt[c] = "APPROVED" => charge[c] \in WasApproved
    /\ campaign[c] = "NONE" => charge[c] = "NONE"

\* The inductive invariant.
CampaignIInv ==
    /\ CampaignTypeOK /\ AskedOnce
    /\ \A c \in Campaigns : RowsAgree(c)
    /\ \A s \in Servers : ServerKnows(s)

\* The invariant, by types.
LEMMA CampaignTypes ==
    ASSUME CampaignIInv
    PROVE  /\ campaign \in [Campaigns -> CampaignStatuses]
           /\ attempt \in [Campaigns -> AttemptStatuses] /\ charge \in [Campaigns -> ChargeStatuses]
           /\ told \in [Campaigns -> SUBSET Reported]
           /\ timedOut \subseteq Campaigns /\ over \subseteq Campaigns
           /\ serving \in [Servers -> Served] /\ Unused \in Served /\ Unused.pc = "idle"
BY DEF CampaignIInv, CampaignTypeOK, Served, Unused

\* There are no campaigns at first.
LEMMA InitCampaigns == CampaignInit => CampaignIInv
<1> SUFFICES ASSUME CampaignInit PROVE CampaignIInv
    OBVIOUS
<1>1. CampaignTypeOK
    BY DEF CampaignInit, CampaignTypeOK, Unused, CampaignStatuses, AttemptStatuses, ChargeStatuses
<1>2. AskedOnce
    BY DEF CampaignInit, AskedOnce, Unused
<1>3. \A c \in Campaigns : RowsAgree(c)
    BY DEF CampaignInit, RowsAgree
<1>4. \A s \in Servers : ServerKnows(s)
    BY DEF CampaignInit, ServerKnows, Unused
<1> QED
    BY <1>1, <1>2, <1>3, <1>4 DEF CampaignIInv

\* The rows and the charge change, the requests do not: a campaign that exists goes on
\* existing, and the provider takes no decision before it is asked nor forgets that it
\* has approved.
LEMMA RowsMove ==
    ASSUME CampaignIInv, UNCHANGED serving, CampaignTypeOK',
           \A c \in Campaigns : /\ RowsAgree(c)'
                                /\ campaign[c] # "NONE" => campaign'[c] # "NONE"
                                /\ charge[c] = "NONE" => charge'[c] = "NONE"
                                /\ charge[c] \in WasApproved => charge'[c] \in WasApproved
    PROVE  CampaignIInv'
<1>1. AskedOnce'
    BY DEF CampaignIInv, AskedOnce
<1>2. ASSUME NEW s \in Servers PROVE ServerKnows(s)'
    <2>1. ServerKnows(s)
        BY DEF CampaignIInv
    <2> QED
        BY <2>1 DEF ServerKnows
<1> QED
    BY <1>1, <1>2 DEF CampaignIInv

\* The expiry, the provider and the clock.
LEMMA ClockStep ==
    ASSUME CampaignIInv,
           \/ ExpireFinished
           \/ \E c \in Campaigns : ChargeDecided(c) \/ ChargeReturned(c) \/ TimesOut(c) \/ Ends(c)
    PROVE  CampaignIInv'
<1>0. /\ \A c \in Campaigns : RowsAgree(c)
      /\ campaign \in [Campaigns -> CampaignStatuses]
      /\ attempt \in [Campaigns -> AttemptStatuses] /\ charge \in [Campaigns -> ChargeStatuses]
      /\ timedOut \subseteq Campaigns /\ over \subseteq Campaigns
    BY CampaignTypes DEF CampaignIInv
<1>1. ASSUME ExpireFinished PROVE CampaignIInv'
    <2>0. /\ UNCHANGED <<charge, told, timedOut, over, serving>>
          /\ attempt' = [c \in Campaigns |-> IF Expiring(c) THEN "EXPIRED" ELSE attempt[c]]
          /\ campaign' = [c \in Campaigns |-> IF Finished(c) THEN "EXPIRED" ELSE campaign[c]]
        BY <1>1 DEF ExpireFinished
    <2>1. CampaignTypeOK'
        BY <1>0, <2>0 DEF CampaignIInv, CampaignTypeOK, CampaignStatuses, AttemptStatuses
    <2>2. ASSUME NEW c \in Campaigns
          PROVE  RowsAgree(c)' /\ (campaign[c] # "NONE" => campaign'[c] # "NONE")
        <3>1. /\ attempt'[c] = IF Expiring(c) THEN "EXPIRED" ELSE attempt[c]
              /\ campaign'[c] = IF Finished(c) THEN "EXPIRED" ELSE campaign[c]
            BY <2>0
        <3>2. RowsAgree(c)
            BY <1>0
        <3> QED
            BY <2>0, <3>1, <3>2 DEF RowsAgree, Expiring, Finished
    <2> QED
        BY <2>0, <2>1, <2>2, RowsMove
<1>2. ASSUME NEW c \in Campaigns, ChargeDecided(c) \/ ChargeReturned(c) PROVE CampaignIInv'
    <2>0. PICK o \in Reported : /\ charge' = [charge EXCEPT ![c] = o]
                               /\ \/ charge[c] \in {"PENDING", "REJECTED"}
                                  \/ charge[c] = "APPROVED" /\ o = "RETURNED"
        BY <1>2 DEF ChargeDecided, ChargeReturned, Reported
    <2>1. UNCHANGED <<campaign, attempt, told, timedOut, over, serving>> /\ charge[c] # "NONE"
        BY <1>2 DEF ChargeDecided, ChargeReturned
    <2>2. CampaignTypeOK'
        BY <1>0, <2>0, <2>1 DEF CampaignIInv, CampaignTypeOK, AttemptStatuses, ChargeStatuses,
                                Decided, Reported
    <2>3. ASSUME NEW d \in Campaigns
          PROVE  /\ RowsAgree(d)' /\ (charge[d] = "NONE" => charge'[d] = "NONE")
                 /\ charge[d] \in WasApproved => charge'[d] \in WasApproved
        <3>1. CASE d = c
            BY <1>0, <2>0, <2>1, <3>1 DEF RowsAgree, WasApproved
        <3>2. CASE d # c
            <4>1. charge'[d] = charge[d]
                BY <1>0, <2>0, <3>2
            <4> QED
                BY <1>0, <2>1, <4>1 DEF RowsAgree
        <3> QED
            BY <3>1, <3>2
    <2> QED
        BY <2>1, <2>2, <2>3, RowsMove
<1>3. ASSUME NEW c \in Campaigns, TimesOut(c) \/ Ends(c) PROVE CampaignIInv'
    <2>1. UNCHANGED <<campaign, attempt, charge, told, serving>>
          /\ timedOut' \subseteq Campaigns /\ over' \subseteq Campaigns
        BY <1>0, <1>3 DEF TimesOut, Ends
    <2>2. CampaignTypeOK'
        BY <2>1 DEF CampaignIInv, CampaignTypeOK
    <2>3. \A d \in Campaigns : RowsAgree(d)'
        BY <1>0, <2>1 DEF RowsAgree
    <2> QED
        BY <2>1, <2>2, <2>3, RowsMove
<1> QED
    BY <1>1, <1>2, <1>3

\* A request changes what it does, and perhaps the rows of its campaign.
LEMMA ServerMoves ==
    ASSUME CampaignIInv, NEW s \in Servers, NEW x \in Served,
           serving' = [serving EXCEPT ![s] = x],
           CampaignTypeOK', ServerKnows(s)',
           \A c \in Campaigns : /\ RowsAgree(c)'
                                /\ campaign[c] # "NONE" => campaign'[c] # "NONE"
                                /\ charge[c] \in WasApproved => charge'[c] \in WasApproved,
           \A t \in Servers \ {s} : serving[t].pc = "charge" =>
               /\ charge'[serving[t].of] = "NONE"
               /\ x.pc = "charge" => x.of # serving[t].of
    PROVE  CampaignIInv'
<1>0. serving \in [Servers -> Served]
    BY CampaignTypes
<1>1. serving'[s] = x /\ \A t \in Servers \ {s} : serving'[t] = serving[t]
    BY <1>0
<1>2. AskedOnce'
    BY <1>1 DEF CampaignIInv, AskedOnce
<1>3. ASSUME NEW t \in Servers \ {s} PROVE ServerKnows(t)'
    <2>1. ServerKnows(t)
        BY DEF CampaignIInv
    <2> QED
        BY <1>1, <2>1 DEF ServerKnows
<1> QED
    BY <1>2, <1>3 DEF CampaignIInv

\* A request looks for an overlap, hears of a charge, finishes one or stops.
LEMMA ReadStep ==
    ASSUME CampaignIInv, NEW s \in Servers,
           \/ \E c \in Campaigns : FindOverlap(s, c) \/ HearOfCharge(s, c)
           \/ FinishCharge(s) \/ StopServing(s)
    PROVE  CampaignIInv'
<1>0. /\ \A c \in Campaigns : RowsAgree(c)
      /\ \A t \in Servers : ServerKnows(t)
      /\ serving \in [Servers -> Served] /\ Unused \in Served /\ Unused.pc = "idle"
      /\ charge \in [Campaigns -> ChargeStatuses] /\ told \in [Campaigns -> SUBSET Reported]
    BY CampaignTypes DEF CampaignIInv
<1>1. UNCHANGED <<campaign, attempt, charge, timedOut, over>>
    BY DEF FindOverlap, HearOfCharge, FinishCharge, StopServing
<1>2. \A c \in Campaigns : RowsAgree(c)'
    BY <1>0, <1>1 DEF RowsAgree
<1>3. \A t \in Servers : serving[t].pc = "charge" => charge'[serving[t].of] = "NONE"
    BY <1>0, <1>1 DEF ServerKnows
<1>4. ASSUME NEW x \in Served, serving' = [serving EXCEPT ![s] = x], ServerKnows(s)',
             told' \in [Campaigns -> SUBSET Reported], x.pc # "charge"
      PROVE  CampaignIInv'
    <2>1. CampaignTypeOK'
        BY <1>0, <1>1, <1>4 DEF CampaignIInv, CampaignTypeOK, Served
    <2> QED
        BY <1>1, <1>2, <1>3, <1>4, <2>1, ServerMoves
<1>5. ASSUME NEW c \in Campaigns, FindOverlap(s, c) PROVE CampaignIInv'
    <2> DEFINE x == [Unused EXCEPT !.pc = "create", !.of = c]
    <2>1. x \in Served /\ x.pc = "create" /\ x.of = c
        BY DEF Unused, Served
    <2>2. serving' = [serving EXCEPT ![s] = x] /\ told' = told
        BY <1>5 DEF FindOverlap
    <2> HIDE DEF x
    <2>3. serving'[s] = x
        BY <1>0, <2>2
    <2>4. ServerKnows(s)'
        BY <2>1, <2>3 DEF ServerKnows
    <2> QED
        BY <1>0, <1>4, <2>1, <2>2, <2>4
<1>6. ASSUME NEW c \in Campaigns, HearOfCharge(s, c) PROVE CampaignIInv'
    <2> DEFINE x == [pc |-> IF attempt[c] = "PENDING" THEN "apply" ELSE "finish",
                     of |-> c, outcome |-> charge[c]]
    <2>0. charge[c] \in Reported
        BY <1>6 DEF HearOfCharge
    <2>1. x \in Served /\ x.pc \in {"apply", "finish"} /\ x.of = c /\ x.outcome = charge[c]
        BY <2>0 DEF Served
    <2>2. serving' = [serving EXCEPT ![s] = x] /\ told' = told
        BY <1>6 DEF HearOfCharge
    <2> HIDE DEF x
    <2>3. serving'[s] = x
        BY <1>0, <2>2
    <2>4. ServerKnows(s)'
        BY <1>1, <2>0, <2>1, <2>3 DEF ServerKnows, WasApproved
    <2> QED
        BY <1>0, <1>4, <2>1, <2>2, <2>4
<1>7. ASSUME FinishCharge(s) \/ StopServing(s) PROVE CampaignIInv'
    <2>1. serving' = [serving EXCEPT ![s] = Unused]
        BY <1>7 DEF FinishCharge, StopServing
    <2>2. serving'[s] = Unused
        BY <1>0, <2>1
    <2>3. ServerKnows(s)'
        BY <1>0, <2>2 DEF ServerKnows
    <2>4. told' \in [Campaigns -> SUBSET Reported]
        <3>1. CASE FinishCharge(s)
            <4>1. serving[s].of \in Campaigns /\ serving[s].outcome \in Reported
                BY <1>0, <3>1 DEF FinishCharge, ServerKnows
            <4>2. told' = [told EXCEPT ![serving[s].of] = @ \cup {serving[s].outcome}]
                BY <3>1 DEF FinishCharge
            <4> QED
                BY <1>0, <4>1, <4>2
        <3>2. CASE StopServing(s)
            BY <1>0, <3>2 DEF StopServing
        <3> QED
            BY <1>7, <3>1, <3>2
    <2> QED
        BY <1>0, <1>4, <2>1, <2>3, <2>4
<1> QED
    BY <1>5, <1>6, <1>7

\* A request creates the rows, asks the provider, undoes the checkout or applies an
\* outcome.
LEMMA WriteRows ==
    ASSUME CampaignIInv, NEW s \in Servers,
           CreateCampaign(s) \/ AskProvider(s) \/ UndoCheckout(s) \/ ApplyCharge(s)
    PROVE  CampaignIInv'
<1>0. /\ \A c \in Campaigns : RowsAgree(c)
      /\ \A t \in Servers : ServerKnows(t)
      /\ campaign \in [Campaigns -> CampaignStatuses]
      /\ attempt \in [Campaigns -> AttemptStatuses] /\ charge \in [Campaigns -> ChargeStatuses]
      /\ serving \in [Servers -> Served] /\ Unused \in Served /\ Unused.pc = "idle"
    BY CampaignTypes DEF CampaignIInv
<1>1. UNCHANGED <<told, timedOut, over>>
    BY DEF CreateCampaign, AskProvider, UndoCheckout, ApplyCharge
<1>2. PICK c \in Campaigns : c = serving[s].of
    BY <1>0 DEF ServerKnows, CreateCampaign, AskProvider, UndoCheckout, ApplyCharge
<1>3. ASSUME NEW x \in Served, serving' = [serving EXCEPT ![s] = x],
             campaign' \in [Campaigns -> CampaignStatuses],
             attempt' \in [Campaigns -> AttemptStatuses], charge' \in [Campaigns -> ChargeStatuses],
             \A d \in Campaigns \ {c} :
                 campaign'[d] = campaign[d] /\ attempt'[d] = attempt[d] /\ charge'[d] = charge[d],
             RowsAgree(c)', ServerKnows(s)',
             campaign[c] # "NONE" => campaign'[c] # "NONE",
             charge[c] \in WasApproved => charge'[c] \in WasApproved,
             \A t \in Servers \ {s} : serving[t].pc = "charge" /\ serving[t].of = c =>
                 charge'[c] = "NONE" /\ x.pc # "charge",
             x.pc = "charge" => x.of = c
      PROVE  CampaignIInv'
    <2>1. CampaignTypeOK'
        BY <1>0, <1>1, <1>3 DEF CampaignIInv, CampaignTypeOK, Served
    <2>2. \A d \in Campaigns : /\ RowsAgree(d)'
                               /\ campaign[d] # "NONE" => campaign'[d] # "NONE"
                               /\ charge[d] \in WasApproved => charge'[d] \in WasApproved
        <3>1. ASSUME NEW d \in Campaigns, d # c PROVE RowsAgree(d)'
            BY <1>0, <1>3, <3>1 DEF RowsAgree
        <3> QED
            BY <1>3, <3>1
    <2>3. \A t \in Servers \ {s} : serving[t].pc = "charge" =>
              /\ charge'[serving[t].of] = "NONE"
              /\ x.pc = "charge" => x.of # serving[t].of
        BY <1>0, <1>3 DEF ServerKnows
    <2> QED
        BY <1>3, <2>1, <2>2, <2>3, ServerMoves
<1>4. \A t \in Servers \ {s} : serving[t].pc = "charge" =>
          /\ serving[t].of \in Campaigns /\ campaign[serving[t].of] # "NONE" /\ charge[serving[t].of] = "NONE"
          /\ serving[s].pc = "charge" => serving[t].of # c
    BY <1>0, <1>2 DEF ServerKnows, CampaignIInv, AskedOnce
<1>5. CASE CreateCampaign(s) /\ campaign[c] = "NONE"
    <2> DEFINE x == [serving[s] EXCEPT !.pc = "charge"]
    <2>1. x \in Served /\ x.pc = "charge" /\ x.of = c
        BY <1>0, <1>2 DEF Served
    <2>2. /\ serving' = [serving EXCEPT ![s] = x] /\ charge' = charge
          /\ campaign' = [campaign EXCEPT ![c] = "PENDING_PAYMENT"]
          /\ attempt' = [attempt EXCEPT ![c] = "PENDING"]
        BY <1>0, <1>2, <1>5 DEF CreateCampaign
    <2> HIDE DEF x
    <2>3. /\ serving'[s] = x /\ campaign'[c] = "PENDING_PAYMENT" /\ attempt'[c] = "PENDING"
          /\ campaign' \in [Campaigns -> CampaignStatuses] /\ attempt' \in [Campaigns -> AttemptStatuses]
          /\ \A d \in Campaigns \ {c} : campaign'[d] = campaign[d] /\ attempt'[d] = attempt[d]
        BY <1>0, <2>2 DEF CampaignStatuses, AttemptStatuses
    <2>4. charge[c] = "NONE"
        BY <1>0, <1>5 DEF RowsAgree
    <2>5. RowsAgree(c)' /\ ServerKnows(s)'
        BY <2>1, <2>2, <2>3, <2>4 DEF RowsAgree, ServerKnows
    <2>6. \A t \in Servers \ {s} : serving[t].pc = "charge" => serving[t].of # c
        BY <1>4, <1>5
    <2> QED
        BY <1>0, <1>3, <2>1, <2>2, <2>3, <2>5, <2>6
<1>6. CASE CreateCampaign(s) /\ campaign[c] # "NONE"
    <2>1. serving' = [serving EXCEPT ![s] = Unused] /\ UNCHANGED <<campaign, attempt, charge>>
        BY <1>2, <1>6 DEF CreateCampaign
    <2>2. serving'[s] = Unused
        BY <1>0, <2>1
    <2>3. RowsAgree(c)' /\ ServerKnows(s)'
        BY <1>0, <2>1, <2>2 DEF RowsAgree, ServerKnows
    <2> QED
        BY <1>0, <1>3, <1>4, <2>1, <2>3
<1>7. CASE AskProvider(s)
    <2>1. serving[s].pc = "charge" /\ charge[c] = "NONE" /\ campaign[c] # "NONE"
        BY <1>0, <1>2, <1>7 DEF AskProvider, ServerKnows
    <2>2. PICK x \in {Unused, [serving[s] EXCEPT !.pc = "undo"]} : serving' = [serving EXCEPT ![s] = x]
        BY <1>0, <1>7 DEF AskProvider
    <2>3. x \in Served /\ x.pc \in {"idle", "undo"} /\ (x.pc = "undo" => x.of = c)
        BY <1>0, <1>2 DEF Served
    <2>4. UNCHANGED <<campaign, attempt>> /\ charge' \in {charge, [charge EXCEPT ![c] = "PENDING"]}
        BY <1>2, <1>7 DEF AskProvider
    <2>5. /\ charge' \in [Campaigns -> ChargeStatuses]
          /\ \A d \in Campaigns \ {c} : charge'[d] = charge[d]
        BY <1>0, <2>4 DEF AttemptStatuses, ChargeStatuses
    <2>6. serving'[s] = x
        BY <1>0, <2>2
    <2>7. RowsAgree(c)'
        BY <1>0, <2>1, <2>4 DEF RowsAgree, WasApproved
    <2>8. ServerKnows(s)'
        BY <2>3, <2>6 DEF ServerKnows
    <2>9. \A t \in Servers \ {s} : serving[t].pc = "charge" => serving[t].of # c
        BY <1>4, <2>1
    <2> QED
        BY <1>0, <1>3, <2>1, <2>2, <2>3, <2>4, <2>5, <2>7, <2>8, <2>9 DEF WasApproved
<1>8. CASE UndoCheckout(s)
    <2>1. /\ attempt' = [attempt EXCEPT ![c] = "REJECTED"] /\ campaign' = [campaign EXCEPT ![c] = "REJECTED"]
          /\ serving' = [serving EXCEPT ![s] = Unused] /\ charge' = charge
        BY <1>2, <1>8 DEF UndoCheckout
    <2>2. /\ serving'[s] = Unused /\ campaign'[c] = "REJECTED" /\ attempt'[c] = "REJECTED"
          /\ campaign' \in [Campaigns -> CampaignStatuses] /\ attempt' \in [Campaigns -> AttemptStatuses]
          /\ \A d \in Campaigns \ {c} : campaign'[d] = campaign[d] /\ attempt'[d] = attempt[d]
        BY <1>0, <2>1 DEF CampaignStatuses, AttemptStatuses
    <2>3. RowsAgree(c)' /\ ServerKnows(s)'
        BY <1>0, <2>2 DEF RowsAgree, ServerKnows
    <2>4. serving' = [serving EXCEPT ![s] = Unused] /\ charge' = charge
        BY <2>1
    <2>5. charge' \in [Campaigns -> ChargeStatuses]
          /\ \A t \in Servers \ {s} : serving[t].pc = "charge" /\ serving[t].of = c => charge'[c] = "NONE"
        BY <1>0, <1>4, <2>4
    <2>6. campaign'[c] # "NONE"
        BY <2>2
    <2> QED
        BY <1>0, <1>3, <2>2, <2>3, <2>4, <2>5, <2>6
<1>9. CASE ApplyCharge(s)
    <2> DEFINE x == [serving[s] EXCEPT !.pc = "finish"]
           o == IF serving[s].outcome = "RETURNED" THEN "REJECTED" ELSE serving[s].outcome
    <2>0. /\ serving[s].outcome \in Reported /\ o \in Decided
          /\ o = "APPROVED" => serving[s].outcome = "APPROVED"
        BY <1>0, <1>9 DEF ApplyCharge, ServerKnows, Reported, Decided
    <2>1. x \in Served /\ x.pc = "finish" /\ x.of = c /\ x.outcome \in Reported
        BY <1>0, <1>2, <2>0 DEF Served
    <2>2. /\ serving' = [serving EXCEPT ![s] = x] /\ charge' = charge
          /\ attempt' = [attempt EXCEPT ![c] = o]
          /\ campaign' = [campaign EXCEPT ![c] = IF o = "APPROVED" THEN "ACTIVE" ELSE o]
        BY <1>0, <1>2, <1>9, <2>0 DEF ApplyCharge
    <2> HIDE DEF x, o
    <2>3. /\ serving'[s] = x /\ attempt'[c] = o /\ campaign'[c] = IF o = "APPROVED" THEN "ACTIVE" ELSE o
          /\ campaign' \in [Campaigns -> CampaignStatuses] /\ attempt' \in [Campaigns -> AttemptStatuses]
          /\ \A d \in Campaigns \ {c} : campaign'[d] = campaign[d] /\ attempt'[d] = attempt[d]
        BY <1>0, <2>0, <2>2 DEF CampaignStatuses, AttemptStatuses, ChargeStatuses, Decided
    <2>4. o = "APPROVED" => charge[c] \in WasApproved
        BY <1>0, <1>2, <1>9, <2>0 DEF ApplyCharge, ServerKnows
    <2>5. RowsAgree(c)'
        BY <2>0, <2>2, <2>3, <2>4 DEF RowsAgree, Decided
    <2>6. ServerKnows(s)'
        BY <2>0, <2>1, <2>3 DEF ServerKnows
    <2>7. campaign'[c] # "NONE"
        BY <2>0, <2>3 DEF Decided
    <2>8. serving' = [serving EXCEPT ![s] = x] /\ charge' = charge
        BY <2>2
    <2>9. charge' \in [Campaigns -> ChargeStatuses]
          /\ \A t \in Servers \ {s} : serving[t].pc = "charge" /\ serving[t].of = c => charge'[c] = "NONE"
        BY <1>0, <1>4, <2>8
    <2> QED
        BY <1>3, <2>1, <2>3, <2>5, <2>6, <2>7, <2>8, <2>9
<1> QED
    BY <1>5, <1>6, <1>7, <1>8, <1>9

\* Nothing changes when the campaigns rest.
LEMMA CampaignStutter ==
    ASSUME CampaignIInv, UNCHANGED campaignVars
    PROVE  CampaignIInv'
<1>1. CampaignTypeOK' /\ UNCHANGED <<campaign, attempt, charge, serving>>
    BY DEF campaignVars, CampaignIInv, CampaignTypeOK
<1>2. \A c \in Campaigns : RowsAgree(c)'
    BY <1>1 DEF CampaignIInv, RowsAgree
<1> QED
    BY <1>1, <1>2, RowsMove

\* Every step of the campaigns keeps the invariant.
LEMMA CampaignStep ==
    ASSUME CampaignIInv, [CampaignNext]_campaignVars
    PROVE  CampaignIInv'
BY ClockStep, ReadStep, WriteRows, CampaignStutter DEF CampaignNext

\* The invariant is what is asked of the campaigns.
LEMMA CampaignShown ==
    ASSUME CampaignIInv
    PROVE  CampaignInv
BY DEF CampaignIInv, CampaignInv, RowsAgree, CampaignIsItsPayment, OnHome

\* A featured campaign is active only if the provider has approved its payment,
\* though it may have returned it since, and its rows agree, however webhooks
\* are repeated or late (featured-campaigns.service.ts).
THEOREM CampaignInvariance == CampaignSpec => []CampaignInv
<1>1. CampaignInit => CampaignIInv
    BY InitCampaigns
<1>2. CampaignIInv /\ [CampaignNext]_campaignVars => CampaignIInv'
    BY CampaignStep
<1>3. CampaignIInv => CampaignInv
    BY CampaignShown
<1> QED
    BY <1>1, <1>2, <1>3, PTL DEF CampaignSpec

-----------------------------------------------------------------------------
(***************************************************************************)
(* Cart                                                                    *)
(***************************************************************************)
\* The clubs a cart may be of, and the lines it may hold.
ShopsOrNone == {ShopOf[i] : i \in CartItems} \cup {NoShop}
CartLines   == UNION {[s -> Int] : s \in SUBSET CartItems}
Carts == [shop : ShopsOrNone, combine : BOOLEAN, lines : CartLines, mode : [CartItems -> Modes]]

DeviceSteps == {"idle", "add", "delete", "checkout"}
DeviceRows  == [step : DeviceSteps, saw : Carts, lines : CartLines, shown : Int]
CartOrderRows == [status : {"NONE", "PENDING", "PAID", "EXPIRED"}, shop : ShopsOrNone, of : Carts,
                  total : Int, shown : Int]

CartTypes ==
    /\ cart \in Carts /\ cartPrice \in [CartItems -> Int]
    /\ device \in [CartDevices -> DeviceRows]
    /\ cartOrder \in [CartOrders -> CartOrderRows]
    /\ paying \in [CartOrders -> [step : {"idle", "open"}, saw : CartLines]]
    /\ raced \in BOOLEAN /\ untouched \subseteq CartOrders

\* What a device holds while it is at work is still so unless transactions raced.
DeviceKnows(d) ==
    /\ ~raced /\ device[d].step # "idle" => device[d].saw = cart
    /\ device[d].step = "add" => \E i \in CartItems :
           /\ DOMAIN device[d].lines = {i} /\ device[d].lines[i] > 0
           /\ ~raced => DOMAIN cart.lines = {} \/ cart.shop = ShopOf[i]
    /\ device[d].step = "delete" => \E i \in CartItems : DOMAIN device[d].lines = {i}

\* An order that stands as the cart stood, and the approval that read the cart.
OrderKnows(o) ==
    /\ paying[o].step = "open" => /\ cartOrder[o].status = "PENDING"
                                  /\ ~raced => paying[o].saw = cart.lines
    /\ cartOrder[o].status # "NONE" =>
           /\ ShopsOf(cartOrder[o].of.lines) = {cartOrder[o].shop}
           /\ cartOrder[o].total = cartOrder[o].shown
    /\ o \in untouched =>
           /\ cartOrder[o].status # "NONE"
           /\ cartOrder[o].status = "PENDING" =>
                  /\ cart.lines = cartOrder[o].of.lines
                  /\ paying[o].step = "open" => paying[o].saw = cart.lines
           /\ cartOrder[o].status = "PAID" =>
                  DOMAIN cartOrder[o].of.lines \cap DOMAIN cart.lines = {}

HandedOver ==
    handover = [o \in CartOrders |-> IF cartOrder[o].status = "PAID" THEN PlanOf(o) ELSE {}]

CartIInv ==
    /\ CartTypes
    /\ \A d \in CartDevices : DeviceKnows(d)
    /\ \A o \in CartOrders : OrderKnows(o)
    /\ HandedOver
    /\ CartIsSound

-----------------------------------------------------------------------------
(* Lines.                                                                  *)

\* What a set of lines is made of.
LEMMA LineFacts ==
    ASSUME NEW f \in CartLines
    PROVE  /\ DOMAIN f \subseteq CartItems /\ IsFiniteSet(DOMAIN f)
           /\ \A i \in DOMAIN f : f[i] \in Int
           /\ f = [i \in DOMAIN f |-> f[i]]
<1>1. PICK s \in SUBSET CartItems : f \in [s -> Int]
    BY DEF CartLines
<1>2. DOMAIN f = s
    BY <1>1
<1> QED
    BY <1>1, <1>2, FS_Subset, CartAssumption

\* Numbers of units of some items are lines.
LEMMA LinesMade ==
    ASSUME NEW s, s \subseteq CartItems, NEW f \in [s -> Int]
    PROVE  f \in CartLines
BY DEF CartLines

\* The lines of an empty cart.
LEMMA NoLinesIs == NoLines \in CartLines /\ DOMAIN NoLines = {}
<1>1. NoLines \in [{} -> Int]
    BY DEF NoLines
<1> QED
    BY <1>1, LinesMade

\* Lines with an item set.
LEMMA WithIs ==
    ASSUME NEW lines \in CartLines, NEW i \in CartItems, NEW n \in Int
    PROVE  /\ With(lines, i, n) \in CartLines
           /\ DOMAIN With(lines, i, n) = DOMAIN lines \cup {i}
           /\ With(lines, i, n)[i] = n
           /\ \A j \in DOMAIN lines \ {i} : With(lines, i, n)[j] = lines[j]
<1>1. With(lines, i, n) \in [DOMAIN lines \cup {i} -> Int]
    BY LineFacts DEF With
<1> QED
    BY <1>1, LineFacts, LinesMade DEF With

\* A line on its own.
LEMMA OneLineIs ==
    ASSUME NEW i \in CartItems, NEW n \in Int
    PROVE  /\ With(NoLines, i, n) \in CartLines
           /\ DOMAIN With(NoLines, i, n) = {i} /\ With(NoLines, i, n)[i] = n
<1>1. DOMAIN NoLines = {}
    BY NoLinesIs
<1>2. With(NoLines, i, n) = [j \in {i} |-> n]
    BY <1>1 DEF With
<1>3. [j \in {i} |-> n] \in [{i} -> Int]
    OBVIOUS
<1> QED
    BY <1>2, <1>3, LinesMade

\* Lines of which one is set anew.
LEMMA LineSetIs ==
    ASSUME NEW f \in CartLines, NEW i \in DOMAIN f, NEW n \in Int
    PROVE  /\ [f EXCEPT ![i] = n] \in CartLines /\ DOMAIN [f EXCEPT ![i] = n] = DOMAIN f
           /\ \A j \in DOMAIN f : [f EXCEPT ![i] = n][j] = IF j = i THEN n ELSE f[j]
<1>1. PICK s \in SUBSET CartItems : f \in [s -> Int]
    BY DEF CartLines
<1>2. [f EXCEPT ![i] = n] \in [s -> Int]
    BY <1>1
<1> QED
    BY <1>1, <1>2, LinesMade

\* Lines without some items.
LEMMA WithoutIs ==
    ASSUME NEW lines \in CartLines, NEW S
    PROVE  /\ Without(lines, S) \in CartLines
           /\ DOMAIN Without(lines, S) = DOMAIN lines \ S
           /\ \A j \in DOMAIN lines \ S : Without(lines, S)[j] = lines[j]
<1>1. Without(lines, S) \in [DOMAIN lines \ S -> Int]
    BY LineFacts DEF Without
<1> QED
    BY <1>1, LineFacts, LinesMade DEF Without

\* What lines cost.
LEMMA TotalIsInt ==
    ASSUME NEW lines \in CartLines, cartPrice \in [CartItems -> Int]
    PROVE  TotalOf(lines) \in Int
<1> DEFINE S == DOMAIN lines
           priced == [i \in S |-> lines[i] * cartPrice[i]]
           Reads(g) == g = [s \in SUBSET S |-> IF s = {} THEN 0
                                               ELSE lines[FirstOf(s)] * cartPrice[FirstOf(s)]
                                                    + g[s \ {FirstOf(s)}]]
           Sums(g)  == g = [s \in SUBSET S |-> IF s = {} THEN 0
                                               ELSE priced[FirstOf(s)] + g[s \ {FirstOf(s)}]]
<1>1. TotalOf(lines) = (CHOOSE g : Reads(g))[S]
    BY DEF TotalOf, MapThenSumSet, MapThenFoldSet, FirstOf
<1>2. SumOver(priced, S) = (CHOOSE g : Sums(g))[S]
    BY DEF SumOver, MapThenSumSet, MapThenFoldSet, FirstOf
<1>3. ASSUME NEW g PROVE Reads(g) <=> Sums(g)
    <2>1. \A s \in SUBSET S : s # {} => FirstOf(s) \in S
        BY FirstOfIn
    <2>2. \A s \in SUBSET S : s # {} => priced[FirstOf(s)] = lines[FirstOf(s)] * cartPrice[FirstOf(s)]
        BY <2>1
    <2>3. [s \in SUBSET S |-> IF s = {} THEN 0 ELSE lines[FirstOf(s)] * cartPrice[FirstOf(s)]
                                                    + g[s \ {FirstOf(s)}]]
          = [s \in SUBSET S |-> IF s = {} THEN 0 ELSE priced[FirstOf(s)] + g[s \ {FirstOf(s)}]]
        <3> HIDE DEF priced
        <3> QED BY <2>2, Zenon
    <2> QED
        BY <2>3, Zenon
<1>4. (CHOOSE g : Reads(g)) = (CHOOSE g : Sums(g))
    <2> HIDE DEF Reads, Sums
    <2> QED BY <1>3, Zenon
<1>5. TotalOf(lines) = SumOver(priced, S)
    BY <1>1, <1>2, <1>4, Zenon
<1>6. \A i \in S : priced[i] \in Int
    <2> TAKE i \in S
    <2>1. lines[i] \in Int /\ cartPrice[i] \in Int
        BY LineFacts
    <2>2. \A m, n \in Int : m * n \in Int
        OBVIOUS
    <2> QED
        BY <2>1, <2>2
<1> HIDE DEF priced
<1> QED
    BY <1>5, <1>6, SumIsInt, LineFacts

-----------------------------------------------------------------------------
(* What is handed over.                                                    *)

\* The units of an item in a delivery.
UnitsOfRow(row, i) == IF i \in DOMAIN row.units THEN row.units[i] ELSE 0
UnitsColumn(pieces, i) == [r \in pieces |-> UnitsOfRow(r, i)]

\* The rows of an item that is handed over on its own, or with others of its kind.
GroupedRow(lines, i) == [nth |-> 1, units |-> With(NoLines, i, lines[i])]
UnitRow(i, k) == [nth |-> k, units |-> With(NoLines, i, 1)]

\* A plan has so many units of an item as the sum says.
LEMMA UnitsAreSummed ==
    ASSUME NEW pieces, NEW i
    PROVE  MapThenSumSet(LAMBDA r : IF i \in DOMAIN r.units THEN r.units[i] ELSE 0, pieces)
           = SumOver(UnitsColumn(pieces, i), pieces)
<1> DEFINE units == UnitsColumn(pieces, i)
           Reads(g) == g = [s \in SUBSET pieces |-> IF s = {} THEN 0
                                               ELSE UnitsOfRow(FirstOf(s), i) + g[s \ {FirstOf(s)}]]
           Sums(g)  == g = [s \in SUBSET pieces |-> IF s = {} THEN 0
                                               ELSE units[FirstOf(s)] + g[s \ {FirstOf(s)}]]
<1>1. MapThenSumSet(LAMBDA r : IF i \in DOMAIN r.units THEN r.units[i] ELSE 0, pieces)
      = (CHOOSE g : Reads(g))[pieces]
    BY DEF MapThenSumSet, MapThenFoldSet, FirstOf, UnitsOfRow
<1>2. SumOver(units, pieces) = (CHOOSE g : Sums(g))[pieces]
    BY DEF SumOver, MapThenSumSet, MapThenFoldSet, FirstOf
<1>3. ASSUME NEW g PROVE Reads(g) <=> Sums(g)
    <2>1. \A s \in SUBSET pieces : s # {} => FirstOf(s) \in pieces
        BY FirstOfIn
    <2>2. \A s \in SUBSET pieces : s # {} => units[FirstOf(s)] = UnitsOfRow(FirstOf(s), i)
        BY <2>1 DEF UnitsColumn
    <2>3. [s \in SUBSET pieces |-> IF s = {} THEN 0 ELSE UnitsOfRow(FirstOf(s), i) + g[s \ {FirstOf(s)}]]
          = [s \in SUBSET pieces |-> IF s = {} THEN 0 ELSE units[FirstOf(s)] + g[s \ {FirstOf(s)}]]
        <3> HIDE DEF units
        <3> QED BY <2>2, Zenon
    <2> QED
        BY <2>3, Zenon
<1>4. (CHOOSE g : Reads(g)) = (CHOOSE g : Sums(g))
    <2> HIDE DEF Reads, Sums
    <2> QED BY <1>3, Zenon
<1> QED
    BY <1>1, <1>2, <1>4, Zenon

\* As many ones as there are elements.
LEMMA SumOfOnes ==
    ASSUME NEW S, IsFiniteSet(S), NEW f, \A x \in S : f[x] = 1
    PROVE  SumOver(f, S) = Cardinality(S)
<1> DEFINE W == {s \in SUBSET S : SumOver(f, s) # Cardinality(s)}
<1>1. SUFFICES ASSUME W # {} PROVE FALSE
    OBVIOUS
<1>2. PICK s \in W : \A t \in W : t \subseteq s => t = s
    <2>1. W \subseteq SUBSET S
        OBVIOUS
    <2> HIDE DEF W
    <2> QED BY <1>1, <2>1, Smallest
<1>3. s \subseteq S /\ IsFiniteSet(s)
    BY <1>2, FS_Subset
<1>4. s # {}
    BY <1>2, SumOfEmpty, FS_EmptySet
<1> DEFINE x == FirstOf(s)
<1>5. x \in s
    BY <1>4, FirstOfIn
<1>6. SumOver(f, s \ {x}) = Cardinality(s \ {x})
    BY <1>2, <1>3, <1>5
<1>7. SumOver(f, s) = f[x] + SumOver(f, s \ {x})
    BY <1>3, <1>4, SumOfFirst
<1>8. Cardinality(s \ {x}) = Cardinality(s) - 1 /\ Cardinality(s) \in Nat
    BY <1>3, <1>5, FS_RemoveElement, FS_CardinalityType
<1>9. f[x] = 1
    BY <1>3, <1>5
<1> HIDE DEF x
<1> QED
    BY <1>2, <1>6, <1>7, <1>8, <1>9

\* The rows of an item, which is not combined with others.
RowsOf(lines, mode, j) ==
    IF mode[j] = "GROUPED" THEN {GroupedRow(lines, j)} ELSE {UnitRow(j, k) : k \in 1..lines[j]}
Separate(lines, mode) == {RowsOf(lines, mode, j) : j \in DOMAIN lines \cap CartProducts}

\* Those rows are of the item, and together of all its units.
LEMMA RowsAre ==
    ASSUME NEW lines \in CartLines, NEW mode \in [CartItems -> Modes],
           NEW j \in DOMAIN lines \cap CartProducts
    PROVE  /\ IsFiniteSet(RowsOf(lines, mode, j))
           /\ \A r \in RowsOf(lines, mode, j) :
                  /\ DOMAIN r.units = {j}
                  /\ r.units[j] = IF mode[j] = "GROUPED" THEN lines[j] ELSE 1
<1>1. j \in CartItems /\ lines[j] \in Int
    BY LineFacts
<1>2. IsFiniteSet(1..lines[j])
    BY <1>1, FS_Interval
<1>3. IsFiniteSet({UnitRow(j, k) : k \in 1..lines[j]})
    <2> DEFINE pieces == {UnitRow(j, k) : k \in 1..lines[j]}
               rowOf == [k \in 1..lines[j] |-> UnitRow(j, k)]
    <2>1. rowOf \in Surjection(1..lines[j], pieces)
        BY DEF Surjection
    <2> HIDE DEF pieces, rowOf
    <2> QED
        BY <1>2, <2>1, FS_Surjection DEF pieces
<1>4. IsFiniteSet(RowsOf(lines, mode, j))
    <2>1. IsFiniteSet({GroupedRow(lines, j)})
        BY FS_Singleton
    <2> QED
        BY <1>3, <2>1 DEF RowsOf
<1>5. \A n \in Int : DOMAIN With(NoLines, j, n) = {j} /\ With(NoLines, j, n)[j] = n
    BY <1>1, OneLineIs
<1> QED
    BY <1>1, <1>4, <1>5 DEF RowsOf, GroupedRow, UnitRow

\* A plan that does not combine has the rows of each item.
LEMMA PlanIsSeparate ==
    ASSUME NEW lines \in CartLines, NEW mode \in [CartItems -> Modes]
    PROVE  Plan(FALSE, lines, mode) = UNION Separate(lines, mode)
<1> DEFINE some == DOMAIN lines \cap CartProducts
<1>1. \A j \in some : mode[j] \in {"GROUPED", "SEPARATE"}
    BY LineFacts DEF Modes
<1>2. UNION {{UnitRow(j, k) : k \in 1..lines[j]} : j \in {m \in some : mode[m] = "SEPARATE"}}
      = UNION {RowsOf(lines, mode, j) : j \in {m \in some : mode[m] = "SEPARATE"}}
    BY DEF RowsOf
<1>3. {GroupedRow(lines, j) : j \in {m \in some : mode[m] = "GROUPED"}}
      = UNION {RowsOf(lines, mode, j) : j \in {m \in some : mode[m] = "GROUPED"}}
    BY DEF RowsOf
<1>4. Plan(FALSE, lines, mode)
      = {GroupedRow(lines, j) : j \in {m \in some : mode[m] = "GROUPED"}}
        \cup UNION {{UnitRow(j, k) : k \in 1..lines[j]} : j \in {m \in some : mode[m] = "SEPARATE"}}
    <2>1. CASE some = {}
        BY <2>1 DEF Plan, GroupedRow, UnitRow
    <2>2. CASE some # {}
        BY <2>2 DEF Plan, GroupedRow, UnitRow
    <2> QED
        BY <2>1, <2>2
<1>5. Plan(FALSE, lines, mode)
      = (UNION {RowsOf(lines, mode, j) : j \in {m \in some : mode[m] = "GROUPED"}})
        \cup (UNION {RowsOf(lines, mode, j) : j \in {m \in some : mode[m] = "SEPARATE"}})
    BY <1>2, <1>3, <1>4
<1> QED
    BY <1>1, <1>5 DEF Separate

\* The rows of one item have as many units as its line asks for.
LEMMA RowsSum ==
    ASSUME NEW lines \in CartLines, NEW mode \in [CartItems -> Modes],
           NEW i \in DOMAIN lines \cap CartProducts, lines[i] >= 0,
           NEW f, \A r \in RowsOf(lines, mode, i) : f[r] = UnitsOfRow(r, i)
    PROVE  SumOver(f, RowsOf(lines, mode, i)) = lines[i]
<1>1. lines[i] \in Nat
    BY LineFacts
<1>2. \A r \in RowsOf(lines, mode, i) : f[r] = IF mode[i] = "GROUPED" THEN lines[i] ELSE 1
    BY RowsAre DEF UnitsOfRow
<1>3. CASE mode[i] = "GROUPED"
    <2> DEFINE r == GroupedRow(lines, i)
    <2>1. RowsOf(lines, mode, i) = {} \cup {r}
        BY <1>3 DEF RowsOf
    <2>2. f[r] = lines[i]
        BY <1>2, <1>3, <2>1
    <2> HIDE DEF r
    <2>3. SumOver(f, {} \cup {r}) = f[r] + SumOver(f, {})
        BY <1>1, <2>2, SumWith, FS_EmptySet
    <2> QED
        BY <1>1, <2>1, <2>2, <2>3, SumOfEmpty
<1>4. CASE mode[i] # "GROUPED"
    <2> DEFINE n == lines[i]
               rowOf == [k \in 1..n |-> UnitRow(i, k)]
    <2>1. RowsOf(lines, mode, i) = {UnitRow(i, k) : k \in 1..n}
        BY <1>4 DEF RowsOf
    <2>2. rowOf \in Bijection(1..n, RowsOf(lines, mode, i))
        <3>1. rowOf \in [1..n -> RowsOf(lines, mode, i)]
            BY <2>1
        <3>2. ASSUME NEW j \in 1..n, NEW k \in 1..n, rowOf[j] = rowOf[k] PROVE j = k
            BY <3>2 DEF UnitRow
        <3>3. \A r \in RowsOf(lines, mode, i) : \E k \in 1..n : rowOf[k] = r
            BY <2>1
        <3> QED
            BY <3>1, <3>2, <3>3 DEF Bijection, Injection, Surjection, IsInjective
    <2>3. IsFiniteSet(1..n) /\ Cardinality(1..n) = n
        BY <1>1, FS_Interval
    <2>4. Cardinality(RowsOf(lines, mode, i)) = n
        BY <2>2, <2>3, FS_Bijection DEF ExistsBijection
    <2>5. \A r \in RowsOf(lines, mode, i) : f[r] = 1
        BY <1>2, <1>4
    <2> QED
        BY <2>4, <2>5, SumOfOnes, RowsAre
<1> QED
    BY <1>3, <1>4

\* What the plan of an order hands over.
LEMMA PlanHandsOver ==
    ASSUME NEW combine \in BOOLEAN, NEW lines \in CartLines, NEW mode \in [CartItems -> Modes],
           NEW i \in CartItems, i \in DOMAIN lines => lines[i] >= 0
    PROVE  SumOver(UnitsColumn(Plan(combine, lines, mode), i), Plan(combine, lines, mode))
           = IF i \in DOMAIN lines \cap CartProducts THEN lines[i] ELSE 0
<1> DEFINE some == DOMAIN lines \cap CartProducts
           pieces == Plan(combine, lines, mode)
           f == UnitsColumn(pieces, i)
<1>1. CASE some = {}
    <2>1. pieces = {}
        BY <1>1 DEF Plan
    <2>2. SumOver(f, {}) = 0
        BY SumOfEmpty
    <2> QED
        BY <1>1, <2>1, <2>2
<1>2. CASE some # {} /\ combine
    <2> DEFINE r == [nth |-> 1, units |-> [j \in some |-> lines[j]]]
    <2>1. pieces = {} \cup {r}
        BY <1>2 DEF Plan
    <2>2. f[r] = IF i \in some THEN lines[i] ELSE 0
        BY <2>1 DEF UnitsColumn, UnitsOfRow
    <2>3. f[r] \in Int
        BY <2>2, LineFacts
    <2> HIDE DEF r, pieces, f
    <2>4. SumOver(f, {} \cup {r}) = f[r] + SumOver(f, {})
        BY <2>3, SumWith, FS_EmptySet
    <2> QED
        BY <2>1, <2>2, <2>3, <2>4, SumOfEmpty DEF f, pieces
<1>3. CASE some # {} /\ ~combine
    <2>1. pieces = UNION Separate(lines, mode)
        BY <1>3, PlanIsSeparate
    <2>2. \A j \in some : /\ IsFiniteSet(RowsOf(lines, mode, j))
                          /\ \A r \in RowsOf(lines, mode, j) :
                                 /\ DOMAIN r.units = {j}
                                 /\ r.units[j] = IF mode[j] = "GROUPED" THEN lines[j] ELSE 1
        BY RowsAre
    <2>3. IsFiniteSet(pieces)
        <3> DEFINE rowsOf == [j \in some |-> RowsOf(lines, mode, j)]
        <3>1. rowsOf \in Surjection(some, Separate(lines, mode))
            BY DEF Surjection, Separate
        <3>2. IsFiniteSet(some)
            BY LineFacts, FS_Subset
        <3>3. IsFiniteSet(Separate(lines, mode))
            <4> HIDE DEF rowsOf, some
            <4> QED BY <3>1, <3>2, FS_Surjection
        <3>4. \A s \in Separate(lines, mode) : IsFiniteSet(s)
            BY <2>2 DEF Separate
        <3> QED
            BY <2>1, <3>3, <3>4, FS_UNION
    <2>4. \A r \in pieces : f[r] = UnitsOfRow(r, i)
        BY DEF UnitsColumn
    <2> DEFINE T == IF i \in some THEN RowsOf(lines, mode, i) ELSE {}
    <2>5. T \subseteq pieces
        BY <2>1 DEF Separate
    <2>6. \A r \in pieces : \E j \in some : r \in RowsOf(lines, mode, j)
        BY <2>1 DEF Separate
    <2>7. \A r \in pieces : f[r] \in Int
        <3> TAKE r \in pieces
        <3>1. PICK j \in some : r \in RowsOf(lines, mode, j)
            BY <2>6
        <3>2. DOMAIN r.units = {j} /\ r.units[j] \in Int
            BY <2>2, <3>1, LineFacts
        <3> QED
            BY <2>4, <3>2 DEF UnitsOfRow
    <2>8. \A r \in pieces : r \notin T => f[r] = 0
        <3> SUFFICES ASSUME NEW r \in pieces, r \notin T PROVE f[r] = 0
            OBVIOUS
        <3>1. PICK j \in some : r \in RowsOf(lines, mode, j)
            BY <2>6
        <3>2. j # i /\ DOMAIN r.units = {j}
            BY <2>2, <3>1
        <3> QED
            BY <2>4, <3>2 DEF UnitsOfRow
    <2>9. \A r \in T : f[r] = UnitsOfRow(r, i)
        BY <2>4, <2>5
    <2> HIDE DEF pieces, f
    <2>10. SumOver(f, pieces) = SumOver(f, T)
        <3> HIDE DEF T
        <3> QED BY <2>3, <2>5, <2>7, <2>8, SumOfRest
    <2>11. CASE i \in some
        <3>1. SumOver(f, RowsOf(lines, mode, i)) = lines[i]
            BY <2>9, <2>11, RowsSum
        <3> QED
            BY <2>10, <2>11, <3>1 DEF f, pieces
    <2>12. CASE i \notin some
        BY <2>10, <2>12, SumOfEmpty DEF f, pieces
    <2> QED
        BY <2>11, <2>12
<1> QED
    BY <1>1, <1>2, <1>3

\* How a plan groups what it hands over.
LEMMA PlanGroups ==
    ASSUME NEW combine \in BOOLEAN, NEW lines \in CartLines, NEW mode \in [CartItems -> Modes]
    PROVE  /\ combine => Cardinality(Plan(combine, lines, mode)) <= 1
           /\ ~combine => \A r \in Plan(combine, lines, mode) :
                  /\ Cardinality(DOMAIN r.units) = 1
                  /\ \A i \in DOMAIN r.units : mode[i] = "SEPARATE" => r.units[i] = 1
<1>1. ASSUME combine PROVE Cardinality(Plan(combine, lines, mode)) <= 1
    <2>1. PICK r : Plan(combine, lines, mode) = {} \/ Plan(combine, lines, mode) = {r}
        BY <1>1 DEF Plan
    <2>2. Cardinality({}) = 0 /\ Cardinality({r}) = 1
        BY FS_EmptySet, FS_Singleton
    <2> QED
        BY <2>1, <2>2
<1>2. ASSUME ~combine, NEW r \in Plan(combine, lines, mode)
      PROVE  /\ Cardinality(DOMAIN r.units) = 1
             /\ \A i \in DOMAIN r.units : mode[i] = "SEPARATE" => r.units[i] = 1
    <2>1. PICK j \in DOMAIN lines \cap CartProducts : r \in RowsOf(lines, mode, j)
        <3>1. Plan(combine, lines, mode) = UNION Separate(lines, mode)
            BY <1>2, PlanIsSeparate
        <3> QED
            BY <3>1 DEF Separate
    <2>2. DOMAIN r.units = {j} /\ r.units[j] = IF mode[j] = "GROUPED" THEN lines[j] ELSE 1
        BY <2>1, RowsAre
    <2> QED
        BY <2>2, FS_Singleton
<1> QED
    BY <1>1, <1>2

-----------------------------------------------------------------------------
(* The invariant.                                                          *)

LEMMA InitCart == CartInit => CartIInv
<1> SUFFICES ASSUME CartInit PROVE CartIInv
    OBVIOUS
<1>1. NoCart \in Carts
    BY NoLinesIs DEF NoCart, Carts, ShopsOrNone, Modes
<1>2. AtRest \in DeviceRows
    BY <1>1, NoLinesIs DEF AtRest, DeviceRows, DeviceSteps
<1>3. NoOrder \in CartOrderRows
    BY <1>1 DEF NoOrder, CartOrderRows, ShopsOrNone
<1>4. CartTypes
    <2>1. cart \in Carts /\ cartPrice \in [CartItems -> Int]
        BY <1>1 DEF CartInit
    <2>2. device \in [CartDevices -> DeviceRows] /\ cartOrder \in [CartOrders -> CartOrderRows]
        BY <1>2, <1>3 DEF CartInit
    <2>3. paying \in [CartOrders -> [step : {"idle", "open"}, saw : CartLines]]
        BY NoLinesIs DEF CartInit, NotPaying
    <2> QED
        BY <2>1, <2>2, <2>3 DEF CartInit, CartTypes
<1>5. ASSUME NEW d \in CartDevices PROVE DeviceKnows(d)
    BY DEF CartInit, DeviceKnows, AtRest
<1>6. ASSUME NEW o \in CartOrders PROVE OrderKnows(o)
    BY DEF CartInit, OrderKnows, NoOrder, NotPaying
<1>7. HandedOver
    BY DEF CartInit, HandedOver, NoOrder
<1>8. CartIsSound
    BY NoLinesIs DEF CartInit, CartIsSound, NoCart, NoOrder, ShopsOf
<1> QED
    BY <1>4, <1>5, <1>6, <1>7, <1>8 DEF CartIInv

\* A device begins something, or comes to rest: nothing else changes.
LEMMA DeviceMoves ==
    ASSUME CartIInv, NEW d \in CartDevices,
           device' \in [CartDevices -> DeviceRows],
           \A e \in CartDevices \ {d} : device'[e] = device[e],
           DeviceKnows(d)',
           UNCHANGED <<cart, cartPrice, cartOrder, paying, handover, edits, raced, untouched>>
    PROVE  CartIInv'
<1>1. CartTypes'
    BY DEF CartIInv, CartTypes
<1>2. ASSUME NEW e \in CartDevices PROVE DeviceKnows(e)'
    <2>1. CASE e # d
        BY <2>1 DEF CartIInv, DeviceKnows
    <2> QED
        BY <2>1
<1>3. ASSUME NEW o \in CartOrders PROVE OrderKnows(o)'
    BY DEF CartIInv, OrderKnows
<1>4. HandedOver'
    BY DEF CartIInv, HandedOver, PlanOf
<1>5. CartIsSound'
    BY DEF CartIInv, CartIsSound
<1> QED
    BY <1>1, <1>2, <1>3, <1>4, <1>5 DEF CartIInv

\* A row of a device at work.
LEMMA MovesIs ==
    ASSUME CartTypes, NEW d \in CartDevices, NEW step \in DeviceSteps, NEW item \in CartLines,
           Moves(d, step, item)
    PROVE  /\ device' \in [CartDevices -> DeviceRows]
           /\ \A e \in CartDevices \ {d} : device'[e] = device[e]
           /\ device'[d].step = step /\ device'[d].saw = cart /\ device'[d].lines = item
BY DEF CartTypes, Moves, DeviceRows

\* A row of a device that rests again.
LEMMA RestsIs ==
    ASSUME CartTypes, NEW d \in CartDevices, Rests(d)
    PROVE  /\ device' \in [CartDevices -> DeviceRows]
           /\ \A e \in CartDevices \ {d} : device'[e] = device[e]
           /\ device'[d].step = "idle"
<1>1. NoCart \in Carts
    BY NoLinesIs DEF NoCart, Carts, ShopsOrNone, Modes
<1>2. device' = [device EXCEPT ![d] = [step |-> "idle", saw |-> NoCart, lines |-> NoLines,
                                       shown |-> device[d].shown]]
    <2>1. [AtRest EXCEPT !.shown = device[d].shown]
          = [step |-> "idle", saw |-> NoCart, lines |-> NoLines, shown |-> device[d].shown]
        BY DEF AtRest
    <2> QED
        BY <2>1, Zenon DEF Rests
<1>3. device[d].shown \in Int
    BY DEF CartTypes, DeviceRows
<1>4. [step |-> "idle", saw |-> NoCart, lines |-> NoLines, shown |-> device[d].shown] \in DeviceRows
    BY <1>1, <1>3, NoLinesIs DEF DeviceRows, DeviceSteps
<1> QED
    BY <1>2, <1>4 DEF CartTypes

\* What a device only reads, begins or gives up.
LEMMA DeviceStep ==
    ASSUME CartIInv, NEW d \in CartDevices,
           \/ GetCart(d) \/ BeginCheckout(d) \/ LeaveCart(d)
           \/ \E i \in CartItems : \/ BeginDelete(d, i)
                                   \/ \E n \in 1..MaxUnits[i] : BeginAdd(d, i, n)
    PROVE  CartIInv'
<1>1. CartTypes
    BY DEF CartIInv
<1>2. CASE GetCart(d)
    <2>1. TotalOf(cart.lines) \in Int
        BY <1>1, TotalIsInt DEF CartTypes, Carts
    <2>2. /\ device' \in [CartDevices -> DeviceRows]
          /\ \A e \in CartDevices \ {d} : device'[e] = device[e]
          /\ device'[d].step = device[d].step
        BY <1>1, <1>2, <2>1 DEF GetCart, CartTypes, DeviceRows
    <2>3. DeviceKnows(d)'
        BY <1>2, <2>2 DEF DeviceKnows, GetCart
    <2> QED
        BY <1>2, <2>2, <2>3, DeviceMoves DEF GetCart
<1>3. CASE BeginCheckout(d)
    <2>1. Moves(d, "checkout", NoLines)
        BY <1>3 DEF BeginCheckout
    <2>2. /\ device' \in [CartDevices -> DeviceRows]
          /\ \A e \in CartDevices \ {d} : device'[e] = device[e]
          /\ device'[d].step = "checkout" /\ device'[d].saw = cart
        BY <1>1, <2>1, MovesIs, NoLinesIs DEF DeviceSteps
    <2>3. DeviceKnows(d)'
        BY <1>3, <2>2 DEF DeviceKnows, BeginCheckout
    <2> QED
        BY <1>3, <2>2, <2>3, DeviceMoves DEF BeginCheckout
<1>4. CASE LeaveCart(d)
    <2>1. /\ device' \in [CartDevices -> DeviceRows]
          /\ \A e \in CartDevices \ {d} : device'[e] = device[e]
          /\ device'[d].step = "idle"
        BY <1>1, <1>4, RestsIs DEF LeaveCart
    <2>2. DeviceKnows(d)'
        BY <2>1 DEF DeviceKnows
    <2> QED
        BY <1>4, <2>1, <2>2, DeviceMoves DEF LeaveCart
<1>5. ASSUME NEW i \in CartItems, BeginDelete(d, i) PROVE CartIInv'
    <2>1. cart.lines \in CartLines /\ i \in DOMAIN cart.lines
        BY <1>1, <1>5 DEF CartTypes, Carts, BeginDelete
    <2>2. cart.lines[i] \in Int
        BY <2>1, LineFacts
    <2> DEFINE item == With(NoLines, i, cart.lines[i])
    <2>3. item \in CartLines /\ DOMAIN item = {i}
        BY <2>2, OneLineIs
    <2>4. Moves(d, "delete", item)
        BY <1>5 DEF BeginDelete
    <2> HIDE DEF item
    <2>5. /\ device' \in [CartDevices -> DeviceRows]
          /\ \A e \in CartDevices \ {d} : device'[e] = device[e]
          /\ device'[d].step = "delete" /\ device'[d].saw = cart /\ device'[d].lines = item
        BY <1>1, <2>3, <2>4, MovesIs DEF DeviceSteps
    <2>6. DeviceKnows(d)'
        BY <1>5, <2>3, <2>5 DEF DeviceKnows, BeginDelete
    <2> QED
        BY <1>5, <2>5, <2>6, DeviceMoves DEF BeginDelete
<1>6. ASSUME NEW i \in CartItems, NEW n \in 1..MaxUnits[i], BeginAdd(d, i, n) PROVE CartIInv'
    <2>1. n \in Int /\ n > 0
        BY CartAssumption
    <2> DEFINE item == With(NoLines, i, n)
    <2>2. item \in CartLines /\ DOMAIN item = {i} /\ item[i] = n
        BY <2>1, OneLineIs
    <2>3. Moves(d, "add", item)
        BY <1>6 DEF BeginAdd
    <2> HIDE DEF item
    <2>4. /\ device' \in [CartDevices -> DeviceRows]
          /\ \A e \in CartDevices \ {d} : device'[e] = device[e]
          /\ device'[d].step = "add" /\ device'[d].saw = cart /\ device'[d].lines = item
        BY <1>1, <2>2, <2>3, MovesIs DEF DeviceSteps
    <2>5. DOMAIN cart.lines = {} \/ cart.shop = ShopOf[i]
        BY <1>6, NoLinesIs DEF BeginAdd
    <2>6. DeviceKnows(d)'
        BY <1>6, <2>1, <2>2, <2>4, <2>5 DEF DeviceKnows, BeginAdd
    <2> QED
        BY <1>6, <2>4, <2>6, DeviceMoves DEF BeginAdd
<1> QED
    BY <1>2, <1>3, <1>4, <1>5, <1>6

\* A cart is of the club of its items and asks for some of each.
Sound(c) == /\ ShopsOf(c.lines) = {c.shop} \ {NoShop}
            /\ \A i \in DOMAIN c.lines : c.lines[i] > 0

\* An edit of the cart commits.
LEMMA EditStep ==
    ASSUME CartIInv, NEW d \in CartDevices, Edit(d), UNCHANGED cartPrice,
           NEW c \in Carts, cart' = c, ~raced' => Sound(c),
           device' \in [CartDevices -> DeviceRows], device'[d].step = "idle",
           \A e \in CartDevices \ {d} : device'[e] = device[e]
    PROVE  CartIInv'
<1>1. /\ ~raced' => ~raced
      /\ ~raced' => \A e \in CartDevices \ {d} : device[e].step = "idle"
      /\ ~raced' => \A o \in CartOrders : paying[o].step # "open"
      /\ raced' \in BOOLEAN /\ untouched' = {}
    <2>1. raced' = (raced \/ (\E e \in CartDevices \ {d} : device[e].step # "idle")
                          \/ (\E o \in CartOrders : paying[o].step # "idle"))
        BY DEF Edit
    <2> QED
        BY <2>1 DEF CartIInv, CartTypes, Edit
<1>2. UNCHANGED <<cartOrder, paying, handover>>
    BY DEF Edit
<1>3. CartTypes'
    BY <1>1, <1>2 DEF CartIInv, CartTypes
<1>4. ASSUME NEW e \in CartDevices PROVE DeviceKnows(e)'
    <2>1. CASE e = d
        BY <2>1 DEF DeviceKnows
    <2>2. CASE e # d
        <3>1. device'[e] = device[e] /\ DeviceKnows(e) /\ (~raced' => device[e].step = "idle")
            BY <1>1, <2>2 DEF CartIInv
        <3> QED
            BY <3>1 DEF DeviceKnows
    <2> QED
        BY <2>1, <2>2
<1>5. ASSUME NEW o \in CartOrders PROVE OrderKnows(o)'
    BY <1>1, <1>2 DEF CartIInv, OrderKnows
<1>6. HandedOver'
    BY <1>2 DEF CartIInv, HandedOver, PlanOf
<1>7. CartIsSound'
    BY <1>1, <1>2 DEF CartIInv, CartIsSound, Sound
<1> QED
    BY <1>3, <1>4, <1>5, <1>6, <1>7 DEF CartIInv

\* An item is added.
LEMMA AddStep ==
    ASSUME CartIInv, NEW d \in CartDevices, CommitAdd(d)
    PROVE  CartIInv'
<1>1. CartTypes /\ DeviceKnows(d) /\ device[d].step = "add" /\ Edit(d) /\ Rests(d) /\ UNCHANGED cartPrice
    BY DEF CartIInv, CommitAdd
<1>2. PICK i \in CartItems :
          /\ DOMAIN device[d].lines = {i} /\ device[d].lines[i] > 0
          /\ ~raced => DOMAIN cart.lines = {} \/ cart.shop = ShopOf[i]
    BY <1>1 DEF DeviceKnows
<1>3. (CHOOSE j \in DOMAIN device[d].lines : TRUE) = i
    BY <1>2
<1> DEFINE lines == With(cart.lines, i, device[d].lines[i])
           shop  == IF device[d].saw.shop # ShopOf[i] THEN ShopOf[i] ELSE cart.shop
<1>4. /\ cart.lines \in CartLines /\ device[d].lines \in CartLines /\ cart \in Carts
      /\ cart.mode \in [CartItems -> Modes]
    BY <1>1 DEF CartTypes, Carts, DeviceRows
<1>5. device[d].lines[i] \in Int
    BY <1>2, <1>4, LineFacts
<1>6. /\ lines \in CartLines /\ DOMAIN lines = DOMAIN cart.lines \cup {i}
      /\ lines[i] = device[d].lines[i]
      /\ \A j \in DOMAIN cart.lines \ {i} : lines[j] = cart.lines[j]
    BY <1>4, <1>5, WithIs
<1>7. PICK mode \in [CartItems -> Modes] :
          cart' = [cart EXCEPT !.lines = lines, !.shop = shop, !.mode = mode]
    <2> DEFINE mode == [cart.mode EXCEPT ![i] = IF i \in DOMAIN cart.lines THEN cart.mode[i] ELSE "GROUPED"]
    <2>1. mode \in [CartItems -> Modes]
        BY <1>4 DEF Modes
    <2>2. cart' = [cart EXCEPT !.lines = lines, !.shop = shop,
                               !.mode[i] = IF i \in DOMAIN cart.lines THEN @ ELSE "GROUPED"]
        <3> DEFINE k == CHOOSE j \in DOMAIN device[d].lines : TRUE
        <3>1. cart' = [cart EXCEPT !.lines = With(cart.lines, k, device[d].lines[k]),
                                   !.shop = IF device[d].saw.shop # ShopOf[k] THEN ShopOf[k] ELSE @,
                                   !.mode[k] = IF k \in DOMAIN cart.lines THEN @ ELSE "GROUPED"]
            BY DEF CommitAdd
        <3>2. k = i
            BY <1>3
        <3> HIDE DEF k
        <3> QED
            BY <3>1, <3>2
    <2>3. cart' = [cart EXCEPT !.lines = lines, !.shop = shop, !.mode = mode]
        <3> HIDE DEF lines, shop
        <3> QED BY <2>2, <1>4 DEF Carts
    <2> QED
        BY <2>1, <2>3
<1> HIDE DEF lines
<1> DEFINE c == [cart EXCEPT !.lines = lines, !.shop = shop, !.mode = mode]
<1>8. c \in Carts /\ c.lines = lines /\ c.shop = shop
    BY <1>4, <1>6 DEF Carts, ShopsOrNone
<1>9. ASSUME ~raced' PROVE Sound(c)
    <2>1. ~raced
        BY <1>1, <1>9 DEF Edit
    <2>2. /\ ShopsOf(cart.lines) = {cart.shop} \ {NoShop}
          /\ \A j \in DOMAIN cart.lines : cart.lines[j] > 0
        BY <2>1 DEF CartIInv, CartIsSound
    <2>3. shop = ShopOf[i]
        BY <1>1, <2>1 DEF DeviceKnows
    <2>4. ShopsOf(lines) = ShopsOf(cart.lines) \cup {ShopOf[i]}
        BY <1>6 DEF ShopsOf
    <2>5. ShopsOf(lines) = {ShopOf[i]}
        <3>1. CASE DOMAIN cart.lines = {}
            BY <2>4, <3>1 DEF ShopsOf
        <3>2. CASE cart.shop = ShopOf[i]
            BY <2>2, <2>4, <3>2
        <3> QED
            BY <1>2, <2>1, <3>1, <3>2
    <2>6. ShopOf[i] # NoShop
        BY CartAssumption
    <2>7. \A j \in DOMAIN lines : lines[j] > 0
        BY <1>2, <1>6, <2>2
    <2> HIDE DEF c
    <2> QED
        BY <1>8, <2>3, <2>5, <2>6, <2>7 DEF Sound
<1> HIDE DEF c
<1>10. /\ device' \in [CartDevices -> DeviceRows]
       /\ \A e \in CartDevices \ {d} : device'[e] = device[e]
       /\ device'[d].step = "idle"
    BY <1>1, RestsIs
<1>11. cart' = c
    BY <1>7 DEF c
<1> QED
    BY <1>1, <1>8, <1>9, <1>10, <1>11, EditStep

\* The cart is edited in one transaction.
LEMMA UpdateStep ==
    ASSUME CartIInv, NEW d \in CartDevices,
           \/ \E i \in CartItems, n \in Nat : n > 0 /\ UpdateCartItem(d, i, n)
           \/ \E combine \in BOOLEAN, mode \in [CartItems -> Modes] : UpdateProductDelivery(d, combine, mode)
    PROVE  CartIInv'
<1>1. CartTypes /\ (~raced => Sound(cart))
    BY DEF CartIInv, CartIsSound, Sound
<1>2. cart \in Carts /\ cart.lines \in CartLines /\ device \in [CartDevices -> DeviceRows]
    BY <1>1 DEF CartTypes, Carts
<1>3. ASSUME NEW i \in CartItems, NEW n \in Nat, n > 0, UpdateCartItem(d, i, n) PROVE CartIInv'
    <2> DEFINE lines == [cart.lines EXCEPT ![i] = n]
               c == [cart EXCEPT !.lines = lines]
    <2>1. /\ Edit(d) /\ i \in DOMAIN cart.lines /\ device[d].step = "idle"
          /\ UNCHANGED <<cartPrice, device>> /\ cart' = c
        BY <1>3 DEF UpdateCartItem
    <2>2. /\ lines \in CartLines /\ DOMAIN lines = DOMAIN cart.lines
          /\ \A j \in DOMAIN cart.lines : lines[j] = IF j = i THEN n ELSE cart.lines[j]
        BY <1>2, <2>1, LineSetIs
    <2> HIDE DEF lines
    <2>3. c \in Carts /\ c.lines = lines /\ c.shop = cart.shop
        BY <1>2, <2>2 DEF Carts
    <2>4. ~raced' => Sound(c)
        <3>1. ~raced' => ~raced
            BY <2>1 DEF Edit
        <3>2. ShopsOf(lines) = ShopsOf(cart.lines)
            BY <2>2 DEF ShopsOf
        <3> HIDE DEF c
        <3> QED
            BY <1>1, <1>3, <2>2, <2>3, <3>1, <3>2 DEF Sound
    <2> HIDE DEF c
    <2> QED
        BY <1>2, <2>1, <2>3, <2>4, EditStep
<1>4. ASSUME NEW combine \in BOOLEAN, NEW mode \in [CartItems -> Modes],
             UpdateProductDelivery(d, combine, mode)
      PROVE  CartIInv'
    <2> DEFINE c == [cart EXCEPT !.combine = combine, !.mode = mode]
    <2>1. /\ Edit(d) /\ device[d].step = "idle" /\ UNCHANGED <<cartPrice, device>> /\ cart' = c
        BY <1>4 DEF UpdateProductDelivery
    <2>2. c \in Carts /\ c.lines = cart.lines /\ c.shop = cart.shop
        BY <1>2 DEF Carts
    <2>3. ~raced' => ~raced
        BY <2>1 DEF Edit
    <2> HIDE DEF c
    <2>4. ~raced' => Sound(c)
        BY <1>1, <2>2, <2>3 DEF Sound
    <2> QED
        BY <1>2, <2>1, <2>2, <2>4, EditStep
<1> QED
    BY <1>3, <1>4

\* An item is deleted.
LEMMA DeleteStep ==
    ASSUME CartIInv, NEW d \in CartDevices, CommitDelete(d)
    PROVE  CartIInv'
<1> DEFINE gone == DOMAIN device[d].lines
           lines == Without(cart.lines, gone)
<1>1. CartTypes /\ DeviceKnows(d) /\ device[d].step = "delete" /\ Edit(d) /\ Rests(d) /\ UNCHANGED cartPrice
    BY DEF CartIInv, CommitDelete
<1>2. cart \in Carts /\ cart.lines \in CartLines
    BY <1>1 DEF CartTypes, Carts
<1>3. /\ lines \in CartLines /\ DOMAIN lines = DOMAIN cart.lines \ gone
      /\ \A j \in DOMAIN cart.lines \ gone : lines[j] = cart.lines[j]
    BY <1>2, WithoutIs
<1>4. cart' = IF ~(gone \subseteq DOMAIN cart.lines) THEN cart
              ELSE IF DOMAIN device[d].saw.lines = gone
              THEN [cart EXCEPT !.lines = lines, !.shop = NoShop, !.combine = FALSE]
              ELSE [cart EXCEPT !.lines = lines]
    BY DEF CommitDelete
<1>5. ~raced' => ~raced /\ device[d].saw = cart /\ Sound(cart)
    BY <1>1 DEF Edit, DeviceKnows, CartIInv, CartIsSound, Sound
<1> HIDE DEF lines
<1>6. PICK c \in Carts :
          /\ cart' = c
          /\ \/ c = cart
             \/ c.lines = lines /\ c.shop = NoShop /\ DOMAIN device[d].saw.lines = gone
             \/ /\ c.lines = lines /\ c.shop = cart.shop /\ gone \subseteq DOMAIN cart.lines
                /\ DOMAIN device[d].saw.lines # gone
    <2>1. [cart EXCEPT !.lines = lines, !.shop = NoShop, !.combine = FALSE] \in Carts
        BY <1>2, <1>3 DEF Carts, ShopsOrNone
    <2>2. [cart EXCEPT !.lines = lines] \in Carts
        BY <1>2, <1>3 DEF Carts
    <2> HIDE DEF gone
    <2> QED
        BY <1>2, <1>4, <2>1, <2>2 DEF Carts
<1>7. ASSUME ~raced' PROVE Sound(c)
    <2>1. device[d].saw = cart /\ Sound(cart)
        BY <1>5, <1>7
    <2>2. CASE c = cart
        BY <2>1, <2>2
    <2>3. CASE c.lines = lines /\ c.shop = NoShop /\ DOMAIN device[d].saw.lines = gone
        <3>1. DOMAIN lines = {}
            BY <1>3, <2>1, <2>3
        <3> QED
            BY <2>3, <3>1 DEF Sound, ShopsOf
    <2>4. CASE /\ c.lines = lines /\ c.shop = cart.shop /\ gone \subseteq DOMAIN cart.lines
               /\ DOMAIN device[d].saw.lines # gone
        <3>1. DOMAIN lines # {} /\ DOMAIN lines \subseteq DOMAIN cart.lines
            BY <1>3, <2>1, <2>4
        <3>2. ShopsOf(lines) # {} /\ ShopsOf(lines) \subseteq ShopsOf(cart.lines)
            BY <3>1 DEF ShopsOf
        <3>3. ShopsOf(lines) = {cart.shop} \ {NoShop}
            BY <2>1, <3>2 DEF Sound
        <3>4. \A j \in DOMAIN lines : lines[j] > 0
            BY <1>3, <2>1 DEF Sound
        <3> QED
            BY <2>4, <3>3, <3>4 DEF Sound
    <2> QED
        BY <1>6, <2>2, <2>3, <2>4
<1>8. /\ device' \in [CartDevices -> DeviceRows]
      /\ \A e \in CartDevices \ {d} : device'[e] = device[e]
      /\ device'[d].step = "idle"
    BY <1>1, RestsIs
<1> QED
    BY <1>1, <1>6, <1>7, <1>8, EditStep

\* Lines of one club are of the club of any of them.
LEMMA OneShopIs ==
    ASSUME NEW lines \in CartLines, OneShop(lines)
    PROVE  \E i \in DOMAIN lines : /\ i = CHOOSE j \in DOMAIN lines : TRUE
                                   /\ ShopsOf(lines) = {ShopOf[i]}
<1>1. IsFiniteSet(ShopsOf(lines))
    <2> DEFINE shop == [i \in DOMAIN lines |-> ShopOf[i]]
    <2>1. shop \in Surjection(DOMAIN lines, ShopsOf(lines))
        BY DEF Surjection, ShopsOf
    <2> HIDE DEF shop
    <2> QED
        BY <2>1, LineFacts, FS_Surjection
<1>2. PICK x : ShopsOf(lines) = {x}
    BY <1>1, FS_Singleton DEF OneShop
<1>3. DOMAIN lines # {} /\ \A i \in DOMAIN lines : ShopOf[i] = x
    BY <1>2 DEF ShopsOf
<1> QED
    BY <1>2, <1>3

\* The cart becomes an order.
LEMMA CheckoutStep ==
    ASSUME CartIInv, NEW d \in CartDevices, NEW o \in CartOrders, CommitCheckout(d, o)
    PROVE  CartIInv'
<1> DEFINE saw == device[d].saw
<1>1. /\ CartTypes /\ DeviceKnows(d) /\ device[d].step = "checkout" /\ Rests(d)
      /\ cartOrder[o].status = "NONE"
      /\ UNCHANGED <<cart, cartPrice, paying, handover, edits, raced>>
    BY DEF CartIInv, CommitCheckout
<1>2. /\ device' \in [CartDevices -> DeviceRows]
      /\ \A e \in CartDevices \ {d} : device'[e] = device[e]
      /\ device'[d].step = "idle"
    BY <1>1, RestsIs
<1>3. DeviceKnows(d)'
    BY <1>2 DEF DeviceKnows
<1>4. CASE UNCHANGED <<cartOrder, untouched>>
    BY <1>1, <1>2, <1>3, <1>4, DeviceMoves
<1>5. CASE /\ OneShop(saw.lines) /\ TotalOf(saw.lines) = device[d].shown /\ device[d].shown >= 0
           /\ cartOrder' = [cartOrder EXCEPT ![o] =
                 [status |-> "PENDING", shop |-> ShopOf[CHOOSE i \in DOMAIN saw.lines : TRUE],
                  of |-> saw, total |-> TotalOf(saw.lines), shown |-> device[d].shown]]
           /\ untouched' = IF cart = saw THEN untouched \cup {o} ELSE untouched
    <2>1. /\ saw \in Carts /\ saw.lines \in CartLines /\ device[d].shown \in Int
          /\ cartOrder \in [CartOrders -> CartOrderRows]
        BY <1>1 DEF CartTypes, DeviceRows, Carts
    <2>2. PICK i \in DOMAIN saw.lines : /\ i = CHOOSE j \in DOMAIN saw.lines : TRUE
                                        /\ ShopsOf(saw.lines) = {ShopOf[i]}
        BY <1>5, <2>1, OneShopIs
    <2>3. i \in CartItems
        BY <2>1, LineFacts
    <2> DEFINE row == [status |-> "PENDING", shop |-> ShopOf[i], of |-> saw,
                       total |-> device[d].shown, shown |-> device[d].shown]
    <2>4. cartOrder' = [cartOrder EXCEPT ![o] = row]
        BY <1>5, <2>2, Zenon
    <2>5. row \in CartOrderRows
        BY <2>1, <2>3 DEF CartOrderRows, ShopsOrNone
    <2>6. /\ cartOrder' \in [CartOrders -> CartOrderRows] /\ cartOrder'[o] = row
          /\ \A p \in CartOrders \ {o} : cartOrder'[p] = cartOrder[p]
        <3> HIDE DEF row
        <3> QED BY <2>1, <2>4, <2>5
    <2>7. /\ cartOrder'[o].status = "PENDING" /\ cartOrder'[o].of = saw
          /\ cartOrder'[o].shop = ShopOf[i] /\ cartOrder'[o].total = cartOrder'[o].shown
        BY <2>6
    <2> HIDE DEF row
    <2>8. CartTypes'
        BY <1>1, <1>2, <1>5, <2>6 DEF CartTypes
    <2>9. ASSUME NEW e \in CartDevices PROVE DeviceKnows(e)'
        <3>1. CASE e # d
            <4>1. DeviceKnows(e)
                BY DEF CartIInv
            <4> QED
                BY <1>1, <1>2, <3>1, <4>1 DEF DeviceKnows
        <3> QED
            BY <1>3, <3>1
    <2>10. ASSUME NEW p \in CartOrders PROVE OrderKnows(p)'
        <3>1. OrderKnows(p)
            BY DEF CartIInv
        <3>2. CASE p = o
            <4>1. paying'[p].step # "open"
                BY <1>1, <3>1, <3>2 DEF OrderKnows
            <4>2. o \in untouched' => cart'.lines = saw.lines
                <5>1. o \notin untouched
                    BY <1>1, <3>1, <3>2 DEF OrderKnows
                <5> QED
                    BY <1>1, <1>5, <5>1
            <4> QED
                BY <2>2, <2>7, <3>2, <4>1, <4>2 DEF OrderKnows
        <3>3. CASE p # o
            <4>1. cartOrder'[p] = cartOrder[p] /\ (p \in untouched' => p \in untouched)
                BY <1>5, <2>6, <3>3
            <4> QED
                BY <1>1, <3>1, <4>1 DEF OrderKnows
        <3> QED
            BY <3>2, <3>3
    <2>11. HandedOver'
        <3>1. handover' = [p \in CartOrders |-> IF cartOrder[p].status = "PAID" THEN PlanOf(p) ELSE {}]
            BY <1>1 DEF CartIInv, HandedOver
        <3>2. ASSUME NEW p \in CartOrders
              PROVE  (IF cartOrder[p].status = "PAID" THEN PlanOf(p) ELSE {})
                     = (IF cartOrder'[p].status = "PAID" THEN PlanOf(p)' ELSE {})
            <4>1. CASE p = o
                BY <1>1, <2>7, <4>1
            <4>2. CASE p # o
                BY <2>6, <4>2 DEF PlanOf
            <4> QED
                BY <4>1, <4>2
        <3> QED
            BY <3>1, <3>2 DEF HandedOver
    <2>12. CartIsSound'
        <3> SUFFICES ASSUME ~raced' PROVE CartIsSound'
            BY DEF CartIsSound
        <3>1. CartIsSound /\ ~raced /\ saw = cart
            BY <1>1 DEF CartIInv, DeviceKnows
        <3>2. ASSUME NEW p \in CartOrders, NEW j \in DOMAIN cartOrder'[p].of.lines
              PROVE  cartOrder'[p].of.lines[j] > 0
            <4>1. CASE p = o
                BY <2>7, <3>1, <3>2, <4>1 DEF CartIsSound
            <4>2. CASE p # o
                BY <2>6, <3>1, <3>2, <4>2 DEF CartIsSound
            <4> QED
                BY <4>1, <4>2
        <3> QED
            BY <1>1, <3>1, <3>2 DEF CartIsSound
    <2> QED
        BY <2>8, <2>9, <2>10, <2>11, <2>12 DEF CartIInv
<1> QED
    BY <1>4, <1>5 DEF CommitCheckout

\* An approval begins, an order ends unpaid, or a price is edited.
LEMMA OrderStep ==
    ASSUME CartIInv,
           \/ \E o \in CartOrders : BeginApproval(o) \/ EndUnpaid(o)
           \/ \E i \in CartItems : ChangePrice(i)
    PROVE  CartIInv'
<1>1. CartTypes /\ HandedOver /\ CartIsSound
      /\ (\A d \in CartDevices : DeviceKnows(d)) /\ (\A o \in CartOrders : OrderKnows(o))
    BY DEF CartIInv
<1>2. ASSUME NEW o \in CartOrders, BeginApproval(o) PROVE CartIInv'
    <2>1. UNCHANGED <<cart, cartPrice, device, cartOrder, handover, edits, raced, untouched>>
        BY <1>2 DEF BeginApproval
    <2>2. /\ paying' \in [CartOrders -> [step : {"idle", "open"}, saw : CartLines]]
          /\ paying'[o].step = "open" /\ paying'[o].saw = cart.lines
          /\ \A p \in CartOrders \ {o} : paying'[p] = paying[p]
          /\ cartOrder[o].status = "PENDING"
        BY <1>1, <1>2 DEF BeginApproval, CartTypes, Carts
    <2>3. CartTypes'
        BY <1>1, <2>1, <2>2 DEF CartTypes
    <2>4. ASSUME NEW p \in CartOrders PROVE OrderKnows(p)'
        <3>1. CASE p = o
            BY <1>1, <2>1, <2>2, <3>1 DEF OrderKnows
        <3>2. CASE p # o
            BY <1>1, <2>1, <2>2, <3>2 DEF OrderKnows
        <3> QED
            BY <3>1, <3>2
    <2> QED
        BY <1>1, <2>1, <2>3, <2>4 DEF CartIInv, DeviceKnows, HandedOver, PlanOf, CartIsSound
<1>3. ASSUME NEW o \in CartOrders, EndUnpaid(o) PROVE CartIInv'
    <2>1. /\ UNCHANGED <<cart, cartPrice, device, paying, handover, edits, raced, untouched>>
          /\ cartOrder[o].status = "PENDING" /\ paying[o].step = "idle"
        BY <1>3 DEF EndUnpaid
    <2>2. /\ cartOrder' \in [CartOrders -> CartOrderRows]
          /\ cartOrder'[o].status = "EXPIRED" /\ cartOrder'[o].of = cartOrder[o].of
          /\ cartOrder'[o].shop = cartOrder[o].shop
          /\ cartOrder'[o].total = cartOrder[o].total /\ cartOrder'[o].shown = cartOrder[o].shown
          /\ \A p \in CartOrders \ {o} : cartOrder'[p] = cartOrder[p]
        BY <1>1, <1>3 DEF EndUnpaid, CartTypes, CartOrderRows
    <2>3. CartTypes'
        BY <1>1, <2>1, <2>2 DEF CartTypes
    <2>4. ASSUME NEW p \in CartOrders PROVE OrderKnows(p)'
        <3>1. CASE p = o
            BY <1>1, <2>1, <2>2, <3>1 DEF OrderKnows
        <3>2. CASE p # o
            BY <1>1, <2>1, <2>2, <3>2 DEF OrderKnows
        <3> QED
            BY <3>1, <3>2
    <2>5. HandedOver'
        <3>1. ASSUME NEW p \in CartOrders
              PROVE  (IF cartOrder[p].status = "PAID" THEN PlanOf(p) ELSE {})
                     = (IF cartOrder'[p].status = "PAID" THEN PlanOf(p)' ELSE {})
            <4>1. CASE p = o
                BY <2>1, <2>2, <4>1
            <4>2. CASE p # o
                BY <2>2, <4>2 DEF PlanOf
            <4> QED
                BY <4>1, <4>2
        <3> QED
            BY <1>1, <2>1, <3>1 DEF HandedOver
    <2>6. CartIsSound'
        BY <1>1, <2>1, <2>2 DEF CartIsSound
    <2>7. \A d \in CartDevices : DeviceKnows(d)'
        BY <1>1, <2>1 DEF DeviceKnows
    <2> QED
        BY <2>3, <2>4, <2>5, <2>6, <2>7 DEF CartIInv
<1>4. ASSUME NEW i \in CartItems, ChangePrice(i) PROVE CartIInv'
    <2>1. UNCHANGED <<cart, device, cartOrder, paying, handover, raced, untouched>>
        BY <1>4 DEF ChangePrice
    <2>2. cartPrice' \in [CartItems -> Int]
        BY <1>1, <1>4 DEF ChangePrice, CartTypes
    <2>3. CartTypes'
        BY <1>1, <2>1, <2>2 DEF CartTypes
    <2>4. \A o \in CartOrders : OrderKnows(o)'
        BY <1>1, <2>1 DEF OrderKnows
    <2> QED
        BY <1>1, <2>1, <2>3, <2>4 DEF CartIInv, DeviceKnows, HandedOver, PlanOf, CartIsSound
<1> QED
    BY <1>2, <1>3, <1>4

\* A payment is approved: what was bought goes out of the cart.
LEMMA ApprovalStep ==
    ASSUME CartIInv, NEW o \in CartOrders, CommitApproval(o)
    PROVE  CartIInv'
<1> DEFINE sold == cartOrder[o].of.lines
           saw == paying[o].saw
           inCart == DOMAIN sold \cap DOMAIN saw
           go == {i \in inCart : saw[i] <= sold[i]}
           lines == [i \in DOMAIN cart.lines \ go |->
                        IF i \in inCart THEN cart.lines[i] - sold[i] ELSE cart.lines[i]]
<1>1. /\ CartTypes /\ HandedOver /\ CartIsSound
      /\ (\A d \in CartDevices : DeviceKnows(d)) /\ (\A p \in CartOrders : OrderKnows(p))
    BY DEF CartIInv
<1>2. /\ paying[o].step = "open" /\ paying' = [paying EXCEPT ![o] = NotPaying]
      /\ UNCHANGED <<cartPrice, device, edits>>
    BY DEF CommitApproval
<1>3. /\ paying' \in [CartOrders -> [step : {"idle", "open"}, saw : CartLines]]
      /\ paying'[o].step = "idle" /\ \A p \in CartOrders \ {o} : paying'[p] = paying[p]
    <2>1. NotPaying \in [step : {"idle", "open"}, saw : CartLines]
        BY NoLinesIs DEF NotPaying
    <2>2. paying \in [CartOrders -> [step : {"idle", "open"}, saw : CartLines]]
        BY <1>1 DEF CartTypes
    <2>3. NotPaying.step = "idle"
        BY DEF NotPaying
    <2> QED
        BY <1>2, <2>1, <2>2, <2>3
<1>4. cartOrder[o].status = "PENDING"
    BY <1>1, <1>2 DEF OrderKnows
<1>5. CASE UNCHANGED <<cart, cartOrder, handover, raced, untouched>>
    <2>1. CartTypes'
        BY <1>1, <1>2, <1>3, <1>5 DEF CartTypes
    <2>2. ASSUME NEW p \in CartOrders PROVE OrderKnows(p)'
        <3>1. CASE p = o
            BY <1>1, <1>3, <1>5, <3>1 DEF OrderKnows
        <3>2. CASE p # o
            BY <1>1, <1>3, <1>5, <3>2 DEF OrderKnows
        <3> QED
            BY <3>1, <3>2
    <2> QED
        BY <1>1, <1>2, <1>5, <2>1, <2>2 DEF CartIInv, DeviceKnows, HandedOver, PlanOf, CartIsSound
<1>6. CASE /\ inCart \subseteq DOMAIN cart.lines
           /\ cart' = Emptied(lines)
           /\ cartOrder' = [cartOrder EXCEPT ![o].status = "PAID"]
           /\ handover' = [handover EXCEPT ![o] = PlanOf(o)]
           /\ raced' = (raced \/ (\E d \in CartDevices : device[d].step # "idle")
                              \/ (\E p \in CartOrders \ {o} : paying[p].step # "idle"))
           /\ untouched' = untouched \cap {o}
    <2>1. /\ cart \in Carts /\ cart.lines \in CartLines /\ sold \in CartLines /\ saw \in CartLines
          /\ cartOrder \in [CartOrders -> CartOrderRows]
        BY <1>1 DEF CartTypes, Carts, CartOrderRows
    <2>2. lines \in CartLines /\ DOMAIN lines = DOMAIN cart.lines \ go
        <3>1. DOMAIN cart.lines \subseteq CartItems /\ \A i \in DOMAIN cart.lines : cart.lines[i] \in Int
            BY <2>1, LineFacts
        <3>2. \A i \in DOMAIN sold : sold[i] \in Int
            BY <2>1, LineFacts
        <3>3. \A m, n \in Int : m - n \in Int
            OBVIOUS
        <3> HIDE DEF sold, saw, go
        <3>4. \A i \in DOMAIN cart.lines \ go :
                 (IF i \in inCart THEN cart.lines[i] - sold[i] ELSE cart.lines[i]) \in Int
            BY <3>1, <3>2, <3>3
        <3>5. lines \in [DOMAIN cart.lines \ go -> Int]
            BY <3>4
        <3>6. DOMAIN cart.lines \ go \subseteq CartItems
            BY <3>1
        <3> HIDE DEF lines, inCart
        <3> QED
            BY <3>5, <3>6, LinesMade
    <2>3. \A i \in DOMAIN lines :
             lines[i] = IF i \in inCart THEN cart.lines[i] - sold[i] ELSE cart.lines[i]
        OBVIOUS
    <2> HIDE DEF lines
    <2>4. PICK c \in Carts :
              /\ cart' = c /\ c.lines = lines
              /\ \/ DOMAIN lines = {} /\ c.shop = NoShop
                 \/ DOMAIN lines # {} /\ c.shop = cart.shop
        <3>1. /\ [cart EXCEPT !.lines = lines, !.shop = NoShop, !.combine = FALSE] \in Carts
              /\ [cart EXCEPT !.lines = lines] \in Carts
            BY <2>1, <2>2 DEF Carts, ShopsOrNone
        <3> QED
            BY <1>6, <2>1, <3>1 DEF Emptied, Carts
    <2>5. /\ cartOrder' \in [CartOrders -> CartOrderRows]
          /\ cartOrder'[o].status = "PAID" /\ cartOrder'[o].of = cartOrder[o].of
          /\ cartOrder'[o].shop = cartOrder[o].shop
          /\ cartOrder'[o].total = cartOrder[o].total /\ cartOrder'[o].shown = cartOrder[o].shown
          /\ \A p \in CartOrders \ {o} : cartOrder'[p] = cartOrder[p]
        BY <1>6, <2>1 DEF CartOrderRows
    <2>6. CartTypes'
        BY <1>1, <1>2, <1>3, <1>6, <2>4, <2>5 DEF CartTypes
    <2>7. ~raced' => /\ ~raced /\ \A d \in CartDevices : device[d].step = "idle"
                     /\ \A p \in CartOrders \ {o} : paying[p].step = "idle"
        BY <1>6
    <2>8. ASSUME NEW d \in CartDevices PROVE DeviceKnows(d)'
        <3>1. device'[d] = device[d] /\ DeviceKnows(d) /\ (~raced' => device[d].step = "idle")
            BY <1>1, <1>2, <2>7
        <3> QED
            BY <3>1 DEF DeviceKnows
    <2>9. ASSUME NEW p \in CartOrders PROVE OrderKnows(p)'
        <3>1. OrderKnows(p) /\ OrderKnows(o)
            BY <1>1
        <3>2. CASE p = o
            <4>1. ASSUME o \in untouched' PROVE DOMAIN cartOrder'[o].of.lines \cap DOMAIN cart'.lines = {}
                <5>1. o \in untouched
                    BY <1>6, <4>1
                <5>2. cart.lines = sold /\ saw = cart.lines
                    BY <1>2, <1>4, <3>1, <5>1 DEF OrderKnows
                <5>3. \A i \in DOMAIN sold : sold[i] \in Int
                    BY <2>1, LineFacts
                <5>4. go = DOMAIN sold
                    BY <5>2, <5>3
                <5> QED
                    BY <2>2, <2>4, <2>5, <5>2, <5>4
            <4> QED
                BY <1>3, <1>4, <2>5, <3>1, <3>2, <4>1 DEF OrderKnows
        <3>3. CASE p # o
            <4>1. p \notin untouched' /\ cartOrder'[p] = cartOrder[p] /\ paying'[p] = paying[p]
                BY <1>3, <1>6, <2>5, <3>3
            <4>2. ~raced' => paying[p].step = "idle"
                BY <2>7, <3>3
            <4> QED
                BY <3>1, <4>1, <4>2 DEF OrderKnows
        <3> QED
            BY <3>2, <3>3
    <2>10. HandedOver'
        <3>1. handover' = [p \in CartOrders |-> IF p = o THEN PlanOf(o)
                                                ELSE IF cartOrder[p].status = "PAID" THEN PlanOf(p) ELSE {}]
            BY <1>1, <1>6 DEF HandedOver
        <3>2. ASSUME NEW p \in CartOrders
              PROVE  (IF p = o THEN PlanOf(o) ELSE IF cartOrder[p].status = "PAID" THEN PlanOf(p) ELSE {})
                     = (IF cartOrder'[p].status = "PAID" THEN PlanOf(p)' ELSE {})
            <4>1. CASE p = o
                BY <2>5, <4>1 DEF PlanOf
            <4>2. CASE p # o
                BY <2>5, <4>2 DEF PlanOf
            <4> QED
                BY <4>1, <4>2
        <3> QED
            BY <3>1, <3>2 DEF HandedOver
    <2>11. CartIsSound'
        <3> SUFFICES ASSUME ~raced' PROVE CartIsSound'
            BY DEF CartIsSound
        <3>1. ~raced /\ CartIsSound /\ saw = cart.lines
            BY <1>1, <1>2, <2>7 DEF OrderKnows
        <3>2. DOMAIN lines \subseteq DOMAIN cart.lines
            BY <2>2
        <3>3. ASSUME NEW i \in DOMAIN lines PROVE lines[i] > 0
            <4>1. i \in DOMAIN cart.lines /\ i \notin go /\ cart.lines[i] \in Int /\ cart.lines[i] > 0
                BY <2>1, <2>2, <3>1, <3>3, LineFacts DEF CartIsSound
            <4>2. CASE i \in inCart
                <5>1. sold[i] \in Int /\ ~(cart.lines[i] <= sold[i])
                    BY <2>1, <3>1, <4>1, <4>2, LineFacts
                <5>2. lines[i] = cart.lines[i] - sold[i]
                    BY <2>3, <4>2
                <5> QED
                    BY <4>1, <5>1, <5>2
            <4>3. CASE i \notin inCart
                BY <2>3, <4>1, <4>3
            <4> QED
                BY <4>2, <4>3
        <3>4. ShopsOf(lines) = {c.shop} \ {NoShop}
            <4>1. ShopsOf(lines) \subseteq ShopsOf(cart.lines)
                BY <3>2 DEF ShopsOf
            <4>2. ShopsOf(cart.lines) = {cart.shop} \ {NoShop}
                BY <3>1 DEF CartIsSound
            <4>3. DOMAIN lines # {} <=> ShopsOf(lines) # {}
                BY DEF ShopsOf
            <4> QED
                BY <2>4, <4>1, <4>2, <4>3
        <3>5. ASSUME NEW p \in CartOrders, NEW j \in DOMAIN cartOrder'[p].of.lines
              PROVE  cartOrder'[p].of.lines[j] > 0
            <4>1. cartOrder'[p].of = cartOrder[p].of
                BY <2>5
            <4> QED
                BY <3>1, <3>5, <4>1 DEF CartIsSound
        <3> QED
            BY <2>4, <3>3, <3>4, <3>5 DEF CartIsSound
    <2> QED
        BY <2>6, <2>8, <2>9, <2>10, <2>11 DEF CartIInv
<1> QED
    BY <1>5, <1>6 DEF CommitApproval

LEMMA CartStutter == CartIInv /\ UNCHANGED cartVars => CartIInv'
<1> SUFFICES ASSUME CartIInv, UNCHANGED cartVars PROVE CartIInv'
    OBVIOUS
<1>1. UNCHANGED <<cart, cartPrice, device, cartOrder, paying, handover, edits, raced, untouched>>
    BY DEF cartVars
<1>2. CartTypes'
    BY <1>1 DEF CartIInv, CartTypes
<1>3. (\A d \in CartDevices : DeviceKnows(d)') /\ (\A o \in CartOrders : OrderKnows(o)')
    BY <1>1 DEF CartIInv, DeviceKnows, OrderKnows
<1> QED
    BY <1>1, <1>2, <1>3 DEF CartIInv, HandedOver, PlanOf, CartIsSound

LEMMA CartStep == CartIInv /\ [CartNext]_cartVars => CartIInv'
<1> SUFFICES ASSUME CartIInv, [CartNext]_cartVars PROVE CartIInv'
    OBVIOUS
<1>1. \A i \in CartItems : \A n \in 1..MaxUnits[i] : n \in Nat /\ n > 0
    BY CartAssumption
<1>2. ASSUME NEW d \in CartDevices,
             \/ GetCart(d) \/ CommitAdd(d) \/ CommitDelete(d) \/ BeginCheckout(d) \/ LeaveCart(d)
             \/ \E i \in CartItems : \/ BeginDelete(d, i)
                                     \/ \E n \in 1..MaxUnits[i] : BeginAdd(d, i, n) \/ UpdateCartItem(d, i, n)
             \/ \E combine \in BOOLEAN, mode \in [CartItems -> Modes] : UpdateProductDelivery(d, combine, mode)
             \/ \E o \in CartOrders : CommitCheckout(d, o)
      PROVE  CartIInv'
    BY <1>1, <1>2, DeviceStep, AddStep, DeleteStep, UpdateStep, CheckoutStep
<1>3. CASE \E o \in CartOrders : BeginApproval(o) \/ CommitApproval(o) \/ EndUnpaid(o)
    BY <1>3, OrderStep, ApprovalStep
<1>4. CASE \E i \in CartItems : ChangePrice(i)
    BY <1>4, OrderStep
<1> QED
    BY <1>2, <1>3, <1>4, CartStutter DEF CartNext

\* What the invariant says of a cart and its orders.
LEMMA CartShown == CartIInv => CartInv
<1> SUFFICES ASSUME CartIInv PROVE CartInv
    OBVIOUS
<1>1. CartTypes /\ HandedOver /\ CartIsSound /\ \A o \in CartOrders : OrderKnows(o)
    BY DEF CartIInv
<1>2. CartTypeOK
    <2>1. cart.lines \in CartLines /\ cart.mode \in [CartItems -> Modes]
        BY <1>1 DEF CartTypes, Carts
    <2>2. \A o \in CartOrders : cartOrder[o].status \in {"NONE", "PENDING", "PAID", "EXPIRED"}
        BY <1>1 DEF CartTypes, CartOrderRows
    <2> QED
        BY <2>1, <2>2, LineFacts DEF CartTypeOK
<1>3. OrderIsOfOneClub
    BY <1>1 DEF OrderIsOfOneClub, OrderKnows
<1>4. PaidIsOutOfCart
    BY <1>1 DEF PaidIsOutOfCart, OrderKnows, CartTypes
<1>5. HandedOverAsOrdered
    <2> SUFFICES ASSUME NEW o \in CartOrders, cartOrder[o].status = "PAID"
                 PROVE  LET sold == cartOrder[o].of
                            pieces == handover[o]
                            UnitsIn(row, i) == IF i \in DOMAIN row.units THEN row.units[i] ELSE 0 IN
                        /\ \A i \in CartItems : (i \in DOMAIN sold.lines => sold.lines[i] >= 0) =>
                               MapThenSumSet(LAMBDA r : UnitsIn(r, i), pieces) =
                                   IF i \in DOMAIN sold.lines \cap CartProducts THEN sold.lines[i] ELSE 0
                        /\ sold.combine => Cardinality(pieces) <= 1
                        /\ ~sold.combine => \A r \in pieces :
                               /\ Cardinality(DOMAIN r.units) = 1
                               /\ \A i \in DOMAIN r.units : sold.mode[i] = "SEPARATE" => r.units[i] = 1
        BY <1>1 DEF HandedOverAsOrdered, HandedOver
    <2> DEFINE sold == cartOrder[o].of
               pieces == handover[o]
    <2>1. sold.combine \in BOOLEAN /\ sold.lines \in CartLines /\ sold.mode \in [CartItems -> Modes]
        BY <1>1 DEF CartTypes, CartOrderRows, Carts
    <2>2. pieces = Plan(sold.combine, sold.lines, sold.mode)
        BY <1>1 DEF HandedOver, PlanOf
    <2> HIDE DEF sold, pieces
    <2>3. ASSUME NEW i \in CartItems, i \in DOMAIN sold.lines => sold.lines[i] >= 0
          PROVE  MapThenSumSet(LAMBDA r : IF i \in DOMAIN r.units THEN r.units[i] ELSE 0, pieces) =
                     IF i \in DOMAIN sold.lines \cap CartProducts THEN sold.lines[i] ELSE 0
        <3>1. MapThenSumSet(LAMBDA r : IF i \in DOMAIN r.units THEN r.units[i] ELSE 0, pieces)
              = SumOver(UnitsColumn(pieces, i), pieces)
            BY UnitsAreSummed
        <3>2. SumOver(UnitsColumn(pieces, i), pieces)
              = IF i \in DOMAIN sold.lines \cap CartProducts THEN sold.lines[i] ELSE 0
            BY <2>1, <2>2, <2>3, PlanHandsOver
        <3> QED
            BY <3>1, <3>2, Zenon
    <2>4. /\ sold.combine => Cardinality(pieces) <= 1
          /\ ~sold.combine => \A r \in pieces :
                 /\ Cardinality(DOMAIN r.units) = 1
                 /\ \A i \in DOMAIN r.units : sold.mode[i] = "SEPARATE" => r.units[i] = 1
        BY <2>1, <2>2, PlanGroups
    <2> QED
        BY <2>3, <2>4 DEF sold, pieces
<1> QED
    BY <1>1, <1>2, <1>3, <1>4, <1>5 DEF CartInv

\* An order is of one club, is handed over as it was ordered and leaves the cart
\* once it is paid, whatever several devices do to the cart meanwhile.
THEOREM CartInvariance == CartSpec => []CartInv
<1> QED
    BY InitCart, CartStep, CartShown, PTL DEF CartSpec

-----------------------------------------------------------------------------
(***************************************************************************)
(* Discovery                                                               *)
(***************************************************************************)
-----------------------------------------------------------------------------
(* Lists in an order.                                                      *)

\* A list with each element of a set once.
IsListOf(L, S) ==
    /\ L \in Seq(S)
    /\ \A x \in S : \E i \in 1..Len(L) : L[i] = x
    /\ \A i, j \in 1..Len(L) : L[i] = L[j] => i = j

\* Keys that put the elements of a set in one order.
Orders(key, S) ==
    /\ \A x \in S : ~Before(key[x], key[x])
    /\ \A x, y \in S : x # y => Before(key[x], key[y]) \/ Before(key[y], key[x])
    /\ \A x, y, z \in S : Before(key[x], key[y]) /\ Before(key[y], key[z]) => Before(key[x], key[z])

\* Each element has a place of its own, and no place is left empty.
LEMMA InOrderIs ==
    ASSUME NEW S, IsFiniteSet(S), NEW key, Orders(key, S)
    PROVE  IsListOf(InOrder(S, key), S)
<1> DEFINE below(x) == {y \in S : Before(key[y], key[x])}
           N == Cardinality(S)
           place == [x \in S |-> Cardinality(below(x)) + 1]
           list == [n \in 1..N |-> CHOOSE x \in S : place[x] = n]
<1>1. N \in Nat /\ IsFiniteSet(1..N) /\ Cardinality(1..N) = N
    BY FS_CardinalityType, FS_Interval
<1>2. ASSUME NEW x \in S
      PROVE  /\ IsFiniteSet(below(x)) /\ Cardinality(below(x)) \in Nat
             /\ Cardinality(below(x)) <= N - 1
    <2>1. below(x) \subseteq S \ {x}
        BY DEF Orders
    <2>2. IsFiniteSet(S \ {x}) /\ Cardinality(S \ {x}) = N - 1
        BY FS_RemoveElement
    <2> QED
        BY <2>1, <2>2, FS_Subset, FS_CardinalityType
<1>3. place \in [S -> 1..N]
    <2>1. ASSUME NEW x \in S PROVE place[x] \in 1..N
        <3>1. place[x] = Cardinality(below(x)) + 1
            OBVIOUS
        <3> HIDE DEF below, place
        <3> QED
            BY <1>1, <1>2, <3>1
    <2>2. DOMAIN place = S /\ place = [x \in S |-> place[x]]
        OBVIOUS
    <2> HIDE DEF place
    <2> QED
        BY <2>1, <2>2
<1>4. ASSUME NEW x \in S, NEW y \in S, Before(key[x], key[y]) PROVE place[x] < place[y]
    <2>1. below(x) \cup {x} \subseteq below(y)
        BY <1>4 DEF Orders
    <2>2. x \notin below(x)
        BY DEF Orders
    <2>3. Cardinality(below(x) \cup {x}) = Cardinality(below(x)) + 1
        BY <1>2, <2>2, FS_AddElement
    <2>4. Cardinality(below(x) \cup {x}) <= Cardinality(below(y))
        BY <1>2, <2>1, FS_Subset
    <2>5. Cardinality(below(x)) \in Nat /\ Cardinality(below(y)) \in Nat
        BY <1>2
    <2> HIDE DEF below
    <2> QED
        BY <2>3, <2>4, <2>5
<1> HIDE DEF below
<1>5. \A x, y \in S : place[x] = place[y] => x = y
    <2> SUFFICES ASSUME NEW x \in S, NEW y \in S, place[x] = place[y], x # y PROVE FALSE
        OBVIOUS
    <2>1. place[x] \in Int /\ place[y] \in Int
        BY <1>3
    <2>2. place[x] < place[y] \/ place[y] < place[x]
        BY <1>4 DEF Orders
    <2> QED
        BY <2>1, <2>2
<1> HIDE DEF place
<1>6. place \in Injection(S, 1..N)
    BY <1>3, <1>5 DEF Injection, IsInjective
<1>7. place \in Surjection(S, 1..N)
    BY <1>1, <1>6, FS_Injection
<1>8. \A n \in 1..N : \E x \in S : place[x] = n
    BY <1>7 DEF Surjection
<1>9. \A n \in 1..N : list[n] \in S /\ place[list[n]] = n
    BY <1>8
<1>10. InOrder(S, key) = list
    BY DEF InOrder, place, below
<1>11. list \in [1..N -> S]
    BY <1>9
<1> HIDE DEF list
<1>12. list \in Seq(S) /\ Len(list) = N
    BY <1>1, <1>11, IsASeq, LenProperties
<1>13. \A x \in S : \E i \in 1..N : list[i] = x
    <2> TAKE x \in S
    <2>1. place[x] \in 1..N
        BY <1>3
    <2>2. list[place[x]] = x
        BY <1>5, <1>9, <2>1
    <2> QED
        BY <2>1, <2>2
<1>14. \A i, j \in 1..N : list[i] = list[j] => i = j
    BY <1>9
<1> QED
    BY <1>10, <1>12, <1>13, <1>14 DEF IsListOf

\* The order of two numbers each, and of four each.
LEMMA BeforeOfTwo ==
    ASSUME NEW a, NEW b, NEW c, NEW d
    PROVE  Before(<<a, b>>, <<c, d>>) <=> a < c \/ (a = c /\ b < d)
BY DEF Before

LEMMA BeforeOfFour ==
    ASSUME NEW a, NEW b, NEW c, NEW d, NEW e, NEW f, NEW g, NEW h
    PROVE  Before(<<a, b, c, d>>, <<e, f, g, h>>)
           <=> a < e \/ (a = e /\ (b < f \/ (b = f /\ (c < g \/ (c = g /\ d < h)))))
BY DEF Before

\* The order of four numbers is one, and so is that of two.
LEMMA FourAreOrdered ==
    ASSUME NEW p \in Int \X Int \X Int \X Int, NEW q \in Int \X Int \X Int \X Int,
           NEW r \in Int \X Int \X Int \X Int
    PROVE  /\ ~Before(p, p)
           /\ p[4] # q[4] => Before(p, q) \/ Before(q, p)
           /\ Before(p, q) /\ Before(q, r) => Before(p, r)
<1> DEFINE Is(x, y) == x[1] < y[1] \/ (x[1] = y[1] /\ (x[2] < y[2] \/ (x[2] = y[2]
                        /\ (x[3] < y[3] \/ (x[3] = y[3] /\ x[4] < y[4])))))
<1>1. ASSUME NEW x \in Int \X Int \X Int \X Int, NEW y \in Int \X Int \X Int \X Int
      PROVE  Before(x, y) <=> Is(x, y)
    <2>1. x = <<x[1], x[2], x[3], x[4]>> /\ y = <<y[1], y[2], y[3], y[4]>>
        OBVIOUS
    <2>2. Before(<<x[1], x[2], x[3], x[4]>>, <<y[1], y[2], y[3], y[4]>>) <=> Is(x, y)
        BY BeforeOfFour
    <2> QED
        BY <2>1, <2>2
<1>2. /\ p[1] \in Int /\ p[2] \in Int /\ p[3] \in Int /\ p[4] \in Int
      /\ q[1] \in Int /\ q[2] \in Int /\ q[3] \in Int /\ q[4] \in Int
      /\ r[1] \in Int /\ r[2] \in Int /\ r[3] \in Int /\ r[4] \in Int
    OBVIOUS
<1>3. ~Is(p, p) /\ (p[4] # q[4] => Is(p, q) \/ Is(q, p)) /\ (Is(p, q) /\ Is(q, r) => Is(p, r))
    BY <1>2
<1> HIDE DEF Is
<1> QED
    BY <1>1, <1>3

LEMMA TwoAreOrdered ==
    ASSUME NEW a1 \in Int, NEW b1 \in Int, NEW a2 \in Int, NEW b2 \in Int, NEW a3 \in Int, NEW b3 \in Int
    PROVE  /\ ~Before(<<a1, b1>>, <<a1, b1>>)
           /\ b1 # b2 => Before(<<a1, b1>>, <<a2, b2>>) \/ Before(<<a2, b2>>, <<a1, b1>>)
           /\ Before(<<a1, b1>>, <<a2, b2>>) /\ Before(<<a2, b2>>, <<a3, b3>>)
              => Before(<<a1, b1>>, <<a3, b3>>)
BY BeforeOfTwo

\* Keys of two numbers, or of four, of which the last is of one element only.
LEMMA OrdersByTwo ==
    ASSUME NEW S, NEW key, NEW f \in [S -> Int], NEW l \in [S -> Int],
           \A x \in S : key[x] = <<f[x], l[x]>>, \A x, y \in S : l[x] = l[y] => x = y
    PROVE  Orders(key, S)
<1>1. \A x \in S : f[x] \in Int /\ l[x] \in Int
    OBVIOUS
<1>2. ASSUME NEW x \in S, NEW y \in S, NEW z \in S
      PROVE  /\ ~Before(key[x], key[x])
             /\ x # y => Before(key[x], key[y]) \/ Before(key[y], key[x])
             /\ Before(key[x], key[y]) /\ Before(key[y], key[z]) => Before(key[x], key[z])
    <2>1. l[x] = l[y] => x = y
        OBVIOUS
    <2>2. key[x] = <<f[x], l[x]>> /\ key[y] = <<f[y], l[y]>> /\ key[z] = <<f[z], l[z]>>
        OBVIOUS
    <2> QED
        BY <1>1, <2>1, <2>2, TwoAreOrdered
<1> QED
    BY <1>2 DEF Orders

LEMMA OrdersByFour ==
    ASSUME NEW S, NEW key, \A x \in S : key[x] \in Int \X Int \X Int \X Int,
           \A x, y \in S : key[x][4] = key[y][4] => x = y
    PROVE  Orders(key, S)
<1>1. ASSUME NEW x \in S, NEW y \in S, NEW z \in S
      PROVE  /\ ~Before(key[x], key[x])
             /\ x # y => Before(key[x], key[y]) \/ Before(key[y], key[x])
             /\ Before(key[x], key[y]) /\ Before(key[y], key[z]) => Before(key[x], key[z])
    BY FourAreOrdered
<1> QED
    BY <1>1 DEF Orders

-----------------------------------------------------------------------------
(* The catalogs.                                                           *)

\* An order of a set is one of each part of it.
LEMMA OrdersPart ==
    ASSUME NEW S, NEW key, Orders(key, S), NEW s, s \subseteq S PROVE Orders(key, s)
BY DEF Orders

\* Names and ids tell clubs from each other, and events.
LEMMA ListedIs ==
    /\ \A x \in Clubs \cup ShopEvents : Listed[x] \in Nat
    /\ \A x, y \in Clubs : Listed[x] = Listed[y] => x = y
    /\ \A x, y \in ShopEvents : Listed[x] = Listed[y] => x = y
<1>1. Clubs \in {Clubs, ShopEvents} /\ ShopEvents \in {Clubs, ShopEvents}
    OBVIOUS
<1> QED
    BY <1>1, DiscoveryAssumption

\* What is ordered by when it starts: each once.
LEMMA ByStartIs ==
    ASSUME NEW s, s \subseteq ShopEvents PROVE IsListOf(ByStart(s), s)
<1> DEFINE key == [e \in ShopEvents |-> <<StartsAt[e], Listed[e]>>]
           f == [e \in ShopEvents |-> StartsAt[e]]
           l == [e \in ShopEvents |-> Listed[e]]
<1>1. f \in [ShopEvents -> Int]
    BY DiscoveryAssumption
<1>2. l \in [ShopEvents -> Int] /\ \A x, y \in ShopEvents : l[x] = l[y] => x = y
    BY ListedIs
<1>3. \A e \in ShopEvents : key[e] = <<f[e], l[e]>>
    OBVIOUS
<1>4. ByStart(s) = InOrder(s, key)
    BY DEF ByStart
<1>5. IsFiniteSet(s)
    BY FS_Subset, DiscoveryAssumption
<1> HIDE DEF key, f, l
<1>6. Orders(key, ShopEvents)
    BY <1>1, <1>2, <1>3, OrdersByTwo
<1> QED
    BY <1>4, <1>5, <1>6, OrdersPart, InOrderIs

\* What an event ranks by.
LEMMA RanksAreNumbers ==
    ASSUME NEW h, NEW x PROVE EventGroup(x, h) \in Int /\ AccessRank(x, h) \in Int /\ ClubGroup(x, h) \in Int
<1>1. EventGroup(x, h) \in Int
    BY DEF EventGroup
<1>2. AccessRank(x, h) \in Int
    BY DEF AccessRank
<1>3. ClubGroup(x, h) \in Int
    BY DEF ClubGroup
<1> QED
    BY <1>1, <1>2, <1>3

\* The events ranked: each once.
LEMMA RankedEventsAre ==
    ASSUME NEW h
    PROVE  IsListOf(RankedEvents(h), {e \in ShopEvents : Ready(ClubOf[e], h) /\ Visible(e, h)})
<1> DEFINE s == {e \in ShopEvents : Ready(ClubOf[e], h) /\ Visible(e, h)}
           key == [e \in ShopEvents |-> <<EventGroup(e, h), AccessRank(e, h), StartsAt[e], Listed[e]>>]
<1>1. \A e \in ShopEvents : StartsAt[e] \in Int /\ Listed[e] \in Int
    BY ListedIs, DiscoveryAssumption
<1>2. ASSUME NEW e \in ShopEvents PROVE key[e] \in Int \X Int \X Int \X Int /\ key[e][4] = Listed[e]
    <2>1. EventGroup(e, h) \in Int /\ AccessRank(e, h) \in Int
        BY RanksAreNumbers
    <2> QED
        BY <1>1, <2>1
<1>3. \A x, y \in ShopEvents : key[x][4] = key[y][4] => x = y
    BY <1>2, ListedIs
<1>5. RankedEvents(h) = InOrder(s, key)
    BY DEF RankedEvents
<1>6. s \subseteq ShopEvents /\ IsFiniteSet(s)
    BY FS_Subset, DiscoveryAssumption
<1> HIDE DEF s, key
<1>7. Orders(key, ShopEvents)
    BY <1>2, <1>3, OrdersByFour
<1>8. IsListOf(RankedEvents(h), s)
    BY <1>5, <1>6, <1>7, OrdersPart, InOrderIs
<1> QED
    BY <1>8 DEF s

\* The clubs ranked: each once.
LEMMA RankedClubsAre ==
    ASSUME NEW h PROVE IsListOf(RankedClubs(h), {c \in Clubs : club[c].active})
<1> DEFINE s == {c \in Clubs : club[c].active}
           key == [c \in Clubs |-> <<ClubGroup(c, h), Listed[c]>>]
           f == [c \in Clubs |-> ClubGroup(c, h)]
           l == [c \in Clubs |-> Listed[c]]
<1>1. f \in [Clubs -> Int]
    BY RanksAreNumbers
<1>2. l \in [Clubs -> Int] /\ \A x, y \in Clubs : l[x] = l[y] => x = y
    BY ListedIs
<1>3. \A c \in Clubs : key[c] = <<f[c], l[c]>>
    OBVIOUS
<1>4. RankedClubs(h) = InOrder(s, key)
    BY DEF RankedClubs
<1>5. s \subseteq Clubs /\ IsFiniteSet(s)
    BY FS_Subset, DiscoveryAssumption
<1> HIDE DEF s, key, f, l
<1>6. Orders(key, Clubs)
    BY <1>1, <1>2, <1>3, OrdersByTwo
<1>7. IsListOf(RankedClubs(h), s)
    BY <1>4, <1>5, <1>6, OrdersPart, InOrderIs
<1> QED
    BY <1>7 DEF s

\* What is shown: clubs or events, none twice.
OnceEach(L) ==
    /\ L \in Seq(Clubs \cup ShopEvents)
    /\ \A i, j \in 1..Len(L) : L[i] = L[j] => i = j

\* A list of each element of a set shows none twice.
LEMMA ListsAreOnceEach ==
    ASSUME NEW L, NEW S, IsListOf(L, S), S \subseteq Clubs \cup ShopEvents PROVE OnceEach(L)
<1>1. L \in Seq(S)
    BY DEF IsListOf
<1>2. L \in Seq(Clubs \cup ShopEvents)
    BY <1>1
<1> QED
    BY <1>2 DEF IsListOf, OnceEach

\* A place in two lists is one in the first or in the second.
LEMMA PlaceInTwo ==
    ASSUME NEW a \in Nat, NEW b \in Nat, NEW i \in 1..(a + b)
    PROVE  (i <= a => i \in 1..a) /\ (~(i <= a) => i - a \in 1..b) /\ i \in Int
OBVIOUS

\* Two lists, one after the other, of nothing in common.
LEMMA ListsTogether ==
    ASSUME NEW L, NEW M, NEW S, NEW T, S \subseteq ShopEvents, T \subseteq ShopEvents,
           S \cap T = {}, IsListOf(L, S), IsListOf(M, T)
    PROVE  OnceEach(L \o M)
<1> DEFINE U == Clubs \cup ShopEvents
<1>1. L \in Seq(U) /\ M \in Seq(U) /\ L \in Seq(S) /\ M \in Seq(T)
    BY ListsAreOnceEach DEF OnceEach, IsListOf
<1>2. Len(L) \in Nat /\ Len(M) \in Nat
    BY <1>1, LenProperties
<1>3. /\ L \o M \in Seq(U) /\ Len(L \o M) = Len(L) + Len(M)
      /\ \A i \in 1..(Len(L) + Len(M)) : (L \o M)[i] = IF i <= Len(L) THEN L[i] ELSE M[i - Len(L)]
    BY <1>1, ConcatProperties
<1>4. (\A i \in 1..Len(L) : L[i] \in S) /\ (\A i \in 1..Len(M) : M[i] \in T)
    BY <1>1, ElementOfSeq
<1>5. ASSUME NEW i \in 1..Len(L \o M), NEW j \in 1..Len(L \o M), (L \o M)[i] = (L \o M)[j]
      PROVE  i = j
    <2>1. /\ (L \o M)[i] = IF i <= Len(L) THEN L[i] ELSE M[i - Len(L)]
          /\ (L \o M)[j] = IF j <= Len(L) THEN L[j] ELSE M[j - Len(L)]
        BY <1>3
    <2>2. i \in 1..(Len(L) + Len(M)) /\ j \in 1..(Len(L) + Len(M))
        BY <1>3
    <2>3. /\ i <= Len(L) => i \in 1..Len(L)
          /\ ~(i <= Len(L)) => i - Len(L) \in 1..Len(M)
          /\ j <= Len(L) => j \in 1..Len(L)
          /\ ~(j <= Len(L)) => j - Len(L) \in 1..Len(M)
          /\ i \in Int /\ j \in Int
        BY <1>2, <2>2, PlaceInTwo
    <2>4. CASE i <= Len(L) /\ j <= Len(L)
        BY <1>5, <2>1, <2>3, <2>4 DEF IsListOf
    <2>5. CASE i <= Len(L) /\ ~(j <= Len(L))
        BY <1>4, <1>5, <2>1, <2>3, <2>5
    <2>6. CASE ~(i <= Len(L)) /\ j <= Len(L)
        BY <1>4, <1>5, <2>1, <2>3, <2>6
    <2>7. CASE ~(i <= Len(L)) /\ ~(j <= Len(L))
        <3>1. i - Len(L) = j - Len(L)
            BY <1>5, <2>1, <2>3, <2>7 DEF IsListOf
        <3> QED
            BY <1>2, <2>3, <3>1
    <2> QED
        BY <2>4, <2>5, <2>6, <2>7
<1> QED
    BY <1>3, <1>5 DEF OnceEach

\* A catalog shows nothing twice.
LEMMA CatalogIs ==
    ASSUME NEW category, NEW h PROVE OnceEach(Catalog(category, h))
<1> DEFINE S == {e \in ShopEvents : Ready(ClubOf[e], h) /\ Visible(e, h)}
           T == {e \in ShopEvents : Ready(ClubOf[e], h) /\ shopEvent[e] = "POSTPONED"}
<1>1. CASE category = "clubs"
    BY <1>1, RankedClubsAre, ListsAreOnceEach DEF Catalog
<1>2. CASE category # "clubs"
    <2>1. IsListOf(RankedEvents(h), S) /\ IsListOf(PostponedEvents(h), T)
        BY RankedEventsAre, ByStartIs DEF PostponedEvents
    <2>2. S \subseteq ShopEvents /\ T \subseteq ShopEvents /\ S \cap T = {}
        BY DEF Visible, VisibleStatuses
    <2> HIDE DEF S, T
    <2> QED
        BY <1>2, <2>1, <2>2, ListsTogether DEF Catalog
<1> QED
    BY <1>1, <1>2

\* The events of which there are pages.
LEMMA ExploredIs ==
    ASSUME NEW h
    PROVE  /\ IsListOf(Explored(h), {e \in ShopEvents : Ready(ClubOf[e], h) /\ Visible(e, h)})
           /\ OnceEach(Explored(h))
BY ByStartIs, ListsAreOnceEach DEF Explored

-----------------------------------------------------------------------------
(* Pages of a list.                                                        *)

Upto(L, n) == IF n < Len(L) THEN n ELSE Len(L)

\* The smaller of two.
LEMMA MinOfTwo ==
    ASSUME NEW a \in Int, NEW b \in Int PROVE Min({a, b}) = IF a < b THEN a ELSE b
<1> DEFINE m == IF a < b THEN a ELSE b
<1>1. m \in {a, b} /\ \A y \in {a, b} : m <= y
    OBVIOUS
<1>2. \A x \in {a, b} : (\A y \in {a, b} : x <= y) => x = m
    OBVIOUS
<1> HIDE DEF m
<1>3. Min({a, b}) = m
    BY <1>1, <1>2 DEF Min
<1> QED
    BY <1>3 DEF m

\* How long a list is.
LEMMA LengthIs == ASSUME NEW L, OnceEach(L) PROVE Len(L) \in Nat
BY LenProperties DEF OnceEach

\* Every page is a list of clubs or events.
LEMMA PageIsAList ==
    ASSUME NEW L, OnceEach(L), NEW n \in Nat PROVE PageFrom(L, n) \in Seq(Clubs \cup ShopEvents)
<1> DEFINE m == Min({n + PageSize, Len(L)})
<1>1. Len(L) \in Nat /\ PageSize \in Nat
    BY LengthIs, DiscoveryAssumption
<1>2. m \in Int /\ m <= Len(L)
    BY <1>1, MinOfTwo
<1>3. \A i \in 1..Len(L) : L[i] \in Clubs \cup ShopEvents
    BY ElementOfSeq DEF OnceEach
<1>4. PageFrom(L, n) = SubSeq(L, n + 1, m)
    BY DEF PageFrom
<1> HIDE DEF m
<1>5. \A i \in (n + 1)..m : i \in 1..Len(L)
    BY <1>1, <1>2
<1>6. \A i \in (n + 1)..m : L[i] \in Clubs \cup ShopEvents
    BY <1>3, <1>5
<1> QED
    BY <1>2, <1>4, <1>6, SubSeqProperties

\* What was read of a list, and the page that follows it.
LEMMA PageFollows ==
    ASSUME NEW L, OnceEach(L), NEW n \in Nat, n <= Len(L)
    PROVE  /\ Upto(L, n + PageSize) \in n..Len(L)
           /\ SubSeq(L, 1, n) \o PageFrom(L, n) = SubSeq(L, 1, Upto(L, n + PageSize))
<1>1. Len(L) \in Nat /\ PageSize \in Nat
    BY LengthIs, DiscoveryAssumption
<1>2. Min({n + PageSize, Len(L)}) = Upto(L, n + PageSize)
    BY <1>1, MinOfTwo DEF Upto
<1>3. Upto(L, n + PageSize) \in n..Len(L)
    BY <1>1 DEF Upto
<1>4. 1 \in 1..(Len(L) + 1) /\ n \in (1 - 1)..Len(L)
    BY <1>1
<1>5. SubSeq(L, 1, n) \o SubSeq(L, n + 1, Upto(L, n + PageSize)) = SubSeq(L, 1, Upto(L, n + PageSize))
    BY <1>3, <1>4, ConcatAdjacentSubSeq DEF OnceEach
<1> QED
    BY <1>2, <1>3, <1>5 DEF PageFrom

\* The beginning of a list.
LEMMA BeginningIs ==
    ASSUME NEW L, OnceEach(L), NEW n \in Nat, n <= Len(L)
    PROVE  /\ SubSeq(L, 1, n) \in Seq(Clubs \cup ShopEvents) /\ Len(SubSeq(L, 1, n)) = n
           /\ n > 0 => Last(SubSeq(L, 1, n)) = L[n]
<1>1. Len(L) \in Nat
    BY LengthIs
<1>2. \A i \in 1..Len(L) : L[i] \in Clubs \cup ShopEvents
    BY ElementOfSeq DEF OnceEach
<1>3. \A i \in 1..n : i \in 1..Len(L)
    BY <1>1
<1>4. \A i \in 1..n : L[i] \in Clubs \cup ShopEvents
    BY <1>2, <1>3
<1>5. /\ SubSeq(L, 1, n) \in Seq(Clubs \cup ShopEvents)
      /\ Len(SubSeq(L, 1, n)) = IF 1 <= n THEN n - 1 + 1 ELSE 0
      /\ \A i \in 1..(n - 1 + 1) : SubSeq(L, 1, n)[i] = L[1 + i - 1]
    BY <1>4, SubSeqProperties
<1>6. Len(SubSeq(L, 1, n)) = n
    BY <1>5
<1>7. n > 0 => n \in 1..(n - 1 + 1) /\ 1 + n - 1 = n
    OBVIOUS
<1> QED
    BY <1>5, <1>6, <1>7 DEF Last

\* The whole of it.
LEMMA WholeIs == ASSUME NEW L, OnceEach(L) PROVE SubSeq(L, 1, Len(L)) = L
BY SubSeqFull DEF OnceEach

\* Where an element is in a list.
LEMMA FoundInList ==
    ASSUME NEW L, OnceEach(L), NEW v
    PROVE  /\ SelectInSeq(L, LAMBDA x : x = v) \in Nat
           /\ \A n \in 1..Len(L) : L[n] = v => SelectInSeq(L, LAMBDA x : x = v) = n
<1> DEFINE found == SelectInSeq(L, LAMBDA x : x = v)
           I == {i \in 1..Len(L) : L[i] = v}
<1>1. found = IF I # {} THEN Min(I) ELSE 0
    BY DEF SelectInSeq
<1>2. Len(L) \in Nat
    BY LengthIs
<1>3. ASSUME NEW n \in 1..Len(L), L[n] = v PROVE found = n
    <2>1. I = {n, n}
        BY <1>3 DEF OnceEach
    <2>2. n \in Int
        BY <1>2
    <2> HIDE DEF I, found
    <2>3. Min({n, n}) = n
        BY <2>2, MinOfTwo
    <2> QED
        BY <1>1, <2>1, <2>3
<1>4. CASE I = {}
    <2>1. found = 0
        BY <1>1, <1>4
    <2>2. found \in Nat
        BY <2>1
    <2> QED
        BY <1>3, <2>2
<1>5. CASE I # {}
    <2>1. PICK n \in 1..Len(L) : L[n] = v
        BY <1>5
    <2>2. found = n
        BY <1>3, <2>1
    <2>3. n \in Nat
        BY <1>2
    <2> QED
        BY <1>3, <2>2, <2>3
<1> QED
    BY <1>4, <1>5

-----------------------------------------------------------------------------
(* The invariant.                                                          *)

ClubRows   == [active : BOOLEAN, connected : BOOLEAN, offer : BOOLEAN, schedule : Schedules]
TicketRows == [status : {"ACTIVE", "INACTIVE", "SOLD_OUT"}, left : Nat, reserved : Nat]
Shown      == Seq(Clubs \cup ShopEvents)

DiscoveryTypes ==
    /\ hour \in 0..MaxHour
    /\ club \in [Clubs -> ClubRows]
    /\ shopEvent \in [ShopEvents -> EventStatuses]
    /\ ticket \in [ShopTickets -> TicketRows]
    /\ walk \in [step : {"none", "more", "end", "refused"}, category : {"clubs", "events"},
                 asOf : Nat, shown : Shown, calm : BOOLEAN]
    /\ pages \in [step : {"none", "more", "end"}, since : Nat, number : Nat, shown : Shown,
                  calm : BOOLEAN]

\* What a walk has shown is the beginning of its catalog.
WalkKnows ==
    \A category, h : walk.calm /\ walk.step \in {"more", "end"} /\ walk.category = category /\ walk.asOf = h =>
        LET list == Catalog(category, h)
            n == Len(walk.shown) IN
        /\ n <= Len(list) /\ walk.shown = SubSeq(list, 1, n)
        /\ walk.step = "more" => n > 0
        /\ walk.step = "end" => n = Len(list)

\* What the pages have shown is the beginning of what there still is.
PagesKnow ==
    /\ pages.since <= hour
    /\ pages.step = "none" => pages.number = 0 /\ pages.shown = <<>>
    /\ \A g, h :
           pages.calm /\ pages.step # "none" /\ <<g, h>> = <<pages.since, hour>> /\ Explored(g) = Explored(h) =>
           LET list == Explored(h) IN
           /\ pages.shown = SubSeq(list, 1, Upto(list, pages.number * PageSize))
           /\ (pages.step = "end") <=> Len(list) <= pages.number * PageSize

DiscoveryIInv == DiscoveryTypes /\ WalkKnows /\ PagesKnow

\* A catalog depends on the clock it is asked for and on what is shown.
LEMMA CatalogSame ==
    ASSUME UNCHANGED <<club, shopEvent, ticket>>
    PROVE  \A category, h : /\ Catalog(category, h)' = Catalog(category, h)
                            /\ Explored(h)' = Explored(h)
BY DEF Catalog, RankedEvents, PostponedEvents, RankedClubs, Explored, ByStart, ClubGroup, HasContent,
       ClubEvents, AccessRank, Availability, EventGroup, Ready, Visible, AllowsSales, OnSaleAt,
       Remaining, TicketsOf, MapThenSumSet, MapThenFoldSet

LEMMA DiscoveryInitTypes == DiscoveryInit => DiscoveryTypes
<1> SUFFICES ASSUME DiscoveryInit PROVE DiscoveryTypes
    OBVIOUS
<1>1. hour \in 0..MaxHour
    BY DiscoveryAssumption DEF DiscoveryInit
<1>2. club \in [Clubs -> ClubRows]
    <2>1. ASSUME NEW s \in Schedules
          PROVE  [active |-> TRUE, connected |-> TRUE, offer |-> FALSE, schedule |-> s] \in ClubRows
        BY DEF ClubRows
    <2>2. {[active |-> TRUE, connected |-> TRUE, offer |-> FALSE, schedule |-> s] : s \in Schedules}
              \subseteq ClubRows
        BY <2>1, Zenon
    <2> QED
        BY <2>2 DEF DiscoveryInit
<1>3. shopEvent \in [ShopEvents -> EventStatuses]
    BY DiscoveryAssumption DEF DiscoveryInit
<1>4. ticket \in [ShopTickets -> TicketRows]
    BY DEF DiscoveryInit, TicketRows
<1>5. <<>> \in Shown
    BY EmptySeq DEF Shown
<1> QED
    BY <1>1, <1>2, <1>3, <1>4, <1>5 DEF DiscoveryTypes, DiscoveryInit, NoWalk, NoPages

LEMMA InitDiscovery == DiscoveryInit => DiscoveryIInv
<1> SUFFICES ASSUME DiscoveryInit PROVE DiscoveryIInv
    OBVIOUS
<1>1. DiscoveryTypes
    BY DiscoveryInitTypes
<1>2. WalkKnows
    BY DEF WalkKnows, DiscoveryInit, NoWalk
<1>3. PagesKnow
    BY DEF PagesKnow, DiscoveryInit, NoPages
<1> QED
    BY <1>1, <1>2, <1>3 DEF DiscoveryIInv

-----------------------------------------------------------------------------
(* Each step.                                                              *)

\* The first page of a catalog.
LEMMA BrowseStep ==
    ASSUME DiscoveryIInv, NEW category \in {"clubs", "events"}, Browse(category)
    PROVE  DiscoveryIInv'
<1> USE DEF DiscoveryIInv
<1> DEFINE list == Catalog(category, hour)
           new == [step |-> IF Len(list) > PageSize THEN "more" ELSE "end", category |-> category,
                   asOf |-> hour, shown |-> PageFrom(list, 0), calm |-> TRUE]
<1>1. walk' = new /\ UNCHANGED <<hour, club, shopEvent, ticket, changes, pages>>
    BY DEF Browse
<1>2. OnceEach(list) /\ Len(list) \in Nat /\ PageSize \in Nat /\ PageSize > 0 /\ hour \in Nat
    BY CatalogIs, LengthIs, DiscoveryAssumption DEF DiscoveryTypes
<1>3. /\ Upto(list, 0 + PageSize) \in 0..Len(list)
      /\ SubSeq(list, 1, 0) \o PageFrom(list, 0) = SubSeq(list, 1, Upto(list, 0 + PageSize))
    BY <1>2, PageFollows
<1>4. SubSeq(list, 1, 0) = <<>> /\ PageFrom(list, 0) \in Shown
    BY <1>2, SubSeqEmpty, PageIsAList DEF Shown
<1>5. SubSeq(list, 1, 0) \o PageFrom(list, 0) = PageFrom(list, 0)
    BY <1>4, ConcatEmptySeq DEF Shown
<1>6. Len(PageFrom(list, 0)) = Upto(list, 0 + PageSize)
    BY <1>2, <1>3, <1>5, BeginningIs
<1>7. \A c, h : Catalog(c, h)' = Catalog(c, h) /\ Explored(h)' = Explored(h)
    BY <1>1, CatalogSame
<1>8. \A c, h : walk'.category = c /\ walk'.asOf = h => Catalog(c, h)' = list
    BY <1>1, <1>7
<1> HIDE DEF list
<1>9. DiscoveryTypes'
    BY <1>1, <1>2, <1>4 DEF DiscoveryTypes
<1>10. WalkKnows'
    <2>1. /\ walk'.shown = PageFrom(list, 0) /\ walk'.step = IF Len(list) > PageSize THEN "more" ELSE "end"
        BY <1>1
    <2>2. Upto(list, 0 + PageSize) = IF PageSize < Len(list) THEN PageSize ELSE Len(list)
        BY <1>2 DEF Upto
    <2> QED
        BY <1>2, <1>3, <1>5, <1>6, <1>8, <2>1, <2>2 DEF WalkKnows
<1>11. PagesKnow'
    BY <1>1, <1>7 DEF PagesKnow
<1> QED
    BY <1>9, <1>10, <1>11

\* The next page begins after the last element shown, wherever it is by then.
LEMMA NextOfWalkStep ==
    ASSUME DiscoveryIInv, NextOfWalk PROVE DiscoveryIInv'
<1> USE DEF DiscoveryIInv
<1> DEFINE list == Catalog(walk.category, walk.asOf)
           from == SelectInSeq(list, LAMBDA x : x = Last(walk.shown))
           refused == [walk EXCEPT !.step = "refused"]
           passed == [walk EXCEPT !.shown = @ \o PageFrom(list, from),
                                !.step = IF from + PageSize < Len(list) THEN "more" ELSE "end"]
<1>1. /\ walk.step = "more" /\ walk' \in {refused, passed}
      /\ UNCHANGED <<hour, club, shopEvent, ticket, changes, pages>>
    BY DEF NextOfWalk, AsOf
<1>2. OnceEach(list) /\ Len(list) \in Nat /\ PageSize \in Nat /\ PageSize > 0
    BY CatalogIs, LengthIs, DiscoveryAssumption
<1>3. from \in Nat /\ \A n \in 1..Len(list) : list[n] = Last(walk.shown) => from = n
    BY <1>2, FoundInList
<1>4. PageFrom(list, from) \in Shown
    BY <1>2, <1>3, PageIsAList DEF Shown
<1>5. walk.shown \o PageFrom(list, from) \in Shown
    BY <1>4, ConcatProperties DEF Shown, DiscoveryTypes
<1>7. \A c, h : Catalog(c, h)' = Catalog(c, h) /\ Explored(h)' = Explored(h)
    BY <1>1, CatalogSame
<1>8. walk'.category = walk.category /\ walk'.asOf = walk.asOf /\ walk'.calm = walk.calm
    BY <1>1 DEF DiscoveryTypes
<1> HIDE DEF list, from
<1>9. DiscoveryTypes'
    BY <1>1, <1>5 DEF DiscoveryTypes
<1>10. ASSUME walk.calm, walk' = passed PROVE WalkKnows'
    <2> DEFINE n == Len(walk.shown)
    <2>1. n <= Len(list) /\ walk.shown = SubSeq(list, 1, n) /\ n > 0 /\ n \in Nat
        BY <1>1, <1>10, LenProperties DEF WalkKnows, list, DiscoveryTypes, Shown
    <2> HIDE DEF n
    <2>2. Last(walk.shown) = list[n] /\ n \in 1..Len(list)
        BY <1>2, <2>1, BeginningIs
    <2>3. from = n
        BY <1>3, <2>2
    <2>4. walk'.shown = SubSeq(list, 1, n) \o PageFrom(list, n)
        BY <1>10, <2>1, <2>3 DEF DiscoveryTypes
    <2>5. /\ Upto(list, n + PageSize) \in n..Len(list)
          /\ walk'.shown = SubSeq(list, 1, Upto(list, n + PageSize))
        BY <1>2, <2>1, <2>4, PageFollows
    <2>6. Len(walk'.shown) = Upto(list, n + PageSize)
        BY <1>2, <2>1, <2>5, BeginningIs
    <2>7. walk'.step = IF n + PageSize < Len(list) THEN "more" ELSE "end"
        BY <1>10, <2>3 DEF DiscoveryTypes
    <2>8. \A c, h : walk'.category = c /\ walk'.asOf = h => Catalog(c, h)' = list
        BY <1>7, <1>8 DEF list
    <2> QED
        BY <1>2, <2>1, <2>5, <2>6, <2>7, <2>8 DEF WalkKnows, Upto
<1>11. ASSUME walk' = refused PROVE WalkKnows'
    <2>1. walk'.step = "refused"
        BY <1>11 DEF DiscoveryTypes
    <2> QED
        BY <2>1 DEF WalkKnows
<1>12. WalkKnows'
    <2>1. CASE walk' = passed /\ ~walk.calm
        BY <1>8, <2>1 DEF WalkKnows
    <2> QED
        BY <1>1, <1>10, <1>11, <2>1
<1>13. PagesKnow'
    BY <1>1, <1>7 DEF PagesKnow
<1> QED
    BY <1>9, <1>12, <1>13

\* A page by number.
LEMMA ExploreStep ==
    ASSUME DiscoveryIInv, Explore PROVE DiscoveryIInv'
<1> USE DEF DiscoveryIInv
<1> DEFINE list == Explored(hour)
           passed == pages.number * PageSize
           new == [pages EXCEPT !.since = IF pages.step = "none" THEN hour ELSE @,
                                !.number = @ + 1,
                                !.shown = @ \o PageFrom(list, passed),
                                !.step = IF Len(list) > passed + PageSize THEN "more" ELSE "end"]
<1>1. /\ pages.step \in {"none", "more"} /\ pages' = new
      /\ UNCHANGED <<hour, club, shopEvent, ticket, changes, walk>>
    BY DEF Explore, PageAt
<1>2. /\ OnceEach(list) /\ Len(list) \in Nat /\ PageSize \in Nat /\ PageSize > 0 /\ hour \in Nat
      /\ pages.number \in Nat
    <2>1. OnceEach(list)
        BY ExploredIs
    <2>2. PageSize \in Nat /\ PageSize > 0 /\ hour \in Nat /\ pages.number \in Nat
        BY DiscoveryAssumption DEF DiscoveryTypes
    <2> QED
        BY <2>1, <2>2, LengthIs
<1>3. passed \in Nat /\ (pages.number + 1) * PageSize = passed + PageSize
    BY <1>2
<1>4. PageFrom(list, passed) \in Shown
    BY <1>2, <1>3, PageIsAList DEF Shown
<1>5. pages.shown \o PageFrom(list, passed) \in Shown
    BY <1>4, ConcatProperties DEF Shown, DiscoveryTypes
<1>6. \A c, h : Catalog(c, h)' = Catalog(c, h) /\ Explored(h)' = Explored(h)
    BY <1>1, CatalogSame
<1>7. /\ pages'.since = (IF pages.step = "none" THEN hour ELSE pages.since)
      /\ pages'.number = pages.number + 1 /\ pages'.calm = pages.calm
      /\ pages'.shown = pages.shown \o PageFrom(list, passed)
      /\ pages'.step = IF Len(list) > passed + PageSize THEN "more" ELSE "end"
    BY <1>1 DEF DiscoveryTypes
<1> HIDE DEF list, passed
<1>8. DiscoveryTypes'
    <2> DEFINE since == IF pages.step = "none" THEN hour ELSE pages.since
               step == IF Len(list) > passed + PageSize THEN "more" ELSE "end"
    <2>1. since \in Nat /\ step \in {"none", "more", "end"} /\ pages.number + 1 \in Nat
        BY <1>2 DEF DiscoveryTypes
    <2>2. pages' = [pages EXCEPT !.since = since, !.number = @ + 1,
                                 !.shown = @ \o PageFrom(list, passed), !.step = step]
        BY <1>1
    <2> HIDE DEF since, step
    <2> QED
        BY <1>1, <1>5, <2>1, <2>2 DEF DiscoveryTypes
<1>9. WalkKnows'
    BY <1>1, <1>6 DEF WalkKnows
<1>10. ASSUME pages.calm, pages.step = "more" => Explored(pages.since) = list
       PROVE  pages'.shown = SubSeq(list, 1, Upto(list, passed + PageSize))
    <2>1. pages.shown = SubSeq(list, 1, passed) /\ passed <= Len(list)
        <3>1. CASE pages.step = "none"
            <4>1. pages.shown = <<>> /\ passed = 0
                BY <1>2, <3>1 DEF PagesKnow, passed
            <4> QED
                BY <1>2, <4>1, SubSeqEmpty
        <3>2. CASE pages.step = "more"
            <4>1. pages.shown = SubSeq(list, 1, Upto(list, passed)) /\ ~(Len(list) <= passed)
                BY <1>10, <3>2 DEF PagesKnow, list, passed
            <4> QED
                BY <1>2, <1>3, <4>1 DEF Upto
        <3> QED
            BY <1>1, <3>1, <3>2
    <2> QED
        BY <1>2, <1>3, <1>7, <2>1, PageFollows
<1>11. PagesKnow'
    <2>1. pages'.since <= hour' /\ pages'.step # "none"
        BY <1>1, <1>2, <1>7 DEF PagesKnow
    <2>2. ASSUME NEW g, NEW h, pages'.calm, <<g, h>> = <<pages'.since, hour'>>, Explored(g)' = Explored(h)'
          PROVE  /\ pages'.shown = SubSeq(Explored(h)', 1, Upto(Explored(h)', pages'.number * PageSize))
                 /\ (pages'.step = "end") <=> Len(Explored(h)') <= pages'.number * PageSize
        <3>1. Explored(h)' = list /\ (pages.step = "more" => Explored(pages.since) = list)
            BY <1>1, <1>6, <1>7, <2>2 DEF list
        <3>2. pages'.number * PageSize = passed + PageSize
            BY <1>3, <1>7
        <3>3. pages'.shown = SubSeq(list, 1, Upto(list, passed + PageSize))
            BY <1>7, <1>10, <2>2, <3>1
        <3>4. (pages'.step = "end") <=> Len(list) <= passed + PageSize
            BY <1>2, <1>3, <1>7
        <3> QED
            BY <3>1, <3>2, <3>3, <3>4
    <2> QED
        BY <2>1, <2>2 DEF PagesKnow, Upto
<1> QED
    BY <1>8, <1>9, <1>11

\* A customer who has read to the end begins again.
LEMMA LeaveStep ==
    ASSUME DiscoveryIInv, Leave PROVE DiscoveryIInv'
<1> USE DEF DiscoveryIInv
<1>1. walk' \in {NoWalk, walk} /\ pages' \in {NoPages, pages}
      /\ UNCHANGED <<hour, club, shopEvent, ticket, changes>>
    BY DEF Leave
<1>2. \A c, h : Catalog(c, h)' = Catalog(c, h) /\ Explored(h)' = Explored(h)
    BY <1>1, CatalogSame
<1>3. <<>> \in Shown
    BY EmptySeq DEF Shown
<1>4. DiscoveryTypes'
    <2> DEFINE Walks == [step : {"none", "more", "end", "refused"}, category : {"clubs", "events"},
                         asOf : Nat, shown : Shown, calm : BOOLEAN]
               Pages == [step : {"none", "more", "end"}, since : Nat, number : Nat, shown : Shown,
                         calm : BOOLEAN]
    <2>1. NoWalk \in Walks /\ NoPages \in Pages
        BY <1>3 DEF NoWalk, NoPages
    <2>2. walk' \in Walks /\ pages' \in Pages
        BY <1>1, <2>1 DEF DiscoveryTypes
    <2> QED
        BY <1>1, <2>2 DEF DiscoveryTypes
<1>5. WalkKnows'
    <2>1. ASSUME walk' = NoWalk PROVE WalkKnows'
        BY <2>1 DEF WalkKnows, NoWalk
    <2>2. ASSUME walk' = walk PROVE WalkKnows'
        BY <1>2, <2>2 DEF WalkKnows
    <2> QED
        BY <1>1, <2>1, <2>2
<1>6. PagesKnow'
    <2>1. ASSUME pages' = NoPages PROVE PagesKnow'
        BY <1>1, <2>1 DEF PagesKnow, NoPages, DiscoveryTypes
    <2>2. ASSUME pages' = pages PROVE PagesKnow'
        BY <1>1, <1>2, <2>2 DEF PagesKnow
    <2> QED
        BY <1>1, <2>1, <2>2
<1> QED
    BY <1>4, <1>5, <1>6

\* An hour later: what is shown can only have become less, so that a list that is
\* as it was has been so all the while.
LEMMA PassHourStep ==
    ASSUME DiscoveryIInv, PassHour PROVE DiscoveryIInv'
<1> USE DEF DiscoveryIInv
<1>1. /\ hour < MaxHour /\ hour' = hour + 1 /\ hour \in Nat /\ MaxHour \in Nat /\ pages.since \in Nat
      /\ UNCHANGED <<club, shopEvent, ticket, changes, walk, pages>>
    BY DiscoveryAssumption DEF PassHour, DiscoveryTypes
<1>2. \A c, h : Catalog(c, h)' = Catalog(c, h) /\ Explored(h)' = Explored(h)
    BY <1>1, CatalogSame
<1>3. DiscoveryTypes'
    BY <1>1 DEF DiscoveryTypes
<1>4. WalkKnows'
    BY <1>1, <1>2 DEF WalkKnows
<1>5. ASSUME Explored(pages.since) = Explored(hour + 1) PROVE Explored(pages.since) = Explored(hour)
    <2> DEFINE E(h) == {e \in ShopEvents : Ready(ClubOf[e], h) /\ Visible(e, h)}
    <2>1. \A h : \A x : x \in E(h) <=> \E i \in 1..Len(Explored(h)) : Explored(h)[i] = x
        <3> TAKE h
        <3> DEFINE L == Explored(h)
        <3>1. IsListOf(L, E(h))
            BY ExploredIs
        <3> HIDE DEF L, E
        <3>2. \A i \in 1..Len(L) : L[i] \in E(h)
            BY <3>1, ElementOfSeq DEF IsListOf
        <3>3. \A x : x \in E(h) <=> \E i \in 1..Len(L) : L[i] = x
            BY <3>1, <3>2 DEF IsListOf
        <3> QED
            BY <3>3 DEF L
    <2>2. E(pages.since) = E(hour + 1)
        BY <1>5, <2>1
    <2>3. pages.since <= hour
        BY DEF PagesKnow
    <2>4. ASSUME NEW g \in Nat, NEW h \in Nat, g <= h PROVE E(h) \subseteq E(g)
        <3> SUFFICES ASSUME NEW e \in E(h) PROVE e \in E(g)
            OBVIOUS
        <3>1. EndsAt[e] \in Nat /\ TokenUntil[ClubOf[e]] \in Nat
            BY DiscoveryAssumption
        <3> QED
            BY <2>4, <3>1 DEF Ready, Visible
    <2>5. E(hour) \subseteq E(pages.since) /\ E(hour + 1) \subseteq E(hour)
        BY <1>1, <2>3, <2>4
    <2>6. E(pages.since) = E(hour)
        BY <2>2, <2>5
    <2>7. \A h : Explored(h) = ByStart(E(h))
        BY DEF Explored
    <2> HIDE DEF E
    <2> QED
        BY <2>6, <2>7
<1>6. PagesKnow'
    <2>1. pages'.since <= hour' /\ (pages'.step = "none" => pages'.number = 0 /\ pages'.shown = <<>>)
        BY <1>1 DEF PagesKnow
    <2>2. ASSUME NEW g, NEW h, pages'.calm, pages'.step # "none", <<g, h>> = <<pages'.since, hour'>>,
                 Explored(g)' = Explored(h)'
          PROVE  /\ pages'.shown = SubSeq(Explored(h)', 1, Upto(Explored(h)', pages'.number * PageSize))
                 /\ (pages'.step = "end") <=> Len(Explored(h)') <= pages'.number * PageSize
        <3>1. g = pages.since /\ h = hour + 1 /\ Explored(g) = Explored(h) /\ Explored(h)' = Explored(h)
            BY <1>1, <1>2, <2>2
        <3>2. Explored(g) = Explored(hour)
            BY <1>5, <3>1
        <3>3. /\ pages.shown = SubSeq(Explored(hour), 1, Upto(Explored(hour), pages.number * PageSize))
              /\ (pages.step = "end") <=> Len(Explored(hour)) <= pages.number * PageSize
            BY <1>1, <2>2, <3>1, <3>2 DEF PagesKnow
        <3>4. Explored(h)' = Explored(hour)
            BY <3>1, <3>2
        <3> QED
            BY <1>1, <3>3, <3>4
    <2> QED
        BY <2>1, <2>2 DEF PagesKnow, Upto
<1> QED
    BY <1>3, <1>4, <1>6

\* A change leaves nothing known of what was read before it.
LEMMA ChangeStep ==
    ASSUME DiscoveryIInv, Change, club' \in [Clubs -> ClubRows],
           shopEvent' \in [ShopEvents -> EventStatuses], ticket' \in [ShopTickets -> TicketRows]
    PROVE  DiscoveryIInv'
<1> USE DEF DiscoveryIInv
<1> DEFINE w == walk.step = "none"
           p == pages.step = "none"
<1>1. walk' = [walk EXCEPT !.calm = w] /\ pages' = [pages EXCEPT !.calm = p] /\ hour' = hour
    BY DEF Change
<1>2. w \in BOOLEAN /\ p \in BOOLEAN
    BY Zenon
<1>3. (w => walk.step = "none") /\ (p => pages.step = "none")
    OBVIOUS
<1> HIDE DEF w, p
<1>4. DiscoveryTypes'
    BY <1>1, <1>2 DEF DiscoveryTypes
<1>5. /\ walk'.calm = w /\ walk'.step = walk.step
      /\ pages'.calm = p /\ pages'.step = pages.step /\ pages'.since = pages.since
      /\ pages'.number = pages.number /\ pages'.shown = pages.shown
    BY <1>1 DEF DiscoveryTypes
<1>6. WalkKnows'
    BY <1>3, <1>5 DEF WalkKnows
<1>7. PagesKnow'
    BY <1>1, <1>3, <1>5 DEF PagesKnow
<1> QED
    BY <1>4, <1>6, <1>7

LEMMA DiscoveryStutter ==
    ASSUME DiscoveryIInv, UNCHANGED discoveryVars PROVE DiscoveryIInv'
<1>1. \A c, h : Catalog(c, h)' = Catalog(c, h) /\ Explored(h)' = Explored(h)
    BY CatalogSame DEF discoveryVars
<1> QED
    BY <1>1 DEF discoveryVars, DiscoveryIInv, DiscoveryTypes, WalkKnows, PagesKnow

LEMMA DiscoveryStep ==
    ASSUME DiscoveryIInv, [DiscoveryNext]_discoveryVars PROVE DiscoveryIInv'
<1>1. /\ club \in [Clubs -> ClubRows] /\ shopEvent \in [ShopEvents -> EventStatuses]
      /\ ticket \in [ShopTickets -> TicketRows]
    BY DEF DiscoveryIInv, DiscoveryTypes
<1>2. ASSUME NEW c \in Clubs, NEW new \in ClubRows, ChangeClub(c, new) PROVE DiscoveryIInv'
    <2>1. Change /\ club' \in [Clubs -> ClubRows] /\ UNCHANGED <<shopEvent, ticket>>
        BY <1>1, <1>2 DEF ChangeClub
    <2> QED
        BY <1>1, <2>1, ChangeStep
<1>3. ASSUME NEW e \in ShopEvents, NEW status \in EventStatuses, ChangeEvent(e, status)
      PROVE  DiscoveryIInv'
    <2>1. Change /\ shopEvent' \in [ShopEvents -> EventStatuses] /\ UNCHANGED <<club, ticket>>
        BY <1>1, <1>3 DEF ChangeEvent
    <2> QED
        BY <1>1, <2>1, ChangeStep
<1>4. ASSUME NEW t \in ShopTickets, NEW new \in TicketRows, ChangeTicket(t, new) PROVE DiscoveryIInv'
    <2>1. Change /\ ticket' \in [ShopTickets -> TicketRows] /\ UNCHANGED <<club, shopEvent>>
        BY <1>1, <1>4 DEF ChangeTicket
    <2> QED
        BY <1>1, <2>1, ChangeStep
<1>5. ASSUME NEW t \in ShopTickets, Reserve(t) PROVE DiscoveryIInv'
    <2>1. Change /\ ticket' = [ticket EXCEPT ![t].reserved = @ + 1] /\ UNCHANGED <<club, shopEvent>>
        BY <1>5 DEF Reserve
    <2>2. [ticket[t] EXCEPT !.reserved = @ + 1] \in TicketRows
        BY <1>1 DEF TicketRows
    <2>3. ticket' \in [ShopTickets -> TicketRows]
        BY <1>1, <2>1, <2>2
    <2> QED
        BY <1>1, <2>1, <2>3, ChangeStep
<1>6. ASSUME NEW c \in Clubs
      PROVE  /\ \A s \in Schedules : [club[c] EXCEPT !.schedule = s] \in ClubRows
             /\ [club[c] EXCEPT !.active = ~@] \in ClubRows
             /\ [club[c] EXCEPT !.connected = ~@] \in ClubRows
             /\ [club[c] EXCEPT !.offer = ~@] \in ClubRows
    BY <1>1 DEF ClubRows
<1>7. ASSUME NEW t \in ShopTickets
      PROVE  /\ \A n \in {0, 1} : [ticket[t] EXCEPT !.left = n] \in TicketRows
             /\ \A s \in {"ACTIVE", "INACTIVE", "SOLD_OUT"} : [ticket[t] EXCEPT !.status = s] \in TicketRows
    BY <1>1 DEF TicketRows
<1>8. ASSUME NEW c \in Clubs, NEW s \in Schedules, ChangeClub(c, [club[c] EXCEPT !.schedule = s])
      PROVE  DiscoveryIInv'
    BY <1>2, <1>6, <1>8
<1>9. ASSUME NEW c \in Clubs, \/ ChangeClub(c, [club[c] EXCEPT !.active = ~@])
                              \/ ChangeClub(c, [club[c] EXCEPT !.connected = ~@])
                              \/ ChangeClub(c, [club[c] EXCEPT !.offer = ~@])
      PROVE  DiscoveryIInv'
    BY <1>2, <1>6, <1>9
<1>10. ASSUME NEW t \in ShopTickets,
              \/ \E n \in {0, 1} : ChangeTicket(t, [ticket[t] EXCEPT !.left = n])
              \/ \E s \in {"ACTIVE", "INACTIVE", "SOLD_OUT"} : ChangeTicket(t, [ticket[t] EXCEPT !.status = s])
       PROVE  DiscoveryIInv'
    BY <1>4, <1>7, <1>10
<1>11. CASE DiscoveryNext
    <2>1. CASE \/ \E category \in {"clubs", "events"} : Browse(category)
               \/ NextOfWalk \/ Explore \/ Leave \/ PassHour
        BY <2>1, BrowseStep, NextOfWalkStep, ExploreStep, LeaveStep, PassHourStep
    <2>2. CASE \E c \in Clubs :
                   \/ \E s \in Schedules : ChangeClub(c, [club[c] EXCEPT !.schedule = s])
                   \/ ChangeClub(c, [club[c] EXCEPT !.active = ~@])
                   \/ ChangeClub(c, [club[c] EXCEPT !.connected = ~@])
                   \/ ChangeClub(c, [club[c] EXCEPT !.offer = ~@])
        BY <1>8, <1>9, <2>2
    <2>3. CASE \E e \in ShopEvents, status \in EventStatuses : ChangeEvent(e, status)
        BY <1>3, <2>3
    <2>4. CASE \E t \in ShopTickets :
                   \/ \E n \in {0, 1} : ChangeTicket(t, [ticket[t] EXCEPT !.left = n])
                   \/ \E s \in {"ACTIVE", "INACTIVE", "SOLD_OUT"} :
                          ChangeTicket(t, [ticket[t] EXCEPT !.status = s])
                   \/ Reserve(t)
        BY <1>5, <1>10, <2>4
    <2> QED
        BY <1>11, <2>1, <2>2, <2>3, <2>4 DEF DiscoveryNext
<1> QED
    BY <1>11, DiscoveryStutter

-----------------------------------------------------------------------------
(* What customers are told.                                                *)

\* A night is open to its closing time, today or tomorrow.
LEMMA OpenIsScheduled == DiscoveryTypes => OpenAsScheduled
<1> SUFFICES ASSUME DiscoveryTypes, NEW c \in Clubs
             PROVE  OpenNow(club[c].schedule, hour) <=>
                        \E back \in {0, 1} :
                            LET day == hour \div DayLength - back
                                entry == club[c].schedule[(day + 7) % 7]
                                opens == day * DayLength + entry.from
                                length == IF entry.until > entry.from THEN entry.until - entry.from
                                          ELSE entry.until - entry.from + DayLength IN
                            entry.opens /\ hour \in opens..(opens + length - 1)
    BY DEF OpenAsScheduled
<1> DEFINE schedule == club[c].schedule
           q == hour \div 4
           t == hour % 4
           In(day, entry) == /\ entry.opens
                             /\ hour \in (day * 4 + entry.from)..
                                    (day * 4 + entry.from + (IF entry.until > entry.from THEN entry.until - entry.from
                                                             ELSE entry.until - entry.from + 4) - 1)
<1>1. schedule \in [0..6 -> Openings]
    BY DiscoveryAssumption DEF DiscoveryTypes, ClubRows
<1>2. hour \in Nat
    BY DiscoveryAssumption DEF DiscoveryTypes
<1>3. q \in Nat /\ t \in 0..3 /\ hour = 4 * q + t
    BY <1>2
<1> HIDE DEF q, t, schedule
<1>4. q % 7 \in 0..6 /\ ((q % 7) + 6) % 7 \in 0..6
    BY <1>3
<1>5. (q + 7) % 7 = q % 7 /\ (q - 1 + 7) % 7 = ((q % 7) + 6) % 7
    BY <1>3
<1>6. ASSUME NEW e \in Openings
      PROVE  (OpenWithin(e, t) <=> In(q, e)) /\ (OpenFromPrevious(e, t) <=> In(q - 1, e))
    <2> DEFINE from == e.from
               until == e.until
    <2>1. from \in 0..3 /\ until \in 0..3
        BY <1>6 DEF Openings, DayLength
    <2>2. OpenWithin(e, t) <=> e.opens /\ t >= from /\ (until > from => t < until)
        BY DEF OpenWithin
    <2>3. OpenFromPrevious(e, t) <=> e.opens /\ until <= from /\ t < until
        BY DEF OpenFromPrevious
    <2>4. In(q, e) <=> /\ e.opens
                       /\ hour \in (q * 4 + from)..(q * 4 + from + (IF until > from THEN until - from
                                                                  ELSE until - from + 4) - 1)
        OBVIOUS
    <2>5. In(q - 1, e) <=> /\ e.opens
                           /\ hour \in ((q - 1) * 4 + from)..
                                  ((q - 1) * 4 + from + (IF until > from THEN until - from
                                                         ELSE until - from + 4) - 1)
        OBVIOUS
    <2> HIDE DEF from, until, In
    <2>6. t >= from /\ (until > from => t < until)
          <=> hour \in (q * 4 + from)..(q * 4 + from + (IF until > from THEN until - from
                                                      ELSE until - from + 4) - 1)
        BY <1>3, <2>1
    <2>7. until <= from /\ t < until
          <=> hour \in ((q - 1) * 4 + from)..
                  ((q - 1) * 4 + from + (IF until > from THEN until - from ELSE until - from + 4) - 1)
        BY <1>3, <2>1
    <2> QED
        BY <2>2, <2>3, <2>4, <2>5, <2>6, <2>7
<1>7. OpenNow(schedule, hour) <=> OpenWithin(schedule[q % 7], t) \/ OpenFromPrevious(schedule[((q % 7) + 6) % 7], t)
    BY DEF OpenNow, DayOf, DayLength, q, t
<1>8. schedule[q % 7] \in Openings /\ schedule[((q % 7) + 6) % 7] \in Openings
    BY <1>1, <1>4
<1>9. OpenNow(schedule, hour) <=> In(q, schedule[(q + 7) % 7]) \/ In(q - 1, schedule[(q - 1 + 7) % 7])
    <2> HIDE DEF In
    <2> QED
        BY <1>5, <1>6, <1>7, <1>8
<1>10. q - 0 = q
    BY <1>3
<1>11. (\E back \in {0, 1} : In(q - back, schedule[(q - back + 7) % 7]))
       <=> In(q, schedule[(q + 7) % 7]) \/ In(q - 1, schedule[(q - 1 + 7) % 7])
    <2> HIDE DEF In
    <2> QED
        BY <1>10
<1> QED
    BY <1>9, <1>11 DEF DayLength, q, schedule

\* Why a club shows nothing.
LEMMA ReasonsDoAgree == ReasonsAgree
BY DEF ReasonsAgree, HomeEmptyReason, PageEmptyReason, HasContent

\* What is left of a ticket type is a number.
LEMMA RemainingIs ==
    ASSUME DiscoveryTypes, NEW t \in ShopTickets
    PROVE  /\ Remaining(t) \in Nat /\ ticket[t].left \in Nat /\ ticket[t].reserved \in Nat
           /\ Remaining(t) = IF ticket[t].left >= ticket[t].reserved
                             THEN ticket[t].left - ticket[t].reserved ELSE 0
           /\ Max({ticket[t].left, 0}) = ticket[t].left
<1>1. ticket[t].left \in Nat /\ ticket[t].reserved \in Nat
    BY DEF DiscoveryTypes, TicketRows
<1>2. /\ Max({ticket[t].left - ticket[t].reserved, 0})
         = IF ticket[t].left - ticket[t].reserved >= 0 THEN ticket[t].left - ticket[t].reserved ELSE 0
      /\ Max({ticket[t].left, 0}) = IF ticket[t].left >= 0 THEN ticket[t].left ELSE 0
    BY <1>1, MaxOfTwo
<1> QED
    BY <1>1, <1>2 DEF Remaining

RemainingColumn(S) == [t \in S |-> Remaining(t)]
StockColumn(S)     == [t \in S |-> Max({ticket[t].left, 0})]

\* What the home adds up, and what the event's page does.
LEMMA RemainingIsSummed ==
    ASSUME NEW S
    PROVE  /\ MapThenSumSet(Remaining, S) = SumOver(RemainingColumn(S), S)
           /\ MapThenSumSet(DetailUnits, S) = SumOver(RemainingColumn(S), S)
<1> DEFINE amounts == RemainingColumn(S)
           Reads(g) == g = [s \in SUBSET S |-> IF s = {} THEN 0 ELSE Remaining(FirstOf(s)) + g[s \ {FirstOf(s)}]]
           Sums(g)  == g = [s \in SUBSET S |-> IF s = {} THEN 0 ELSE amounts[FirstOf(s)] + g[s \ {FirstOf(s)}]]
<1>1. MapThenSumSet(Remaining, S) = (CHOOSE g : Reads(g))[S]
    BY DEF MapThenSumSet, MapThenFoldSet, FirstOf
<1>2. MapThenSumSet(DetailUnits, S) = (CHOOSE g : Reads(g))[S]
    BY DEF MapThenSumSet, MapThenFoldSet, FirstOf, DetailUnits
<1>3. SumOver(amounts, S) = (CHOOSE g : Sums(g))[S]
    BY DEF SumOver, MapThenSumSet, MapThenFoldSet, FirstOf
<1>4. ASSUME NEW g PROVE Reads(g) <=> Sums(g)
    <2>1. \A s \in SUBSET S : s # {} => FirstOf(s) \in S
        BY FirstOfIn
    <2>2. \A s \in SUBSET S : s # {} => amounts[FirstOf(s)] = Remaining(FirstOf(s))
        BY <2>1 DEF RemainingColumn
    <2>3. [s \in SUBSET S |-> IF s = {} THEN 0 ELSE Remaining(FirstOf(s)) + g[s \ {FirstOf(s)}]]
          = [s \in SUBSET S |-> IF s = {} THEN 0 ELSE amounts[FirstOf(s)] + g[s \ {FirstOf(s)}]]
        <3> HIDE DEF amounts
        <3> QED BY <2>2, Zenon
    <2> QED
        BY <2>3, Zenon
<1>5. (CHOOSE g : Reads(g)) = (CHOOSE g : Sums(g))
    <2> HIDE DEF Reads, Sums
    <2> QED BY <1>4, Zenon
<1> QED
    BY <1>1, <1>2, <1>3, <1>5, Zenon

\* What the home adds up to learn whether an event is sold out.
LEMMA StockIsSummed ==
    ASSUME NEW S
    PROVE  MapThenSumSet(LAMBDA t : Max({ticket[t].left, 0}), S) = SumOver(StockColumn(S), S)
<1> DEFINE amounts == StockColumn(S)
           Stocked(t) == Max({ticket[t].left, 0})
           Reads(g) == g = [s \in SUBSET S |-> IF s = {} THEN 0 ELSE Stocked(FirstOf(s)) + g[s \ {FirstOf(s)}]]
           Sums(g)  == g = [s \in SUBSET S |-> IF s = {} THEN 0 ELSE amounts[FirstOf(s)] + g[s \ {FirstOf(s)}]]
<1>1. MapThenSumSet(LAMBDA t : Max({ticket[t].left, 0}), S) = (CHOOSE g : Reads(g))[S]
    BY DEF MapThenSumSet, MapThenFoldSet, FirstOf
<1>2. SumOver(amounts, S) = (CHOOSE g : Sums(g))[S]
    BY DEF SumOver, MapThenSumSet, MapThenFoldSet, FirstOf
<1>3. ASSUME NEW g PROVE Reads(g) <=> Sums(g)
    <2>1. \A s \in SUBSET S : s # {} => FirstOf(s) \in S
        BY FirstOfIn
    <2>2. \A s \in SUBSET S : s # {} => amounts[FirstOf(s)] = Stocked(FirstOf(s))
        BY <2>1 DEF StockColumn
    <2> HIDE DEF Stocked
    <2>3. [s \in SUBSET S |-> IF s = {} THEN 0 ELSE Stocked(FirstOf(s)) + g[s \ {FirstOf(s)}]]
          = [s \in SUBSET S |-> IF s = {} THEN 0 ELSE amounts[FirstOf(s)] + g[s \ {FirstOf(s)}]]
        <3> HIDE DEF amounts
        <3> QED BY <2>2, Zenon
    <2> QED
        BY <2>3, Zenon
<1>4. (CHOOSE g : Reads(g)) = (CHOOSE g : Sums(g))
    <2> HIDE DEF Reads, Sums
    <2> QED BY <1>3, Zenon
<1> QED
    BY <1>1, <1>2, <1>4, Zenon

\* Numbers of which one is not zero do not add up to zero.
LEMMA SumIsPositive ==
    ASSUME NEW S, IsFiniteSet(S), NEW f, \A x \in S : f[x] \in Nat, NEW x \in S, f[x] > 0
    PROVE  SumOver(f, S) > 0
<1>1. SumOver(f, S) = f[x] + SumOver(f, S \ {x})
    BY SumWithout
<1>2. IsFiniteSet(S \ {x})
    BY FS_Subset
<1>3. SumOver(f, S \ {x}) \in Nat
    BY <1>2, SumIsNat
<1> QED
    BY <1>1, <1>3

LEMMA EnoughLeft ==
    ASSUME NEW l \in Nat, NEW r \in Nat, NEW n \in 1..2
    PROVE  (IF l >= r THEN l - r ELSE 0) >= n <=> l - r >= n
OBVIOUS

\* The home, the event's page, the cart and the checkout tell one thing.
LEMMA PagesDoAgree == DiscoveryTypes => PagesAgree
<1> SUFFICES ASSUME DiscoveryTypes, NEW e \in ShopEvents
             PROVE  LET home == Availability(e, hour)
                        inCart == {t \in TicketsOf(e) : CartUnits(t, hour) > 0} IN
                    /\ \A t \in TicketsOf(e) : \A n \in 1..2 : CheckoutTakes(t, n, hour) <=> CartUnits(t, hour) >= n
                    /\ \A t \in inCart : DetailUnits(t) = CartUnits(t, hour)
                    /\ Ready(ClubOf[e], hour) => /\ (home.access = "AVAILABLE") <=> inCart # {}
                                                 /\ home.units = MapThenSumSet(DetailUnits, inCart)
    BY DEF PagesAgree
<1> DEFINE S == TicketsOf(e)
           inCart == {t \in S : CartUnits(t, hour) > 0}
           active == {t \in S : ticket[t].status = "ACTIVE"}
           sellable == {t \in active : AllowsSales(e, hour) /\ OnSaleAt(t, hour) /\ Remaining(t) > 0}
           units == MapThenSumSet(Remaining, sellable)
           stocked == MapThenSumSet(LAMBDA t : Max({ticket[t].left, 0}), active)
           home == Availability(e, hour)
           Buyable(t) == /\ Ready(ClubOf[e], hour) /\ AllowsSales(e, hour) /\ ticket[t].status = "ACTIVE"
                         /\ OnSaleAt(t, hour)
<1>1. S \subseteq ShopTickets /\ IsFiniteSet(S) /\ \A t \in S : ShopEventOf[t] = e
    BY FS_Subset, DiscoveryAssumption DEF TicketsOf
<1>2. ASSUME NEW t \in S
      PROVE  /\ CartUnits(t, hour) = IF Buyable(t) THEN Remaining(t) ELSE 0
             /\ \A n : CheckoutTakes(t, n, hour) <=> Buyable(t) /\ ticket[t].left - ticket[t].reserved >= n
    BY <1>1 DEF CartUnits, CheckoutTakes, Ready
<1>3. ASSUME NEW t \in S
      PROVE  /\ Remaining(t) \in Nat /\ ticket[t].left \in Nat /\ ticket[t].reserved \in Nat
             /\ Remaining(t) = IF ticket[t].left >= ticket[t].reserved
                               THEN ticket[t].left - ticket[t].reserved ELSE 0
             /\ Max({ticket[t].left, 0}) = ticket[t].left
    BY <1>1, RemainingIs
<1> HIDE DEF S
<1>4. ASSUME NEW t \in S, NEW n \in 1..2
      PROVE  CheckoutTakes(t, n, hour) <=> CartUnits(t, hour) >= n
    <2>1. /\ CartUnits(t, hour) = IF Buyable(t) THEN Remaining(t) ELSE 0
          /\ CheckoutTakes(t, n, hour) <=> Buyable(t) /\ ticket[t].left - ticket[t].reserved >= n
        BY <1>2
    <2>2. CASE Buyable(t)
        <3> HIDE DEF Buyable
        <3>1. Remaining(t) >= n <=> ticket[t].left - ticket[t].reserved >= n
            <4>1. /\ ticket[t].left \in Nat /\ ticket[t].reserved \in Nat
                  /\ Remaining(t) = IF ticket[t].left >= ticket[t].reserved
                                    THEN ticket[t].left - ticket[t].reserved ELSE 0
                BY <1>3
            <4> QED
                BY ONLY <4>1, n \in 1..2, EnoughLeft
        <3> QED
            BY <2>1, <2>2, <3>1
    <2>3. CASE ~Buyable(t)
        <3> HIDE DEF Buyable
        <3>1. CartUnits(t, hour) = 0
            BY <2>1, <2>3
        <3>2. ~(0 >= n)
            OBVIOUS
        <3> QED
            BY <2>1, <2>3, <3>1, <3>2
    <2> QED
        BY <2>2, <2>3
<1>5. ASSUME NEW t \in inCart PROVE DetailUnits(t) = CartUnits(t, hour)
    <2>1. CartUnits(t, hour) > 0 /\ t \in S
        OBVIOUS
    <2> HIDE DEF Buyable
    <2> QED
        BY <1>2, <2>1 DEF DetailUnits
<1>6. ASSUME Ready(ClubOf[e], hour) PROVE sellable = inCart
    BY <1>2, <1>3, <1>6
<1>7. /\ home.units = units
      /\ home.access = IF shopEvent[e] = "SOLD_OUT" \/ (active # {} /\ stocked = 0) THEN "SOLD_OUT"
                       ELSE IF S = {} THEN "INFORMATIONAL"
                       ELSE IF units > 0 THEN "AVAILABLE"
                       ELSE "UNAVAILABLE"
    BY DEF Availability, S
<1>8. IsFiniteSet(active) /\ IsFiniteSet(sellable) /\ active \subseteq S /\ sellable \subseteq active
    BY <1>1, FS_Subset
<1>9. units = SumOver(RemainingColumn(sellable), sellable)
      /\ stocked = SumOver(StockColumn(active), active)
      /\ units = MapThenSumSet(DetailUnits, sellable)
    BY RemainingIsSummed, StockIsSummed
<1>10. \A t \in sellable : AllowsSales(e, hour) /\ Remaining(t) > 0 /\ t \in active
    OBVIOUS
<1> HIDE DEF units, stocked, home, active, sellable, inCart
<1>11. sellable = {} => units = 0
    BY <1>9, SumOfEmpty
<1>12. ASSUME NEW t \in sellable PROVE units > 0 /\ stocked > 0 /\ shopEvent[e] # "SOLD_OUT"
    <2>1. t \in active /\ t \in S /\ Remaining(t) > 0
        BY <1>8, <1>10
    <2>2. ticket[t].left > 0
        <3>1. /\ ticket[t].left \in Nat /\ ticket[t].reserved \in Nat
              /\ Remaining(t) = IF ticket[t].left >= ticket[t].reserved
                                THEN ticket[t].left - ticket[t].reserved ELSE 0
            BY <1>3, <2>1
        <3> QED
            BY <2>1, <3>1
    <2>3. RemainingColumn(sellable)[t] > 0 /\ \A x \in sellable : RemainingColumn(sellable)[x] \in Nat
        BY <1>3, <1>8, <2>1 DEF RemainingColumn
    <2>4. StockColumn(active)[t] > 0 /\ \A x \in active : StockColumn(active)[x] \in Nat
        BY <1>3, <1>8, <2>1, <2>2 DEF StockColumn
    <2>5. SumOver(RemainingColumn(sellable), sellable) > 0
        BY <1>8, <2>3, SumIsPositive
    <2>6. SumOver(StockColumn(active), active) > 0
        BY <1>8, <2>1, <2>4, SumIsPositive
    <2>7. shopEvent[e] # "SOLD_OUT"
        BY <1>10 DEF AllowsSales
    <2> QED
        BY <1>9, <2>5, <2>6, <2>7
<1>13. (home.access = "AVAILABLE") <=> sellable # {}
    <2>1. CASE sellable = {}
        BY <1>7, <1>11, <2>1
    <2>2. CASE sellable # {}
        <3>1. PICK t \in sellable : TRUE
            BY <2>2
        <3>2. units > 0 /\ stocked > 0 /\ shopEvent[e] # "SOLD_OUT" /\ S # {}
            BY <1>8, <1>12, <3>1
        <3> QED
            BY <1>7, <2>2, <3>2
    <2> QED
        BY <2>1, <2>2
<1>14. Ready(ClubOf[e], hour) => /\ (home.access = "AVAILABLE") <=> inCart # {}
                                 /\ home.units = MapThenSumSet(DetailUnits, inCart)
    BY <1>6, <1>7, <1>9, <1>13
<1> QED
    BY <1>4, <1>5, <1>14 DEF S, inCart, home

\* What was read to the end is whole.
LEMMA ReadingIsWhole == DiscoveryIInv => WalkIsWhole /\ ExploreIsWhole
<1> SUFFICES ASSUME DiscoveryIInv PROVE WalkIsWhole /\ ExploreIsWhole
    OBVIOUS
<1>1. WalkIsWhole
    BY CatalogIs, WholeIs DEF WalkIsWhole, DiscoveryIInv, WalkKnows
<1>2. ExploreIsWhole
    <2> SUFFICES ASSUME pages.step = "end", pages.calm, Explored(pages.since) = Explored(hour)
                 PROVE  pages.shown = Explored(hour)
        BY DEF ExploreIsWhole
    <2> DEFINE list == Explored(hour)
               passed == pages.number * PageSize
    <2>1. pages.shown = SubSeq(list, 1, Upto(list, passed)) /\ Len(list) <= passed
        BY DEF DiscoveryIInv, PagesKnow
    <2>2. OnceEach(list) /\ Len(list) \in Nat
        BY ExploredIs, LengthIs
    <2>3. passed \in Nat
        BY DiscoveryAssumption DEF DiscoveryIInv, DiscoveryTypes
    <2> HIDE DEF list, passed
    <2>4. Upto(list, passed) = Len(list)
        BY <2>1, <2>2, <2>3 DEF Upto
    <2>5. pages.shown = list
        BY <2>1, <2>2, <2>4, WholeIs
    <2> QED
        BY <2>5 DEF list
<1> QED
    BY <1>1, <1>2

LEMMA DiscoveryShown == DiscoveryIInv => DiscoveryInv
<1> SUFFICES ASSUME DiscoveryIInv PROVE DiscoveryInv
    OBVIOUS
<1>1. DiscoveryTypes
    BY DEF DiscoveryIInv
<1>2. DiscoveryTypeOK
    BY <1>1 DEF DiscoveryTypes, DiscoveryTypeOK
<1> QED
    BY <1>1, <1>2, OpenIsScheduled, PagesDoAgree, ReasonsDoAgree, ReadingIsWhole DEF DiscoveryInv

\* Of any clubs, events, ticket types and schedules: the home, the
\* event's page, the cart and the checkout agree on what can be bought, a club
\* is open exactly when its schedule says, and a catalog read to its end is
\* shown whole, once and in order (clubs.service.ts, commerce.service.ts).
THEOREM DiscoveryInvariance == DiscoverySpec => []DiscoveryInv
<1>1. DiscoveryInit => DiscoveryIInv
    BY InitDiscovery
<1>2. DiscoveryIInv /\ [DiscoveryNext]_discoveryVars => DiscoveryIInv'
    BY DiscoveryStep
<1>3. DiscoveryIInv => DiscoveryInv
    BY DiscoveryShown
<1> QED
    BY <1>1, <1>2, <1>3, PTL DEF DiscoverySpec

-----------------------------------------------------------------------------
(***************************************************************************)
(* The platform                                                            *)
(***************************************************************************)
\* Of the parts that share no table only the one that runs is asked of, and
\* the others rest: the invariant of the part is an invariant of the whole.
\* An account of the provider collects for one club, with the token that was
\* issued for it, through links that are used once (seller-connection.service.ts).
THEOREM CollectionInvariance == PlatformSpec => []CollectionInv
<1> DEFINE I == Runs("seller") => SellerIInv
<1>1. PlatformInit => I
    BY InitSeller DEF PlatformInit
<1>2. I /\ [PlatformNext]_platformVars => I'
    <2> SUFFICES ASSUME I, [PlatformNext]_platformVars PROVE I'
        OBVIOUS
    <2>1. [SellerNext]_sellerVars /\ UNCHANGED part
        BY DEF PlatformNext, OthersRest, platformVars
    <2> QED
        BY <2>1, SellerStep DEF Runs
<1>3. I => CollectionInv
    BY SellerShown DEF CollectionInv
<1> QED
    BY <1>1, <1>2, <1>3, PTL DEF PlatformSpec

\* What is sold stays within its stock, at its price, and is promoted only as
\* paid for, however the edits, the orders and the webhooks overlap
\* (tickets.service.ts, products.service.ts, promotions.service.ts,
\* featured-campaigns.service.ts).
THEOREM CatalogueInvariance == PlatformSpec => []CatalogueInv
<1> DEFINE I == /\ Runs("stock") => StockIInv
                /\ Runs("promotions") => PromoIInv
                /\ Runs("campaigns") => CampaignIInv
<1>1. PlatformInit => I
    BY InitStock, InitPromo, InitCampaigns DEF PlatformInit
<1>2. I /\ [PlatformNext]_platformVars => I'
    <2> SUFFICES ASSUME I, [PlatformNext]_platformVars PROVE I'
        OBVIOUS
    <2>1. [StockNext]_stockVars /\ [PromoNext]_promoVars /\ [CampaignNext]_campaignVars
          /\ UNCHANGED part
        BY DEF PlatformNext, OthersRest, platformVars
    <2>2. Runs("stock") => StockIInv'
        BY <2>1, StockStep
    <2>3. Runs("promotions") => PromoIInv'
        BY <2>1, PromoStep
    <2>4. Runs("campaigns") => CampaignIInv'
        BY <2>1, CampaignStep
    <2> QED
        BY <2>1, <2>2, <2>3, <2>4 DEF Runs
<1>3. I => CatalogueInv
    BY StockShown, PromoShown, CampaignShown DEF CatalogueInv
<1> QED
    BY <1>1, <1>2, <1>3, PTL DEF PlatformSpec

\* What customers are told, may put together and are handed over is what there is
\* and what they were shown, however edits, payments and devices overlap
\* (clubs.service.ts, commerce.service.ts).
THEOREM ShopInvariance == PlatformSpec => []ShopInv
<1> DEFINE I == (Runs("discovery") => DiscoveryIInv) /\ (Runs("cart") => CartIInv)
<1>1. PlatformInit => I
    BY InitDiscovery, InitCart DEF PlatformInit
<1>2. I /\ [PlatformNext]_platformVars => I'
    <2> SUFFICES ASSUME I, [PlatformNext]_platformVars PROVE I'
        OBVIOUS
    <2>1. [DiscoveryNext]_discoveryVars /\ [CartNext]_cartVars /\ UNCHANGED part
        BY DEF PlatformNext, OthersRest, platformVars
    <2>2. Runs("discovery") => DiscoveryIInv'
        BY <2>1, DiscoveryStep
    <2>3. Runs("cart") => CartIInv'
        BY <2>1, CartStep
    <2> QED
        BY <2>1, <2>2, <2>3 DEF Runs
<1>3. I => ShopInv
    BY DiscoveryShown, CartShown DEF ShopInv
<1> QED
    BY <1>1, <1>2, <1>3, PTL DEF PlatformSpec
=============================================================================
