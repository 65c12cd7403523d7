---------------------------- MODULE PlatformAdmin ----------------------------
(***************************************************************************)
(* What the super administrators change: the settings of the platform, one *)
(* document, the fee of a club, the role and the status of an account; and *)
(* the fee a checkout resolves meanwhile.  PlatformService and             *)
(* MarketplaceFeeService.  No request holds a lock or a transaction: what  *)
(* it reads, what it writes and its entry of the audit log are steps.      *)
(***************************************************************************)
EXTENDS Integers

CONSTANTS
    Administrators, \* requests of super administrators being served
    FeeClubs,       \* clubs
    AccountColumns, \* the role or the status of an account
    AccountValues,  \* what such a column may hold
    Resolvers,      \* checkouts that resolve a fee
    TypedBps,       \* what may be typed for a fee, in basis points
    MaximumBps,     \* maximumFeeBps
    Prices,         \* prices of a day of a campaign
    TypedPatches,   \* what may be sent to updateSettings
    GrossCents,     \* what the customer funds of a checkout
    Unset,          \* null, or a number that is no integer
    Keep,           \* what an update does not name
    NoColumn

Patches == [bps : TypedBps \cup {Unset, Keep}, legacy : TypedBps \cup {Unset, Keep},
            price : Prices \cup {Keep}]

ASSUME AdminAssumption ==
    /\ TypedPatches \subseteq Patches
    /\ TypedBps \subseteq Nat
    /\ MaximumBps \in 0..10000
    /\ GrossCents \in Nat
    /\ Prices \subseteq Int
    /\ Unset \notin TypedBps \cup Prices \cup AccountValues \cup {Keep}
    /\ Keep \notin TypedBps \cup Prices
    /\ FeeClubs \cap AccountColumns = {} /\ NoColumn \notin FeeClubs \cup AccountColumns

VARIABLES
    settings,       \* PlatformSettings.settingsJson
    column,         \* Club.marketplaceFeeBps, User.role or User.status
    logged,         \* the new value in the newest audit entry about a column
    office,         \* what a request of an administrator does, and what it read
    owing,          \* requests that wrote a column and have not logged it
    muddled,        \* columns written while another owed its entry, or that lost one
    resolver        \* what a checkout does, and what it read

adminVars == <<settings, column, logged, office, owing, muddled, resolver>>

-----------------------------------------------------------------------------
(* Types.  The document has the default fee, the percentage that older     *)
(* versions stored for it (here in basis points too), and a price.         *)

SettingKeys == {"bps", "legacy", "price"}
Documents   == [bps : TypedBps \cup {Unset}, legacy : TypedBps \cup {Unset},
                price : Prices \cup {Unset}]
NoPatch     == [bps |-> Keep, legacy |-> Keep, price |-> Keep]
Empty       == [bps |-> Unset, legacy |-> Unset, price |-> Unset]
Columns     == FeeClubs \cup AccountColumns
Fees        == {b \in TypedBps : b <= MaximumBps}
ColumnValues(r) == IF r \in FeeClubs THEN Fees \cup {Unset} ELSE AccountValues

NoChange == [pc |-> "idle", row |-> NoColumn, value |-> Unset, held |-> Empty,
             patch |-> NoPatch, changed |-> {}]
Resolves == [pc |-> "idle", club |-> NoColumn, override |-> Unset, bps |-> Unset,
             source |-> "NONE", inForce |-> {}, overridden |-> FALSE]

-----------------------------------------------------------------------------
(* Fees.                                                                   *)

\* calculate.
FeeCents(cents, bps) == (cents * bps + 5000) \div 10000

\* readGlobal: the fee, or else the percentage; it throws if that is no fee.
GlobalBps(document) == IF document.bps # Unset THEN document.bps ELSE document.legacy
GlobalReads(document) == GlobalBps(document) \in Fees \cup {Unset}

\* The fee of club c, as resolve and effectiveFor have it.
Effective(c) == IF column[c] # Unset THEN column[c] ELSE GlobalBps(settings)

-----------------------------------------------------------------------------
AdminInit ==
    /\ settings = Empty
    /\ column \in [Columns -> UNION {ColumnValues(r) : r \in Columns}]
    /\ \A r \in Columns : column[r] \in ColumnValues(r) /\ (r \in FeeClubs => column[r] = Unset)
    /\ logged = column
    /\ office = [h \in Administrators |-> NoChange]
    /\ owing = [r \in Columns |-> {}]
    /\ muddled = {}
    /\ resolver = [q \in Resolvers |-> Resolves]

\* The resolvers, when the fee of some clubs becomes what "fee" says: a history
\* of what was in force while each of them worked.
Witnessed(fee) ==
    [q \in Resolvers |->
        IF resolver[q].pc = "global"
        THEN [resolver[q] EXCEPT !.inForce = @ \cup {fee[resolver[q].club]}] ELSE resolver[q]]

-----------------------------------------------------------------------------
(* The document: it is read, and written whole with what is to change.     *)

\* updateGlobal: the fee typed is one, and so is the one stored.
BeginGlobal(h, b) ==
    /\ office[h].pc = "idle"
    /\ b \in Fees /\ GlobalReads(settings)
    /\ office' = [office EXCEPT ![h] = [NoChange EXCEPT !.pc = "global", !.patch.bps = b]]
    /\ UNCHANGED <<settings, column, logged, owing, muddled, resolver>>

\* It reads the document again.
ReadSettings(h) ==
    /\ office[h].pc = "global"
    /\ office' = [office EXCEPT ![h].pc = "writeGlobal", ![h].held = settings]
    /\ UNCHANGED <<settings, column, logged, owing, muddled, resolver>>

\* updateSettings: any fee or percentage is stored, a price only if positive.
BeginSettings(h, patch) ==
    /\ office[h].pc = "idle"
    /\ patch.price # Keep => patch.price > 0
    /\ office' = [office EXCEPT ![h] = [NoChange EXCEPT !.pc = "writeSettings", !.patch = patch,
                                                    !.held = settings]]
    /\ UNCHANGED <<settings, column, logged, owing, muddled, resolver>>

\* updateGlobal replaces the percentage by the fee.
WithFee(held, patch) == [held EXCEPT !.bps = patch.bps, !.legacy = Unset]

Merged(held, patch) ==
    [bps    |-> IF patch.bps # Keep THEN patch.bps ELSE held.bps,
     legacy |-> IF patch.legacy # Keep THEN patch.legacy ELSE held.legacy,
     price  |-> IF patch.price # Keep THEN patch.price ELSE held.price]

Document(change) == IF change.pc = "writeGlobal" THEN WithFee(change.held, change.patch)
                    ELSE Merged(change.held, change.patch)

\* What others that hold the document have not seen: the keys that differ now.
WriteSettings(h) ==
    /\ office[h].pc \in {"writeGlobal", "writeSettings"}
    /\ settings' = Document(office[h])
    /\ office' = [g \in Administrators |->
                     IF g = h THEN NoChange
                     ELSE [office[g] EXCEPT !.changed = @ \cup
                              {k \in SettingKeys : office[g].pc \in {"writeGlobal", "writeSettings"}
                                                   /\ settings'[k] # settings[k]}]]
    /\ resolver' = Witnessed([c \in FeeClubs |->
                       IF column[c] # Unset THEN column[c] ELSE GlobalBps(settings')])
    /\ UNCHANGED <<column, logged, owing, muddled>>

-----------------------------------------------------------------------------
(* The columns: setOverride, removeOverride, changeUserRole, activateUser, *)
(* changeUserStatus, deactivateUser and blockUser find the row, write the  *)
(* column and record what they wrote.                                      *)

BeginColumn(h, r, v) ==
    /\ office[h].pc = "idle"
    /\ v \in ColumnValues(r)
    /\ office' = [office EXCEPT ![h] = [NoChange EXCEPT !.pc = "write", !.row = r, !.value = v]]
    /\ UNCHANGED <<settings, column, logged, owing, muddled, resolver>>

WriteColumn(h) ==
    LET r == office[h].row IN
    /\ office[h].pc = "write"
    /\ column' = [column EXCEPT ![r] = office[h].value]
    /\ office' = [office EXCEPT ![h].pc = "record"]
    /\ owing' = [owing EXCEPT ![r] = @ \cup {h}]
    /\ muddled' = IF owing[r] = {} THEN muddled \ {r} ELSE muddled \cup {r}
    /\ resolver' = [q \in Resolvers |->
                       LET saw == Witnessed([c \in FeeClubs |->
                                      IF column'[c] # Unset THEN column'[c] ELSE GlobalBps(settings)])[q]
                       IN [saw EXCEPT !.overridden =
                               @ \/ /\ saw.pc = "global" /\ saw.club = r
                                    /\ saw.override = Unset /\ column'[r] # Unset]]
    /\ UNCHANGED <<settings, logged>>

RecordColumn(h) ==
    LET r == office[h].row IN
    /\ office[h].pc = "record"
    /\ logged' = [logged EXCEPT ![r] = office[h].value]
    /\ owing' = [owing EXCEPT ![r] = @ \ {h}]
    /\ office' = [office EXCEPT ![h] = NoChange]
    /\ UNCHANGED <<settings, column, muddled, resolver>>

\* The request dies, or its entry cannot be recorded: what it wrote stays.
AdminDies(h) ==
    LET r == office[h].row IN
    /\ office[h].pc # "idle"
    /\ owing' = [x \in Columns |-> owing[x] \ {h}]
    /\ muddled' = IF office[h].pc = "record" THEN muddled \cup {r} ELSE muddled
    /\ office' = [office EXCEPT ![h] = NoChange]
    /\ UNCHANGED <<settings, column, logged, resolver>>

-----------------------------------------------------------------------------
(* resolve, for a checkout: the club, then the document.                   *)

BeginResolve(q, c) ==
    /\ resolver[q].pc = "idle"
    /\ resolver' = [resolver EXCEPT ![q] = [Resolves EXCEPT !.pc = "global", !.club = c,
                       !.override = column[c], !.inForce = {Effective(c)}]]
    /\ UNCHANGED <<settings, column, logged, office, owing, muddled>>

\* The fee of the club goes before the fee of the platform.
Chosen(override, global) == IF override # Unset THEN override ELSE global

\* A stored fee that is none, or no fee at all, throws: the checkout has none.
ResolveFee(q) ==
    LET fee == Chosen(resolver[q].override, GlobalBps(settings)) IN
    /\ resolver[q].pc = "global"
    /\ resolver' = [resolver EXCEPT ![q] =
           IF GlobalReads(settings) /\ fee # Unset
           THEN [@ EXCEPT !.pc = "resolved", !.bps = fee,
                          !.source = IF resolver[q].override = Unset THEN "GLOBAL"
                                     ELSE "BUSINESS_OVERRIDE"]
           ELSE Resolves]
    /\ UNCHANGED <<settings, column, logged, office, owing, muddled>>

\* The attempt keeps the fee; the request is served.
EndResolve(q) ==
    /\ resolver[q].pc = "resolved"
    /\ resolver' = [resolver EXCEPT ![q] = Resolves]
    /\ UNCHANGED <<settings, column, logged, office, owing, muddled>>

-----------------------------------------------------------------------------
AdminNext ==
    \/ \E h \in Administrators :
           \/ \E b \in TypedBps : BeginGlobal(h, b)
           \/ \E patch \in TypedPatches : BeginSettings(h, patch)
           \/ ReadSettings(h) \/ WriteSettings(h)
           \/ \E r \in Columns : \E v \in ColumnValues(r) : BeginColumn(h, r, v)
           \/ WriteColumn(h) \/ RecordColumn(h) \/ AdminDies(h)
    \/ \E q \in Resolvers :
           \/ \E c \in FeeClubs : BeginResolve(q, c)
           \/ ResolveFee(q) \/ EndResolve(q)

AdminSpec == AdminInit /\ [][AdminNext]_adminVars

-----------------------------------------------------------------------------
(* Properties.                                                             *)

AdminTypeOK ==
    /\ settings \in Documents
    /\ \A r \in Columns : column[r] \in ColumnValues(r)
    /\ \A r \in Columns : logged[r] \in ColumnValues(r)

\* Who holds the document would put back only what others have changed since:
\* every other key of it is as it is stored (updateGlobal, updateSettings).
HeldIsCurrent ==
    \A h \in Administrators :
        office[h].pc \in {"writeGlobal", "writeSettings"} =>
            \A k \in SettingKeys \ office[h].changed : office[h].held[k] = settings[k]

\* The newest entry of the audit log about a column tells what it holds, or
\* the one request that wrote it still owes that entry: unless two requests
\* overlapped or an entry was lost (PlatformService, setOverride).
LogTellsLast ==
    \A r \in Columns \ muddled :
        \/ owing[r] = {} /\ logged[r] = column[r]
        \/ \E h \in Administrators : owing[r] = {h} /\ office[h].row = r /\ office[h].value = column[r]

\* A checkout pays a fee that was in force for its club while it was resolved,
\* within the maximum, and never more than it funds: unless the club was given
\* another fee between the two reads (resolve).
FeeWasInForce ==
    \A q \in Resolvers :
        resolver[q].pc = "resolved" =>
            /\ resolver[q].bps \in Fees
            /\ FeeCents(GrossCents, resolver[q].bps) \in 0..GrossCents
            /\ resolver[q].bps \in resolver[q].inForce \/ resolver[q].overridden

AdminInv == AdminTypeOK /\ HeldIsCurrent /\ LogTellsLast /\ FeeWasInForce
=============================================================================
