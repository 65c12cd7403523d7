----------------------------- MODULE LaunchMarkets -----------------------------
(***************************************************************************)
(* Before the launch: the markets of the country, the places each serves,  *)
(* the market a registration falls in, and the businesses that apply and   *)
(* are published as partners.  PreLaunchService.ensureDefaults runs at     *)
(* every start, one upsert after another and before any request is served. *)
(*                                                                         *)
(* A mapping is of a department, of a province or of a district; the one   *)
(* of a district is found only through its ubigeoCode, which the           *)
(* administrator may leave out.  Requests of several instances overlap;    *)
(* publishing is not a transaction, it stops before each write.            *)
(*                                                                         *)
(* A definition under "Bug:" is used by no other: it takes the place of    *)
(* the one after it to show that a property notices the bug.               *)
(***************************************************************************)
EXTENDS Integers, FiniteSets

CONSTANTS
    Markets,            \* ids of LaunchMarket rows
    Slugs,              \* a slug per seed, one of the fallback, and others
    FallbackSlug,
    SeedSlugs,
    DepartmentOfSeed,   \* the department a seed is mapped to
    Districts,
    ProvinceOf,         \* the province of a district
    DepartmentOf,       \* the department of a district
    Applications,
    DistrictOf,         \* the district of a business that applied
    Publishers,         \* publications being served
    NoMarket, NoSlug, NoApplication,
    MaxStarts,          \* bound on the starts of the service
    MaxSaves            \* bound on the administrator's saves of a market

ASSUME LaunchAssumption ==
    /\ SeedSlugs \subseteq Slugs /\ FallbackSlug \in Slugs \ SeedSlugs
    /\ ProvinceOf \in [Districts -> STRING] /\ DepartmentOf \in [Districts -> STRING]
    /\ DepartmentOfSeed \in [SeedSlugs -> STRING]
    /\ DistrictOf \in [Applications -> Districts]
    /\ NoMarket \notin Markets /\ NoSlug \notin Slugs /\ NoApplication \notin Applications
    /\ MaxStarts \in Nat /\ MaxSaves \in Nat

VARIABLES
    slug,           \* of each market; NoSlug before it exists
    fallback,       \* markets with isFallback
    serves,         \* LaunchMarketUbigeo: the market of a mapping, NoMarket if there is none
    coded,          \* districts whose mapping has its ubigeoCode
    todo,           \* the defaults this start has still to write
    starts, saves,
    application,    \* status of an application, NONE before it is sent
    partners,       \* PreLaunchPartner rows that have a source application
    publication     \* a publication being served

launchVars == <<slug, fallback, serves, coded, todo, starts, saves, application, partners,
               publication>>

\* mappingKey.
Keys == [kind : {"department"}, name : {DepartmentOf[x] : x \in Districts}]
        \cup [kind : {"province"}, name : {ProvinceOf[x] : x \in Districts}]
        \cup [kind : {"district"}, name : Districts]
DepartmentKey(d) == [kind |-> "department", name |-> d]
KeysOf(x) == {DepartmentKey(DepartmentOf[x]), [kind |-> "province", name |-> ProvinceOf[x]],
              [kind |-> "district", name |-> x]}

Exist   == {m \in Markets : slug[m] # NoSlug}
\* The row of the next market: which of the free ones does not matter.
NewMarket == IF Markets = Exist THEN {} ELSE {CHOOSE m \in Markets : m \notin Exist}

Serving == starts > 0 /\ todo = {}
MappedTo(M) == {k \in Keys : serves[k] \in M}

\* RECEIVED stands for every status but PARTNER: no code tells them apart.
ApplicationStatuses == {"NONE", "RECEIVED", "PARTNER"}
NotPublishing == [step |-> "idle", of |-> NoApplication, in |-> NoMarket, saw |-> FALSE]

LaunchInit ==
    /\ slug = [m \in Markets |-> NoSlug] /\ fallback = {}
    /\ serves = [k \in Keys |-> NoMarket] /\ coded = {}
    /\ todo = {} /\ starts = 0 /\ saves = 0
    /\ application = [a \in Applications |-> "NONE"]
    /\ partners = {} /\ publication = [p \in Publishers |-> NotPublishing]

-----------------------------------------------------------------------------
(* Which market a place is in.                                             *)

\* Bug: an application is looked for under the department only.
MatchesDepartment(k, x) == k = DepartmentKey(DepartmentOf[x])

\* locationMatches, with a ubigeoCode or without.
Matches(k, x) == k \in KeysOf(x)

\* What resolveMarket finds for a place, of a mapping or of none.
Found(x) == {k \in KeysOf(x) : serves[k] # NoMarket /\ (k.kind = "district" => x \in coded)}

\* The most specific of them.
Best(x) == {k \in Found(x) : \A o \in Found(x) \ {k} :
               k.kind = "district" \/ (k.kind = "province" /\ o.kind = "department")}

\* resolveMarket.  Which fallback findFirst returns, when there are two, is not said.
MarketsOf(x) == IF Found(x) # {} THEN {serves[k] : k \in Best(x)} ELSE fallback

\* belongsToMarket of adminMarketDetail.
BelongsTo(m, a) ==
    \/ <<a, m>> \in partners
    \/ IF m \in fallback
       THEN ~\E k \in MappedTo(Exist \ fallback) : Matches(k, DistrictOf[a])
       ELSE \E k \in MappedTo({m}) : Matches(k, DistrictOf[a])

-----------------------------------------------------------------------------
(* Starts and administration.                                              *)

RestOfLaunch == UNCHANGED <<application, partners, publication>>

StartService ==
    /\ todo = {} /\ starts < MaxStarts
    /\ starts' = starts + 1 /\ todo' = SeedSlugs \cup {FallbackSlug}
    /\ UNCHANGED <<slug, fallback, serves, coded, saves>> /\ RestOfLaunch

\* An upsert by slug, then one of the mapping of its department: the department goes
\* back to the seed whatever an administrator mapped it to.
WriteDefault(s) ==
    /\ s \in todo /\ (s \in SeedSlugs => FallbackSlug \notin todo)
    /\ \E m \in Markets :
        /\ IF \E o \in Exist : slug[o] = s THEN slug[m] = s ELSE m \in NewMarket
        /\ slug' = [slug EXCEPT ![m] = s]
        /\ fallback' = IF s = FallbackSlug THEN fallback \cup {m} ELSE fallback
        /\ serves' = IF s = FallbackSlug THEN serves
                     ELSE [serves EXCEPT ![DepartmentKey(DepartmentOfSeed[s])] = m]
    /\ todo' = todo \ {s}
    /\ UNCHANGED <<coded, starts, saves>> /\ RestOfLaunch

\* upsertMarket: the mappings of the market are replaced in one transaction, which fails
\* on a slug or a mapping that another market has.
SaveMarket(m) ==
    /\ Serving /\ saves < MaxSaves
    /\ saves' = saves + 1
    /\ \E s \in Slugs, K \in SUBSET Keys, C \in SUBSET Districts :
        /\ \A o \in Exist \ {m} : slug[o] # s
        /\ K \cap MappedTo(Exist \ {m}) = {}
        /\ C \subseteq {x \in Districts : [kind |-> "district", name |-> x] \in K}
        /\ slug' = [slug EXCEPT ![m] = s]
        /\ serves' = [k \in Keys |-> IF k \in K THEN m
                                     ELSE IF serves[k] = m THEN NoMarket ELSE serves[k]]
        /\ coded' = C \cup {x \in coded : serves[[kind |-> "district", name |-> x]] # m}
    /\ UNCHANGED <<fallback, todo, starts>> /\ RestOfLaunch

-----------------------------------------------------------------------------
(* Businesses.                                                             *)

MarketsRest == UNCHANGED <<slug, fallback, serves, coded, todo, starts, saves>>

Apply(a) ==
    /\ Serving /\ application[a] = "NONE"
    /\ application' = [application EXCEPT ![a] = "RECEIVED"]
    /\ UNCHANGED <<partners, publication>> /\ MarketsRest

\* Any status, also of an application that is published.
UpdateApplicationStatus(a) ==
    /\ Serving /\ application[a] # "NONE"
    /\ \E s \in ApplicationStatuses \ {"NONE"} : application' = [application EXCEPT ![a] = s]
    /\ UNCHANGED <<partners, publication>> /\ MarketsRest

PartnerOf(a) == {p \in partners : p[1] = a}

BeginPublish(p) ==
    /\ Serving /\ publication[p].step = "idle"
    /\ \E a \in Applications, m \in Exist :
        /\ application[a] # "NONE"
        /\ publication' = [publication EXCEPT ![p] =
               [step |-> "partner", of |-> a, in |-> m, saw |-> PartnerOf(a) # {}]]
    /\ UNCHANGED <<application, partners>> /\ MarketsRest

\* Bug: nothing keeps two publications from creating the partner.
CreatesAnother(a) == TRUE

\* sourceApplicationId is unique.
CreatesPartner(a) == PartnerOf(a) = {}

\* The partner is moved, or created by a publication that saw none.
WritePartner(p) ==
    LET pub == publication[p] IN
    /\ pub.step = "partner"
    /\ IF pub.saw \/ CreatesPartner(pub.of)
       THEN /\ partners' = (IF pub.saw THEN partners \ PartnerOf(pub.of) ELSE partners)
                           \cup {<<pub.of, pub.in>>}
            /\ publication' = [publication EXCEPT ![p].step = "status"]
       ELSE /\ publication' = [publication EXCEPT ![p] = NotPublishing]
            /\ UNCHANGED partners
    /\ UNCHANGED application /\ MarketsRest

WriteStatus(p) ==
    /\ publication[p].step = "status"
    /\ application' = [application EXCEPT ![publication[p].of] = "PARTNER"]
    /\ publication' = [publication EXCEPT ![p] = NotPublishing]
    /\ UNCHANGED partners /\ MarketsRest

LaunchNext ==
    \/ StartService \/ \E s \in Slugs : WriteDefault(s)
    \/ \E m \in Exist \cup NewMarket : SaveMarket(m)
    \/ \E a \in Applications : Apply(a) \/ UpdateApplicationStatus(a)
    \/ \E p \in Publishers : BeginPublish(p) \/ WritePartner(p) \/ WriteStatus(p)

LaunchSpec == LaunchInit /\ [][LaunchNext]_launchVars

-----------------------------------------------------------------------------
(* Properties.                                                             *)

LaunchTypeOK ==
    /\ slug \in [Markets -> Slugs \cup {NoSlug}] /\ fallback \subseteq Exist
    /\ serves \in [Keys -> Exist \cup {NoMarket}]
    /\ coded \subseteq {x \in Districts : serves[[kind |-> "district", name |-> x]] # NoMarket}
    /\ todo \subseteq Slugs /\ starts \in 0..MaxStarts /\ saves \in 0..MaxSaves
    /\ application \in [Applications -> ApplicationStatuses]
    /\ partners \subseteq Applications \X Exist
    /\ publication \in [Publishers -> [step : {"idle", "partner", "status"},
           of : Applications \cup {NoApplication}, in : Markets \cup {NoMarket}, saw : BOOLEAN]]

\* While requests are served a registration finds exactly one market for its place by the
\* mappings, or a fallback, whatever the administrators renamed or unmapped.
EveryPlaceHasAMarket ==
    Serving => \A x \in Districts :
        /\ MarketsOf(x) # {} /\ MarketsOf(x) \subseteq Exist
        /\ Cardinality(Best(x)) = 1 \/ Found(x) = {}

\* The market that a customer of a district falls in is one that shows the applications of
\* the businesses there: resolveMarket and locationMatches agree.  (They do not for a
\* district mapped without its code, nor for places mapped to the fallback.)
MarketShowsItsBusinesses ==
    Serving /\ (\A x \in Districts : serves[[kind |-> "district", name |-> x]] # NoMarket => x \in coded)
            /\ MappedTo(fallback) = {} =>
        \A a \in Applications : application[a] # "NONE" =>
            \A m \in MarketsOf(DistrictOf[a]) : BelongsTo(m, a)

\* Overlapping publications leave an application with one partner.
OnePartnerEach == \A a \in Applications : Cardinality(PartnerOf(a)) <= 1

\* The invariant of the markets and their partners.
LaunchInv == LaunchTypeOK /\ EveryPlaceHasAMarket /\ MarketShowsItsBusinesses /\ OnePartnerEach
=============================================================================
