------------------------------ MODULE MCPlatform ------------------------------
(***************************************************************************)
(* The instances of the parts of the platform that finish their work in    *)
(* the request that began it, checked for safety.  They share no table, so *)
(* a behaviour of the run is a behaviour of one of them (part, chosen at   *)
(* the start) while the others rest.                                       *)
(***************************************************************************)
EXTENDS TLC, Wallet, Withdrawals, Campaigns, SellerConnection, Sessions, Prelaunch,
        LaunchMarkets, AuditLog, Staff, BusinessAccess, Stock, Promotions,
        Discovery, Cart, PlatformAdmin, Inbox, Ledger

VARIABLE part

platformVars ==
  <<walletVars, withdrawalVars, campaignVars, sellerVars, sessionVars, prelaunchVars,
    launchVars, auditVars, staffVars, accessVars, stockVars, promoVars, discoveryVars,
    cartVars, adminVars, inboxListVars, ledgerVars, part>>

Parts == {"wallet", "withdrawals", "campaigns", "seller", "sessions", "prelaunch",
          "launch", "audit", "staff", "access", "stock", "promotions", "discovery",
          "cart", "admin", "inbox", "ledger"}

(***************************************************************************)
(* The constants.                                                          *)
(***************************************************************************)
(* One customer owns everything, sends to the other and has referred them. *)
MCOwnerOf  == [k \in Funds \cup Rewards \cup Transfers \cup Buys |-> "ann"]
MCReceiver == [k \in Transfers |-> "bob"]
MCBuyerOf  == [r \in Rewards |-> "bob"]

(* Together the withdrawals do not exceed what was settled; two is the     *)
(* minimum.                                                                *)
MCCents == "w1" :> 2 @@ "w2" :> 3

(* Both campaigns want the place of one club.                              *)
MCTargetOf == [c \in Campaigns |-> "club"]

(* One seed with a department, one district in it.                         *)
MCDepartmentOfSeed == [s \in SeedSlugs |-> "LIM"]
MCProvinceOf       == [d \in Districts |-> "LIM:LIM"]
MCDepartmentOf     == [d \in Districts |-> "LIM"]
MCDistrictOf       == [a \in Applications |-> "miraflores"]

(* A ticket of an event, and a product of the club; one promotion of both. *)
MCEventOfGood == [g \in PromoGoods |-> IF g = "t1" THEN "ea" ELSE NoPromoEvent]
MCPromoLists ==
  {{[of |-> "t1", quantity |-> 2, discount |-> "PERCENTAGE", value |-> 50],
    [of |-> "p1", quantity |-> 1, discount |-> "FIXED_AMOUNT", value |-> 2]}}
MCPriceSteps == [g \in PromoGoods |-> IF g = "t1" THEN {1} ELSE {1, 3}]

(* Two events of one club and one of another; tickets that go on sale      *)
(* later, end early, or are of the event of the club that disconnects.     *)
MCClubOf      == [e \in ShopEvents |-> IF e = "e3" THEN "c2" ELSE "c1"]
MCShopEventOf == [t \in ShopTickets |-> IF t = "t3" THEN "e3" ELSE "e1"]
MCStartsAt    == [e \in ShopEvents |-> IF e = "e1" THEN 1 ELSE 3]
MCEndsAt      == [e \in ShopEvents |-> IF e = "e1" THEN 2 ELSE 5]
MCSaleFrom    == [t \in ShopTickets |-> IF t = "t2" THEN 1 ELSE 0]
MCSaleUntil   == [t \in ShopTickets |-> IF t = "t1" THEN 2 ELSE 9]
MCTokenUntil  == [c \in Clubs |-> IF c = "c1" THEN 9 ELSE 4]
MCListed      == [x \in Clubs \cup ShopEvents |->
                    IF x \in {"c1", "e1"} THEN 1 ELSE IF x \in {"c2", "e2"} THEN 2 ELSE 3]
MCStatusAtFirst ==
  [e \in ShopEvents |-> IF e = "e2" THEN "POSTPONED" ELSE "SALE_ACTIVE"]

(* A schedule that crosses midnight twice, and one that does not.          *)
MCOpen(from, until) == [opens |-> TRUE, from |-> from, until |-> until]
MCShut == [opens |-> FALSE, from |-> 0, until |-> 0]
MCNights == [d \in 0..6 |-> IF d = 0 THEN MCOpen(3, 1)
                            ELSE IF d = 1 THEN MCOpen(2, 2) ELSE MCShut]
MCDays == [d \in 0..6 |-> IF d = 0 THEN MCOpen(1, 2) ELSE MCShut]
MCSchedules == {MCNights, MCDays}

(* Two units of a product of a club, and one of a product of another.      *)
MCShopOf   == [i \in CartItems |-> IF i = "i3" THEN "c2" ELSE "c1"]
MCMaxUnits == [i \in CartItems |-> IF i = "i1" THEN 2 ELSE 1]

(* A percentage that is no fee, and a fee that is taken away.  The price   *)
(* of nothing is refused.                                                  *)
MCPatch(bps, legacy, price) == [bps |-> bps, legacy |-> legacy, price |-> price]
MCPatches == {MCPatch(Unset, 2, 9), MCPatch(Keep, Keep, 0)}

(* One notice in three is for who works in a club.                         *)
MCAudienceOf == [n \in Notices |-> IF n = 2 THEN "OPERATIONS" ELSE "CUSTOMER"]

(* A sale paid partly with credit, split by the provider, and one of the   *)
(* simulator.                                                              *)
MCProviderOf == "a1" :> "mercado_pago" @@ "a2" :> "simulated"
MCTotalCents == "a1" :> 7 @@ "a2" :> 5
MCPaidCents  == "a1" :> 6 @@ "a2" :> 5
MCFeeCentsOf == "a1" :> 4 @@ "a2" :> 0

(***************************************************************************)
(* The specification.  The schedules matter to the discovery alone.        *)
(***************************************************************************)
PlatformInit ==
  /\ part \in Parts
  /\ WalletInit /\ WithdrawalInit /\ CampaignInit /\ SellerInit /\ SessionInit
  /\ PrelaunchInit /\ LaunchInit /\ AuditInit /\ StaffInit /\ AccessInit
  /\ StockInit /\ PromoInit /\ DiscoveryInit /\ CartInit
  /\ AdminInit /\ InboxInit /\ LedgerInit
  /\ part # "discovery" => \A c \in Clubs : club[c].schedule = MCDays

OthersRest ==
  /\ part # "wallet"      => UNCHANGED walletVars
  /\ part # "withdrawals" => UNCHANGED withdrawalVars
  /\ part # "campaigns"   => UNCHANGED campaignVars
  /\ part # "seller"      => UNCHANGED sellerVars
  /\ part # "sessions"    => UNCHANGED sessionVars
  /\ part # "prelaunch"   => UNCHANGED prelaunchVars
  /\ part # "launch"      => UNCHANGED launchVars
  /\ part # "audit"       => UNCHANGED auditVars
  /\ part # "staff"       => UNCHANGED staffVars
  /\ part # "access"      => UNCHANGED accessVars
  /\ part # "stock"       => UNCHANGED stockVars
  /\ part # "promotions"  => UNCHANGED promoVars
  /\ part # "discovery"   => UNCHANGED discoveryVars
  /\ part # "cart"        => UNCHANGED cartVars
  /\ part # "admin"       => UNCHANGED adminVars
  /\ part # "inbox"       => UNCHANGED inboxListVars
  /\ part # "ledger"      => UNCHANGED ledgerVars
  /\ UNCHANGED part

PlatformNext ==
  \/ part = "wallet"      /\ OthersRest /\ WalletNext
  \/ part = "withdrawals" /\ OthersRest /\ WithdrawalNext
  \/ part = "campaigns"   /\ OthersRest /\ CampaignNext
  \/ part = "seller"      /\ OthersRest /\ SellerNext
  \/ part = "sessions"    /\ OthersRest /\ SessionNext
  \/ part = "prelaunch"   /\ OthersRest /\ PrelaunchNext
  \/ part = "launch"      /\ OthersRest /\ LaunchNext
  \/ part = "audit"       /\ OthersRest /\ AuditNext
  \/ part = "staff"       /\ OthersRest /\ StaffNext
  \/ part = "access"      /\ OthersRest /\ AccessNext
  \/ part = "stock"       /\ OthersRest /\ StockNext
  \/ part = "promotions"  /\ OthersRest /\ PromoNext
  \/ part = "discovery"   /\ OthersRest /\ DiscoveryNext
  \/ part = "cart"        /\ OthersRest /\ CartNext
  \/ part = "admin"       /\ OthersRest /\ AdminNext
  \/ part = "inbox"       /\ OthersRest /\ InboxNext
  \/ part = "ledger"      /\ OthersRest /\ LedgerNext

PlatformSpec == PlatformInit /\ [][PlatformNext]_platformVars

(***************************************************************************)
(* The properties, by the office that would answer for them.  A part that  *)
(* rests is where it began, so each is asked of the part that runs.        *)
(***************************************************************************)
Runs(p) == part = p

(* Money of customers and businesses: what a wallet holds agrees with the  *)
(* movements of its credit, and the movements of payments at the gateway   *)
(* with the payments; what is held for withdrawals agrees with the         *)
(* entries, and the books balance, however purchases, refunds, transfers,  *)
(* expiries and decisions overlap (referrals.service.ts,                   *)
(* commerce.service.ts, withdrawals.service.ts, ledger.service.ts).        *)
MoneyInv ==
  /\ Runs("wallet") => WalletInv /\ TransfersWithinLimit
  /\ Runs("withdrawals") => WithdrawalInv /\ OpenIsReserved
  /\ Runs("ledger") => LedgerInv /\ AccountsAreEntries

(* Sellers: an account of the provider collects for one club, with its own *)
(* token, through links that are used once (seller-connection.service.ts). *)
CollectionInv == Runs("seller") => SellerInv

(* Accounts: sessions, one-time codes, leads and the markets of the launch *)
(* keep what was verified when requests overlap, are repeated or die       *)
(* (auth.service.ts, prelaunch.service.ts).                                *)
AccountsInv ==
  /\ Runs("sessions") => SessionInv
  /\ Runs("prelaunch") => PrelaunchInv
  /\ Runs("launch") => LaunchInv

(* Customers are shown what is open and on sale, page after page, and are  *)
(* sold the cart they saw (clubs.service.ts, commerce.service.ts).         *)
ShopInv ==
  /\ Runs("discovery") => DiscoveryInv
  /\ Runs("cart") => CartInv

(* Catalogue: what is sold stays within its stock, at its price, and is    *)
(* promoted only when the provider has approved the payment, which it may  *)
(* have returned since (tickets, products, promotions and featured         *)
(* campaigns).                                                             *)
CatalogueInv ==
  /\ Runs("stock") => StockInv
  /\ Runs("promotions") => PromoInv
  /\ Runs("campaigns") => CampaignInv

(* Office: the audit chain, the shifts of the workers, the granting of     *)
(* business access, the fees and the inbox survive overlapping requests    *)
(* (audit.service.ts, club-workers.service.ts, business-access.service.ts, *)
(* platform.service.ts, marketplace-fee.service.ts,                        *)
(* notification.service.ts).                                               *)
OfficeInv ==
  /\ Runs("audit") => AuditInv
  /\ Runs("staff") => StaffInv
  /\ Runs("access") => AccessInv
  /\ Runs("admin") => AdminInv
  /\ Runs("inbox") => InboxInv
===============================================================================
