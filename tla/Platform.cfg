SPECIFICATION PlatformSpec
CONSTANTS
  Clients = {"ann", "bob"}
  Funds = {f1}
  FundCents = 2
  Rewards = {r1}
  BaseCents = 3
  RewardBps = 7
  PlatformBps = 9
  MarginBps = 2
  Whole = 10
  Transfers = {x1, x2}
  SendCents = 1
  DailyLimit = 1
  Buys = {b1}
  BuyCents = 3
  RestCents = 2
  OwnerOf <- MCOwnerOf
  BuyerOf <- MCBuyerOf
  Receiver <- MCReceiver
  Txs = {a, b}
  Withdrawals = {"w1", "w2"}
  Deciders = {h1, h2}
  NoWithdrawal = none
  Cents <- MCCents
  Minimum = 2
  Settled = 6
  Campaigns = {c1}
  Servers = {s1, s2, s3}
  NoCampaign = none
  TargetOf <- MCTargetOf
  SellerClubs = {c1, c2}
  Sellers = {s1, s2}
  OAuthLinks = {l1, l2}
  SellerCalls = {h1, h2}
  NoSeller = none
  MaxCallCrashes = 1
  Tokens = {k1, k2}
  NoToken = none
  Handlers = {h1, h2}
  MaxCodes = 1
  MaxAttempts = 1
  MaxResets = 1
  Leads = {a, b}
  NoLead = none
  Visitors = {v1, v2}
  MaxOtps = 2
  MaxLinks = 2
  MaxOtpAttempts = 1
  OtpRequestLimit = 3
  Markets = {k1, k2, k3}
  Slugs = {"lima", "resto", "otro"}
  FallbackSlug = "resto"
  SeedSlugs = {"lima"}
  DepartmentOfSeed <- MCDepartmentOfSeed
  Districts = {"miraflores"}
  ProvinceOf <- MCProvinceOf
  DepartmentOf <- MCDepartmentOf
  Applications = {"a1"}
  DistrictOf <- MCDistrictOf
  Publishers = {h1, h2}
  NoMarket = none
  NoSlug = none
  NoApplication = none
  MaxStarts = 2
  MaxSaves = 1
  Recorders = {r1, r2}
  MaxEntries = 3
  MaxNow = 1
  Workers = {w1}
  WorkDevices = {d1, d2}
  Shifts = {s1, s2}
  Starters = {h1, h2}
  MaxHires = 1
  AccessRequests = {q1, q2}
  OldClub = c0
  NewClubs = {c1, c2}
  NoClub = none
  NoAccessRequest = none
  Reviewers = {h1, h2}
  TicketTypes = {t1}
  Products = {p1}
  StockEditors = {h1, h2}
  NoGood = none
  MaxTotal = 2
  MaxGoods = 1
  PromoGoods = {"t1", "p1"}
  PromoEvents = {"ea"}
  NoPromoEvent = none
  EventOfGood <- MCEventOfGood
  PromoLists <- MCPromoLists
  PromoTickets = {"t1"}
  PromoEditors = {h1, h2}
  PromoOrders = {o1}
  PriceSteps <- MCPriceSteps
  ManualPrices = {4}
  MaxReprices = 1
  Clubs = {"c1", "c2"}
  ShopEvents = {"e1", "e2", "e3"}
  ShopTickets = {"t1", "t2", "t3"}
  ClubOf <- MCClubOf
  ShopEventOf <- MCShopEventOf
  StartsAt <- MCStartsAt
  EndsAt <- MCEndsAt
  SaleFrom <- MCSaleFrom
  SaleUntil <- MCSaleUntil
  TokenUntil <- MCTokenUntil
  Listed <- MCListed
  StatusAtFirst <- MCStatusAtFirst
  Schedules <- MCSchedules
  PageSize = 1
  CursorLife = 2
  MaxHour = 4
  MaxChanges = 1
  CartDevices = {d1, d2}
  CartItems = {"i1", "i3"}
  CartProducts = {"i1", "i3"}
  ShopOf <- MCShopOf
  NoShop = none
  CartOrders = {o1}
  MaxUnits <- MCMaxUnits
  MaxEdits = 2
  Administrators = {h1, h2}
  FeeClubs = {k1}
  AccountColumns = {u1}
  AccountValues = {active}
  Resolvers = {q1}
  TypedBps = {1, 2}
  MaximumBps = 1
  Prices = {0, 9}
  TypedPatches <- MCPatches
  GrossCents = 7000
  Unset = unset
  Keep = keep
  NoColumn = none
  MaxNotices = 4
  AudienceOf <- MCAudienceOf
  Lists = {w1}
  PageLimit = 2
  Attempts = {"a1", "a2"}
  ProviderOf <- MCProviderOf
  TotalCents <- MCTotalCents
  PaidCents <- MCPaidCents
  FeeCentsOf <- MCFeeCentsOf
  DefaultBps = 3000
  CostBps = 2000
  Recharges = {"t1"}
  Bonuses = {"r1"}
  RechargeCents = 3
  BonusCents = 1
  Bookers = {h1, h2}
  NoReference = none
INVARIANTS MoneyInv CollectionInv AccountsInv ShopInv CatalogueInv OfficeInv
PROPERTY PlaceIsKept
CHECK_DEADLOCK FALSE
