\* A reward that a purchase uses up, and that is revoked before the purchase
\* is refunded.
SPECIFICATION WalletSpec
CONSTANTS
  Clients = {"ann", "bob"}
  Funds = {f1}
  FundCents = 2
  Rewards = {r1}
  BaseCents = 4
  RewardBps = 5
  PlatformBps = 7
  MarginBps = 2
  Whole = 10
  Transfers = {}
  SendCents = 1
  DailyLimit = 1
  Buys = {b1}
  BuyCents = 3
  RestCents = 2
  OwnerOf <- OneOwner
  BuyerOf <- OneBuyer
  Receiver <- NoReceiver
  Txs = {a}
PROPERTY RevokedNeverReturns
CHECK_DEADLOCK FALSE
