SPECIFICATION FairSpec
CONSTANTS
  Callers = {c1, c2}
  Exchanges = {briar_rabbit, briar_rabbit_test}
  SlidingExpiration = 2
  TokenLifetime = 3
  NoEntry = NoEntry
INVARIANTS
  TypeOK
  OwnToken
PROPERTIES
  PoisonNeedsTraffic
  EveryCallReturns
