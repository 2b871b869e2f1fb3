SPECIFICATION Spec
CONSTANTS
  Documents = {d1}
  MaxFields = 2
  SlidingExpiration = 1
  TokenLifetime = 1
  Requests <- MCRoutes
  OidcSchemes = {"google"}
  PartnerSubject = rabbit
  NoSubject = NoSubject
  NoPost = NoPost
  NoEntry = NoEntry
  alice = alice
  bob = bob
  Pipelines <- MCPipelines
  Exchanges <- MCExchanges
  PassThrough <- MCPassThrough
  PartnerPlans <- MCPlans
  Subjects <- MCSubjects
  rabbit = rabbit
INVARIANT
  ProperTokensGetPayload
