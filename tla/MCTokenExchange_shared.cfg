SPECIFICATION Spec
CONSTANTS
  Documents = {d1, d2}
  MaxFields = 1
  SlidingExpiration = 2
  TokenLifetime = 1
  Requests <- MCRequests
  OidcSchemes = {"google"}
  PartnerSubject = rabbit
  NoSubject = NoSubject
  NoPost = NoPost
  NoEntry = NoEntry
  alice = alice
  bob = bob
  Pipelines <- MCPipelines
  Exchanges <- MCExchanges
  PassThrough <- MCPassThrough
  PartnerPlans <- MCPlans
  Subjects <- MCSubjects
  rabbit = rabbit
SYMMETRY DocumentSymmetry
INVARIANTS
  BearerOfFinalExchange
  MintsFollowPlan
