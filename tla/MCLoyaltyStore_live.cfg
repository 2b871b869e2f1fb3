SPECIFICATION Spec
CONSTANTS
  Calls = {c1, c2}
  bugs = bugs
  elmer = elmer
  prize = prize
  Customers = {bugs, elmer}
  Prizes = {prize}
  Seeds <- MCSeeds
  Cost <- MCCost
  Amounts = {2}
  NoEngine = NoEngine
  Nobody = Nobody
  NoAccount = NoAccount
  Half = 4
INVARIANT LiveObjectsAreSafe
