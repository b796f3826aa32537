SPECIFICATION FairSpec
CONSTANTS
  MaxChanges = 5
  MaxFaults = 3
INVARIANTS
  KnowsSupply
  ChargeFollows
PROPERTY EventsServed
CHECK_DEADLOCK FALSE
