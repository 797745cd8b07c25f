SPECIFICATION FairSpec
CONSTANTS
  fact1 = fact1
  fact2 = fact2
  setup = setup
  foreign = foreign
  browser = browser
  own = own
  others = others
  None = None
  Fact = {fact1, fact2, foreign, setup}
  Client = {browser}
  Organization = {own, others}
  Concerns <- FactsOfBoth
  MemberOf <- OwnOrganization
  Limit = 2
  MaxTroubles = 2
CHECK_DEADLOCK FALSE
INVARIANTS
  NothingSkipped
  NoEventTwice
PROPERTIES
  EventsRecorded
  ShowsEverything
