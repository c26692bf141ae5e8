SPECIFICATION Spec
CONSTANTS
  Dev <- TwoCards
  Docs <- TwoCardDocs
  MaxPolls = 2
  MaxClock = 3
  OutageAt = 1
  MaxAge = 1
INVARIANTS
  NoSnapshotLost
  OneSnapshot
  FreshUnlessOverlapped
  RelayNotBehindScreen
PROPERTIES
  OutageClearsScreen
  DropReturns
  FeedImplemented
