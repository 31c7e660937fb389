SPECIFICATION SubscriptionFairSpec
CONSTANTS
  Token = {t1, t2, t3}
  MaxUpdates = 3
  MaxDrops = 2
INVARIANTS MatchesOutsideTransition KeptIsInSync
PROPERTIES EventuallySubscribed
