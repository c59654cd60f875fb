SPECIFICATION FairSpec
CONSTANTS
  Interfaces = {wlan, eth}
  None = none
  Untold = untold
  MaxChanges = 2
  MaxFailures = 1
  MaxSubscribes = 2
CHECK_DEADLOCK FALSE
INVARIANT ToldTheDefault
PROPERTIES FollowsRoute SubscriberFollows
