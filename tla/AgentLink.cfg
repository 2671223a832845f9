SPECIFICATION FairSpec
CONSTANTS
  k1 = k1
  k2 = k2
  topic = topic
  Keys <- MCKeys
  TopicOf <- MCTopicOf
  MaxConnections = 2
  MaxFailures = 1
  MaxEvents = 3
  Backlog = 2
INVARIANTS ProtocolHolds TimersMatchState SubscriptionsAgree
PROPERTIES Recovers
CHECK_DEADLOCK FALSE
