\* A connection that publishes and one that subscribes; of all that may happen to them, any two.
SPECIFICATION FairSpec
CONSTANTS
  p = p
  s = s
  Publisher <- OnePublisher
  Subscriber <- OneSubscriber
  Allowed = {"refused", "closed", "error", "partial", "overlap", "refired", "late"}
  MaxStrain = 2
CHECK_DEADLOCK FALSE
INVARIANTS FaultsHaveACause WriteScheduled 
PROPERTIES ImplementsAsyncCall ConnectionsEnd
