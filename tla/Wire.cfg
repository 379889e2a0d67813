\* A start and two texts for one subscription, every write of ten bytes or all, every read of one byte or all.
SPECIFICATION FairSpec
CONSTANTS
  Registries <- SomeRegistries
  Self <- Myself
  ChannelLists <- SomeLists
  Addresses = 2
  Posts <- TwoTexts
  ShortWrite <- TenBytes
  ShortRead <- OneByte
  Hash <- Hashes
  DICT_HT_INITIAL_SIZE = 2
  DiscardAt = 20
CHECK_DEADLOCK FALSE
INVARIANTS TypeOK StartsLoseNobody CallsAreExact CodecsAreExact
PROPERTIES ImplementsRelay EverythingArrives
