\* Three files of two senders for one receiver; of all that may happen to a transfer, any two.
SPECIFICATION FairSpec
CONSTANTS
  a = a
  b = b
  r = r
  t1 = t1
  t2 = t2
  t3 = t3
  NoTransfer = NoTransfer
  Sender <- TwoSenders
  Receiver <- OneReceiver
  Transfer <- ThreeTransfers
  From <- FromBoth
  Name <- Names
  Value <- Values
  Mode <- Pasteboards
  Limit = 1
  Allowed = {"overlap", "error", "outage", "quit", "late", "grown"}
  MaxStrain = 2
CHECK_DEADLOCK FALSE
INVARIANTS AnnouncesItsOwn KeptHasACause FallsHaveACause 
PROPERTIES TransfersComplete
