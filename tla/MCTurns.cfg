SPECIFICATION FairSpec
CONSTANTS
  c1 = c1
  c2 = c2
  alice = alice
  bob = bob
  s1 = s1
  s2 = s2
  Idle = Idle
  NoSession = NoSession
  Conversation = {c1}
  Message = {1, 2, 3}
  User = {alice, bob}
  Session = {s1, s2}
  ThreadOf <- OneThread
  AuthorOf <- Authors
  HomeOf <- OneHome
INVARIANTS
  TypeOK
  OneLoop
  NothingLost
  CancelledOnce
PROPERTIES
  Serial
  InterruptLands
  EveryMessageSettles
CHECK_DEADLOCK FALSE
