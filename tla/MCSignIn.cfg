SPECIFICATION FairSpec
CONSTANTS
  node = node
  Nobody = Nobody
  Id = {i1, i2}
  Node = {node}
  Task = {t1, t2}
  Commands = {i1}
  Codes = {i2}
  NodeOf <- OneNode
INVARIANTS
  LatestShown
  DrawnToTheEnd
  OneUnlessRevived
PROPERTY EndsLeave
CHECK_DEADLOCK FALSE
