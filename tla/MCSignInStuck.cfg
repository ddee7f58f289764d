SPECIFICATION Spec
CONSTANTS
  node = node
  Nobody = Nobody
  Id = {i1, i2}
  Node = {node}
  Task = {t1, t2}
  Commands = {i1}
  Codes = {i2}
  NodeOf <- OneNode
INVARIANT PendingIsPending
CHECK_DEADLOCK FALSE
