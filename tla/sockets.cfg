SPECIFICATION Spec
CONSTANTS
  Name = {main, work}
  Server = {s1, s2, s3}
  Lister = {ls}
  Nobody = Nobody
INVARIANT StaysReachable
PROPERTY ImplementsNames
\* Every server may have ended.
CHECK_DEADLOCK FALSE
