SPECIFICATION Spec
CONSTANTS
  Posts = {p1, p2}
  Gets = {g}
  Messages = {m}
  PoolSize = 1
INVARIANTS
  NoConnectionWhileWaiting
  NothingLeft
  CommittedBeforeTold
PROPERTIES
  StoresWithBroker
  JobsGoOn
  Ends
