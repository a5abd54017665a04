CONSTANTS
  Keyed = TRUE
  p1 = p1
  p2 = p2
  Pods = {p1, p2}
  e1 = e1
  e2 = e2
  Events = {e1, e2}
  i1 = i1
  Identities = {i1}
  q1 = q1
  q2 = q2
  Partitions = {q1, q2}
  IdentityOf <- AllOneIdentity
  PartitionOf <- AllOnePartition
  FirstOwner <- OneEach
  Calls <- EnoughCalls
  Jsonb <- JsonbOf
  Nobody = Nobody
  NoCall = 0
  MaxCopies = 2
  MaxMoves = 1
  MaxErrors = 1
SPECIFICATION PipelineFair
INVARIANTS
  ChainIntact
  DecidedIsAudited
  InOrderUnlessStopped
PROPERTIES
  DecisionStands
  EveryEventEnds
CHECK_DEADLOCK FALSE
