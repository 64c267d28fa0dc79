SPECIFICATION Spec
CONSTANTS
  Clients = {c1, c2}
  NoClient = NoClient
  Senders = {r1, r2, r3, Timer}
  Requests = {r1, r2, r3}
  Users = {u1}
  NoUser = NoUser
  Kinds = {"begin", "commit", "query"}
  Timer = Timer
INVARIANT CommittedMeansSaved
CHECK_DEADLOCK FALSE
