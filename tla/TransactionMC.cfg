SPECIFICATION FairSpec
CONSTANTS
  Clients = {c1, c2}
  NoClient = NoClient
  Senders = {r1, r2, r3, Timer}
  Requests = {r1, r2, r3}
  Users = {u1, u2}
  NoUser = NoUser
  Kinds = {"begin", "commit", "rollback", "query", "status"}
  Timer = Timer
INVARIANTS SessionIntact AnswersTrue
PROPERTIES LocksReleased OneAtATime
CHECK_DEADLOCK FALSE
