SPECIFICATION ScopesSpec
CONSTANTS
  Clients = {c1, c2}
  NoClient = NoClient
  Senders = {r1, r2, s1, s2, Timer}
  Requests = {r1, r2}
  Users = {u1}
  NoUser = NoUser
  Kinds = {"begin", "commit", "query"}
  Timer = Timer
  Scripts = {s1, s2}
  NoScript = NoScript
  MaxStatements = 2
SYMMETRY Symmetry
INVARIANTS  ClientsApart
CHECK_DEADLOCK FALSE
