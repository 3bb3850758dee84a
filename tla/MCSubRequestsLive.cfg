SPECIFICATION FairSpec
CONSTANTS
  Users = {u1, u2}
  Handlers = {h1, h2}
  MaxId = 1
  NoUser = NoUser
PROPERTY
  RequestsAnswered
