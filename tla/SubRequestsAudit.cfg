SPECIFICATION AuditSpec
CONSTANTS
  Users = {u1, u2, u3}
  Handlers = {h1, h2}
  MaxId = 1
  NoUser = NoUser
SYMMETRY Symmetry
INVARIANTS
  TypeOK NoSelfCover AuthorityStands ButtonsWork
  AnswersJustified AnswersTellTheEffect
PROPERTY ImplementsCoverage
