SPECIFICATION AuditSpec
CONSTANTS
  Users = {u1, u2}
  Handlers = {h1, h2}
  LinkTTL = 1
  SessionTTL = 1
  MaxLinks = 2
  MaxSessions = 2
  MaxTime = 2
SYMMETRY Symmetry
INVARIANTS LinkInOnePlace SessionsBoundedByLink AdmittedWithCause
