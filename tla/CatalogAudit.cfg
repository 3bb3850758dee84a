SPECIFICATION FairAuditSpec
CONSTANTS
  Callers = {c1, c2}
  MaxPages = 2
  MaxVersion = 3
INVARIANTS OneRefresh OnlyWholeLists
PROPERTIES OnlyForward FlagComesDown CallsEnd
