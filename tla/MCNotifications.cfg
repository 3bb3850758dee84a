SPECIFICATION MailSpec
CONSTANTS
  Users = {u1, u2, u3}
  Handlers = {h1, h2}
  MaxId = 1
  NoUser = NoUser
  Buffer = 1
  MaxChanges = 4
VIEW View
SYMMETRY Symmetry
INVARIANTS NoFalseAlarm RightRecipients
