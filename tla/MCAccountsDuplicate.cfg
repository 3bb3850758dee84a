SPECIFICATION Spec
CONSTANTS NoUser = NoUser
          m = m  a = a  b = b
          Emails = {m, a, b}
          Master = m
          Handlers = {h1, h2}
INVARIANT ExistingIsNoFailure
SYMMETRY Symmetry
