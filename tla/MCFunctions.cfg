SPECIFICATION Spec
CONSTANTS
  Users = {u1, u2, u3}
  NoUser = NoUser
  Addressees = {"a1", "a2", "a3"}
  MaxActive = 2
  NoAddress = NoAddress
  MaxRows = 4
  MaxTime = 3
  MaxNumber = 2
  MaxShows = 2
  Unset = Unset
  Garbled = Garbled
  Ports = {Unset, Garbled, 0, 80, 70000}
  MaxPages = 4
  MaxNesting = 2
  Values <- MCValues
INVARIANTS PolicyParity FirstInReadingOrder EveryPageOnce BoardInOrder OfferedShowsAccepted SendersAgree
