SPECIFICATION FairSpec
CONSTANTS
  Handlers = {h1, h2, h3}
  Buffer = 2
  MaxEvents = 5
  Baseline = {b1, b2}
  Retired = {o}
INVARIANTS TypeOK PanicOnlyWhenForced CleanShutdown PolicyGranted
PROPERTIES ImplementsMailbox ShutdownEnds HandlersNeverWait EventsWorkedOff
CHECK_DEADLOCK FALSE
