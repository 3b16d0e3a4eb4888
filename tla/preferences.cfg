SPECIFICATION Spec
CONSTANTS
  n1 = n1
  n2 = n2
  NodeOrder <- MCNodeOrder
  Listed = {"once", "always"}
  FirstListed = "once"
  Addresses = {"unix", "tcp"}
  NoAddress = "empty"
  NoServer = "no server"
  Reported <- MCReported
  Unparsable = Unparsable
  NoNode = NoNode
  NoConfig = NoConfig
  MaxEvents = 4
INVARIANT Safe
INVARIANT HiddenFormIsStored
INVARIANT ConfigInStep
PROPERTY OnlyEditsAreWritten
CHECK_DEADLOCK FALSE
