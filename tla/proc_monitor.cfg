SPECIFICATION Spec
CONSTANTS
  Nodes = {"n1", "n2"}
  Pids = {"p1", "p2"}
  Before <- MCBefore
  Pages = {"status", "files"}
  FirstPage = "status"
  Labels = {"usage"}
  Optional = {"files"}
  NoPid = NoPid
  NoNode = NoNode
  NoData = NoData
  MaxClock = 1
  MaxReplies = 1
  MaxClicks = 3
CHECK_DEADLOCK FALSE
INVARIANTS
  Safe
  NoWatchLeftBehind
  ShownWasAskedFor
PROPERTIES
  MonitoredIsShown
