SPECIFICATION EventsTabSpec
CONSTANTS
  Actions = {"allow", "deny"}
  Dests = {"10", "7", ""}
  Numeric = {"10", "7"}
  Number <- MCNumber
  Collation <- MCCollation
  FilterTexts = {"o"}
  Holds <- MCHolds
  Limits = {2, 3}
  ColumnsOf <- MCColumnsOf
  InternalRule = "internal"
  NoHost = ""
  Named = {"0"}
  NameOf <- MCNameOf
  MaxRows = 3
  MaxEvents = 7
INVARIANTS
  EventsTabSafe
  EventsAreFound
  ShownAreSorted
PROPERTIES
  SelectionKept
CHECK_DEADLOCK FALSE
