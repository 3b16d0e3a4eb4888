SPECIFICATION RuleFormSpec
CONSTANTS
  NodeOrder <- MCNodeOrder
  Names <- MCNames
  Reencoded <- MCReencoded
  Slug <- MCSlug
  Durations <- MCDurations
  DurationTexts = {"once", "always", "7d"}
  OtherOperands = {"iface.out"}
  Words <- MCWords
  Patterns = {"star", "rx", "brace"}
  Slashed = {"rx"}
  Braced = {"brace"}
  NonAscii = {"jose"}
  Directories = {"dir"}
  Sample = "rx"
  Foreign <- MCForeign
  Connections <- MCConnections
  Typed <- MCTyped
  TypedNames <- MCTypedNames
  Asked = {"process.path", "dest.host", "dest.ip"}
  Checkable = {"process.path", "dest.port", "lists.ips"}
  MaxOutside = 2
  MaxEvents = 6
INVARIANTS
  RuleFormSafe
PROPERTIES
  EditChangesOneRule
  ReopenedIsTheSame
  CriteriaKept
CHECK_DEADLOCK FALSE
