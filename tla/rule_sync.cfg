SPECIFICATION Spec
CONSTANTS
  NodeOrder <- MCNodeOrder
  Names <- MCNames
  InternalName = "dns"
  CloneNames <- MCCloneNames
  Actions = {"allow", "deny"}
  Durations = {"always", "until restart"}
  Entered <- MCEntered
  NoRule = NoRule
  NoNote = NoNote
  NoPick = NoPick
  MaxEvents = 4
CHECK_DEADLOCK FALSE
INVARIANTS
  Safe
  RulesInForceAreKnown
PROPERTIES
  CloneOverwritesNothing
  DnsRuleMade
