SPECIFICATION WindowSpec
CONSTANTS
  Peers = {n1, n2}
  Conns = {"c1", "c2"}
  ArgsOf <- MCArgsOf
  Kinds = {"hosts", "procs"}
  WhatOf <- MCWhatOf
  NoArgs = "none"
  NoCount = NoCount
  RuleOf <- MCRuleOf
  Internal = {}
  Overview = Overview
  MaxLog = 2
  MaxPings = 1
  MaxMishaps = 2
SYMMETRY MCSymmetry
CHECK_DEADLOCK FALSE
INVARIANTS
  Safe
  CachesAgree
PROPERTIES
  BatchIsAtomic
  ScreenFollows
