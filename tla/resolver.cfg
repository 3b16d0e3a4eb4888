CONSTANTS
  a1 = a1
  a2 = a2
  a3 = a3
  NoAddr = NoAddr
  Addrs <- AddrSet
SPECIFICATION ResolverFairSpec
INVARIANTS ResolverSafe
PROPERTIES QueueIsServed
