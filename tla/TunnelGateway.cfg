\* Two requests and two agent connections over a pool of one, with room for a second Set.
SPECIFICATION FairSpec
CONSTANTS
  Clients = {c1, c2}
  Conns = {k1, k2}
  Pools = {p1, p2}
  MaxPool = 1
  NoConn = NoConn
  NoPool = NoPool
INVARIANTS TunnelsAreExclusive PoolIsReachable PoolIsBounded PooledNeverEmpty PageIntoTunnelOnlyByHub
PROPERTIES RequestIsServed TokensExpire PairingIsImplemented
CHECK_DEADLOCK FALSE
