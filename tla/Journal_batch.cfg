SPECIFICATION Spec
CONSTANTS
  None = None h1 = h1 h2 = h2 s1 = s1 s2 = s2 a = a b = b c = c big = big r1 = r1 k1 = k1 b1 = b1
  Hosts = {h1}
  Streams = {s1, s2}
  Bodies = {a, b, c, big}
  Oversized = {big}
  Batches <- MCLateBatches
  Guarded <- MCGuarded
  Readers = {r1}
  Shares <- MCNoShares
  Keys = {k1}
  Blobs = {}
  PageLimit = 1
  MaxLamport = 3
  MaxEpoch = 2
  MaxFaults = 1
CHECK_DEADLOCK FALSE
INVARIANTS NothingBeyondHead
