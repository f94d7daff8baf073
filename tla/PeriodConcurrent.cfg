SPECIFICATION Spec
CONSTANTS
  w1 = w1
  w2 = w2
  a1 = a1
  a2 = a2
  NMonths = 2
  Assets = {a1, a2}
  Bought <- MCBought
  Life <- MCLife
  Ops = {"POST", "DEPRECIATE", "CLOSE"}
  Workers = {w1, w2}
  MaxInFlight = 2
  MaxRequests = 4
SYMMETRY WorkerSymmetry
INVARIANTS
  ChargesAgree
  SnapshotNeverAhead
\* The users may have no more requests.
CHECK_DEADLOCK FALSE
