SPECIFICATION Spec
CONSTANTS
  w1 = w1
  w2 = w2
  a1 = a1
  a2 = a2
  NMonths = 3
  Assets = {a1, a2}
  Bought <- MCBought
  Life <- MCLife
  Ops = {"POST", "DEPRECIATE", "CLOSE", "PATCH", "LOCK", "REVALUE"}
  Workers = {w1}
  MaxInFlight = 1
  MaxRequests = 5
INVARIANTS
  TypeOK
  NeverOverDepreciated
PROPERTIES
  ClosedMonthsAreFrozen
  ClosedStaysClosed
  CloseTakesSnapshot
  OpeningAfterClosedMonths
\* The users may have no more requests.
CHECK_DEADLOCK FALSE
