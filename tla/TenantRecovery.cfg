SPECIFICATION Spec
CONSTANTS
  olga = olga
  murad = murad
  a1 = a1
  a2 = a2
  a3 = a3
  h1 = h1
  h2 = h2
  Admins = {a1, a2, a3}
  People = {olga, murad}
  FirstOwner = olga
  Disputes = {d1}
  Requests = {r1}
  Handlers = {h1, h2}
  NotYet = NotYet
  Parties <- MCParties
  PatchTo = {"APPROVED"}
  JoinRoles = {"USER"}
SYMMETRY MCSymmetry
INVARIANTS TypeOK AuthorisedByTwo ExecutedIsDone
PROPERTIES NewOwnerIsMember
CHECK_DEADLOCK FALSE
