SPECIFICATION FairSpec
CONSTANTS
  h1 = h1
  h2 = h2
  own = own
  legacy = legacy
  u = u
  plain = plain
  unlock = unlock
  topup = topup
  NoUser = NoUser
  Nobody = Nobody
  Orgs = {own, legacy}
  Orders = {plain, unlock, topup}
  Users = {u}
  OwnerId <- MCOwnerId
  OwnerRole <- MCOwnerRole
  OrgOf <- MCOrgOf
  Months <- MCMonths
  Unlocks = {unlock}
  ByDrakaris = {topup}
  PaidUntil <- MCPaidUntil
  Now = 1
  TopTier = 1
  Handlers = {h1, h2}
INVARIANTS
  TypeOK
  AppliedOnce
  AckMeansApplied
  OnlyPaidMonths
PROPERTIES
  OrdersLiveOnce
  NoRequestHangs
