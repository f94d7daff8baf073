------------------------------ MODULE MCPaidOrders ------------------------------
(* An instance of PaidOrders for TLC.                                        *)
EXTENDS PaidOrders, TLC

CONSTANTS h1, h2, own, legacy, u, plain, unlock, topup

\* One owner: `own` names its owner, `legacy` only has a member who owns it.
MCOwnerId == [o \in Orgs |-> IF o = own THEN u ELSE NoUser]
MCOwnerRole == [o \in Orgs |-> u]
MCOrgOf == [n \in Orders |-> IF n = unlock THEN own ELSE legacy]
MCMonths == [n \in Orders |-> IF n = plain THEN 2 ELSE 1]
MCPaidUntil == [o \in Orgs |-> IF o = own THEN 0 ELSE 2]
HandlerSymmetry == Permutations({h1, h2})
=================================================================================
