--------------------------- MODULE MCTenantRecovery ---------------------------
(* Instances of TenantRecovery for TLC. *)
EXTENDS TenantRecovery, TLC

CONSTANTS olga, murad, a1, a2, a3, h1, h2

\* A claimant from outside or among the members disputes the first owner.
MCParties == {<<murad, olga>>}

MCSymmetry == Permutations(Admins) \cup Permutations(Handlers)
===============================================================================
