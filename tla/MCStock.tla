---------------------------------- MODULE MCStock ----------------------------------
(* Instances of Stock for TLC.                                               *)
EXTENDS Stock, TLC

CONSTANTS a, b, h1, h2, n1, k1, k2, i1, o1

MCQuantity == [i \in Invoices |-> 1]
MCDraftCell == [n \in Drafts |-> <<a, Goods>>]
MCDraftDate == [n \in Drafts |-> Today]
MCCountDate == [k \in Counts |-> 1]
MCEntry == {<<a, Goods>>}
MCCountAt == [k \in Counts |-> a]
MCOrderAt == [o \in Orders |-> a]
CountSymmetry == Permutations(Counts)
====================================================================================
