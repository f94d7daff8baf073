----------------------------- MODULE MCPeriodClose -----------------------------
(* Instances of PeriodClose for TLC.                                        *)
EXTENDS PeriodClose, TLC

CONSTANTS w1, w2, a1, a2

\* One asset is bought in the first month, the other in the last.
MCBought == [a \in Assets |-> IF a = a1 THEN 1 ELSE NMonths]
MCLife == [a \in Assets |-> 1]
WorkerSymmetry == Permutations({w1, w2})
================================================================================
