----------------------------- MODULE MCDispatch -----------------------------
(* Instances of Dispatch for TLC: an urgent task above two of one priority. *)
EXTENDS Dispatch

CONSTANTS hi, lo1, lo2, b1, b2

MCTask == {hi, lo1, lo2}
MCSSB == {b1, b2}
SSBSymmetry == Permutations(MCSSB)
MCPrio == [t \in MCTask |-> IF t = hi THEN 1 ELSE 2]
MCInitRdq == <<<<hi>>, <<lo1, lo2>>>>

MCTaskTwo == {hi, lo1}
MCPrioTwo == [t \in MCTaskTwo |-> IF t = hi THEN 1 ELSE 2]
MCInitRdqTwo == <<<<hi>>, <<lo1>>>>
=============================================================================
