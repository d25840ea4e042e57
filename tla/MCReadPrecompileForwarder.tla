----------------------- MODULE MCReadPrecompileForwarder -----------------------
(***************************************************************************)
(* Instances of ReadPrecompileForwarder for TLC.                           *)
(***************************************************************************)
EXTENDS ReadPrecompileForwarder, TLC

CONSTANTS a, b

\* Two heads of the same height, as around a reorg, and the pending block on top.
HeadsAndPending ==
  {[number |-> 1, hash |-> a], [number |-> 1, hash |-> b], [number |-> 2, hash |-> a]}

\* Workers, allocations and inputs are interchangeable.
Symmetry ==
  Permutations(Callers) \union Permutations(Flights) \union Permutations(Inputs)
================================================================================
