----------------------------- MODULE MCBlockImport -----------------------------
(***************************************************************************)
(* Instances of BlockImport for TLC.                                       *)
(***************************************************************************)
EXTENDS BlockImport

GenesisBlock == [number |-> 0, hash |-> 0, parent |-> -1]

\* A chain of three blocks, with hashes that do not follow the heights.
ChainOfThree ==
  {[number |-> 1, hash |-> 5, parent |-> 0],
   [number |-> 2, hash |-> 3, parent |-> 5],
   [number |-> 3, hash |-> 4, parent |-> 3]}

\* Two blocks of the same height, and a child of the one with the higher hash.
Fork ==
  {[number |-> 1, hash |-> 5, parent |-> 0],
   [number |-> 1, hash |-> 6, parent |-> 0],
   [number |-> 2, hash |-> 7, parent |-> 6]}

\* Everything at once; a calm network in front of an engine in sync; and blocks in
\* order in front of an engine in backfill sync.
Forks ==
  {[arrivals |-> "any order", backfilling |-> TRUE, failures |-> TRUE,
    bad |-> {b \in Fork : b.hash = 5}],
   [arrivals |-> "one at a time", backfilling |-> FALSE, failures |-> FALSE,
    bad |-> {}]}
Backfill ==
  {[arrivals |-> "in order", backfilling |-> TRUE, failures |-> FALSE, bad |-> {}]}
================================================================================
