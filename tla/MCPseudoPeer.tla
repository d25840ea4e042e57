------------------------------ MODULE MCPseudoPeer -----------------------------
(***************************************************************************)
(* Instances of PseudoPeer for TLC.                                        *)
(***************************************************************************)
EXTENDS PseudoPeer

Headers(by, start, limit, direction) ==
  [kind |-> "headers", by |-> by, start |-> start, limit |-> limit,
   direction |-> direction]

Bodies(hashes) == [kind |-> "bodies", hashes |-> hashes]

\* Both directions, by number and by hash, beyond the tip and below the genesis
\* block, and bodies that are unknown, out of order or asked for twice.
AllKinds ==
  {Headers("number", 1, 2, "Rising"), Headers("hash", 2, 2, "Falling"),
   Headers("hash", 1, 3, "Falling"),
   Bodies(<<Hash(2), Hash(1)>>), Bodies(<<Hash(1), Hash(1)>>)}

NoneOrTwo == {-1, 2}

GapAtTwo == {2}
================================================================================
