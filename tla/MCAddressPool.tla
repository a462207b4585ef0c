---------------------------- MODULE MCAddressPool ----------------------------
(* Small instances of AddressPool.                                          *)
EXTENDS AddressPool, TLC

CONSTANTS a1, a2, o1, o2, r1, r2, c1, c2

(* No constant tells addresses, orders, references or callers apart.        *)
Symmetry ==
  Permutations(Address) \cup Permutations(Order) \cup Permutations(Reference)
    \cup Permutations(Caller)

=============================================================================
