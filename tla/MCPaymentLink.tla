---------------------------- MODULE MCPaymentLink ----------------------------
(* Instances of PaymentLink for TLC. *)
EXTENDS PaymentLink, TLC

CONSTANTS b1, b2, b3

Symmetry == Permutations(Buyer)
FewUnits == {1, 2, Unlimited}
=============================================================================
