---------------------------- MODULE MCOrderPayment ----------------------------
(***************************************************************************)
(* Small instances of OrderPayment: amounts are small integers and an       *)
(* order is paid when the transfers summed reach what it requires.          *)
(***************************************************************************)
EXTENDS OrderPayment, FiniteSetsExt, TLC

CONSTANTS o1, o2, a1, t1, t2, t3

(* All transfers pay the address the orders take one after the other.       *)
ToA1 == [t \in Transfer |-> a1]

OwnTx == [t \in Transfer |-> t]

(* The sets of transfers that reach an amount, one coin each.               *)
Reach(n) == {S \in SUBSET Transfer : MapThenSumSet(LAMBDA t : 1, S) >= n}

OneCoin == [o \in Order |-> Reach(1)]
TwoCoins == [o \in Order |-> Reach(2)]

(* The first order needs two transfers, the others one.                     *)
MixedCoins == [o \in Order |-> IF o = o1 THEN Reach(2) ELSE Reach(1)]

(* No constant tells orders or transfers apart in the run that uses it.      *)
Symmetry == Permutations(Order) \cup Permutations(Transfer)

=============================================================================
