----------------------------- MODULE OrderContract -----------------------------
(***************************************************************************)
(* What the documentation promises of an order (guide/order-payment.md):   *)
(* a pending order ends up completed if payments that cover its amount     *)
(* have been confirmed, expired otherwise, and then never changes again.   *)
(***************************************************************************)
CONSTANT Order

VARIABLES
  status,  \* none, pending, completed or expired
  paid     \* the orders whose amount is covered by confirmed transfers

vars == <<status, paid>>

Init ==
  /\ status = [o \in Order |-> "none"]
  /\ paid = {}

(* An order for nothing is paid from the start.                              *)
Open(o) ==
  /\ status[o] = "none"
  /\ status' = [status EXCEPT ![o] = "pending"]
  /\ paid' \in {paid, paid \cup {o}}

(* One transaction may pay several orders.                                  *)
Pay(S) ==
  /\ \A o \in S : status[o] # "none"
  /\ paid' = paid \cup S
  /\ UNCHANGED status

Close(o) ==
  /\ status[o] = "pending"
  /\ status' = [status EXCEPT ![o] = IF o \in paid THEN "completed" ELSE "expired"]
  /\ UNCHANGED paid

Next ==
  \/ \E o \in Order : Open(o) \/ Close(o)
  \/ \E S \in SUBSET Order : Pay(S)

Spec == Init /\ [][Next]_vars /\ \A o \in Order : WF_vars(Close(o))

=============================================================================
