-------------------------- MODULE MCNotificationQueue --------------------------
(* Small instances of NotificationQueue.                                      *)
EXTENDS NotificationQueue

CONSTANTS e1, e2, i1, i2, p1, p2, s1, s2

OwnId == [e \in Event |-> IF e = e1 THEN i1 ELSE i2]

=============================================================================
