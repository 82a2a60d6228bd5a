------------------------------ MODULE MCEmail ------------------------------
(***************************************************************************)
(* Requests that meet on one address, and one for another address.         *)
(***************************************************************************)
EXTENDS EmailStore, TLC

CONSTANTS p1, p2, p3, p4, g1, v1, e1, e2, k1, s1, s2

(* Two registrations with the right secret, one with another, one elsewhere. *)
Posts == {p1, p2, p3, p4}
Emails == [r \in Request |-> IF r = p4 THEN e2 ELSE e1]
OneKey == [r \in Post \cup Get |-> k1]
Secrets == [r \in Post \cup Get |-> IF r = p3 THEN s2 ELSE s1]
============================================================================
