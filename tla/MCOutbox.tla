------------------------------ MODULE MCOutbox ------------------------------
(***************************************************************************)
(* TLC instances of OutboxDispatcher.                                      *)
(***************************************************************************)
EXTENDS OutboxDispatcher

CONSTANTS e1, e2, b1, b2, w1, w2

\* The first event is b1's, any other b2's.
E1OwnedByB1 == [e \in Events |-> IF e = e1 THEN b1 ELSE b2]
=============================================================================
