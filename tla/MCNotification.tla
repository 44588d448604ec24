--------------------------- MODULE MCNotification ----------------------------
(***************************************************************************)
(* A TLC instance of Notification.                                         *)
(***************************************************************************)
EXTENDS Notification

\* One merchant has paid everything.
OneOwner == [e \in Events |-> CHOOSE b \in Businesses : TRUE]
=============================================================================
