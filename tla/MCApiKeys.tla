------------------------------ MODULE MCApiKeys ------------------------------
(***************************************************************************)
(* TLC instances of ApiKeys.                                               *)
(***************************************************************************)
EXTENDS ApiKeys, TLC

\* Calls are interchangeable, and so are businesses.
CallsAndBusinesses == Permutations(Calls) \cup Permutations(BusinessIds)
=============================================================================
