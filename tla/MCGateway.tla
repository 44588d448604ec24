----------------------------- MODULE MCGateway ------------------------------
(***************************************************************************)
(* TLC instances of PaymentGateway; each cfg picks its sets from these     *)
(* names.                                                                  *)
(***************************************************************************)
EXTENDS GatewayInvariant, TLC

CONSTANTS r1, r2, r3, b1, b2, i1, i2, k1, k2

\* One merchant owns every invoice.
AllOwnedByB1 == [i \in Invoices |-> b1]

\* Requests are interchangeable, and so are keys.
RequestsAndKeys == Permutations(Requests) \cup Permutations(Keys)

\* Rivals, and retries among them: the requests are not all the same.
SomeRival ==
    /\ Init
    /\ \E r, s \in Requests : req[r] # req[s]

\* Spec from those inputs.
RivalsSpec == SomeRival /\ [][Next]_vars

\* The owner of i1 pays it.  The other request has the same key, of the same
\* or of another business: a retry, or the key spent on another invoice or
\* another card.  Requests and b1's invoices are interchangeable, so one order
\* of two cards is enough.
OneKeyTwice ==
    /\ Init
    /\ req[r1].biz = b1 /\ req[r1].inv = i1
    /\ req[r2].biz = b2 => req[r2].inv = i1
    /\ \/ req[r1].tok = req[r2].tok
       \/ req[r1].tok = "tok_success" /\ req[r2].tok = "tok_card_declined"

\* FairSpec from those inputs.
OneKeyFairSpec == OneKeyTwice /\ [][Next]_vars /\ Fairness
=============================================================================
