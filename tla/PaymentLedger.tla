--------------------------- MODULE PaymentLedger ----------------------------
(***************************************************************************)
(* What the payment path promises, without handlers, locks, keys, a PSP or *)
(* webhooks: an invoice has at most one attempt that may still take or has *)
(* taken the money, and in one step a success settles the attempt, pays    *)
(* the invoice and is announced.                                           *)
(***************************************************************************)
CONSTANTS Attempts, Invoices

VARIABLES
    invoiceOf,  \* the invoice an attempt is for
    status,     \* NONE until the attempt is opened
    paid,       \* the invoices that are paid
    announced   \* the successes written to the outbox

ledger == <<invoiceOf, status, paid, announced>>

Init ==
    /\ invoiceOf \in [Attempts -> Invoices]
    /\ status = [a \in Attempts |-> "NONE"]
    /\ paid = {}
    /\ announced = {}

\* A merchant starts to pay an invoice nobody else is paying.
Open(a) ==
    /\ status[a] = "NONE"
    /\ invoiceOf[a] \notin paid
    /\ \A b \in Attempts : invoiceOf[b] = invoiceOf[a] => status[b] # "PENDING"
    /\ status' = [status EXCEPT ![a] = "PENDING"]
    /\ UNCHANGED <<invoiceOf, paid, announced>>

Succeed(a) ==
    /\ status[a] = "PENDING"
    /\ status' = [status EXCEPT ![a] = "SUCCEEDED"]
    /\ paid' = paid \cup {invoiceOf[a]}
    /\ announced' = announced \cup {a}
    /\ UNCHANGED invoiceOf

Decline(a) ==
    /\ status[a] = "PENDING"
    /\ status' = [status EXCEPT ![a] = "FAILED"]
    /\ UNCHANGED <<invoiceOf, paid, announced>>

Next == \E a \in Attempts : Open(a) \/ Succeed(a) \/ Decline(a)

Spec == Init /\ [][Next]_ledger
=============================================================================
