---------------------------- MODULE Notification -----------------------------
(***************************************************************************)
(* From the payment to the merchant's endpoint: PaymentLedger, which the   *)
(* payment path implements, feeds OutboxDispatcher.  An event is named by  *)
(* its attempt: an attempt is settled once, so it has one event.           *)
(***************************************************************************)
EXTENDS OutboxInvariant

CONSTANT Invoices

VARIABLES invoiceOf, attStatus, paid, announced

Ledger == INSTANCE PaymentLedger WITH Attempts <- Events, status <- attStatus

ledgerVars == <<invoiceOf, attStatus, paid, announced>>
allVars == <<vars, ledgerVars>>

NotificationInit == Init /\ Ledger!Init

\* createPendingAttempt.
OpenAttempt(a) == Ledger!Open(a) /\ UNCHANGED vars

\* Mutant of SettleAndAnnounce: the event is left to a later statement, which
\* may not come.
SettleThenAnnounce(a) ==
    /\ Ledger!Succeed(a)
    /\ Create(a) \/ UNCHANGED vars

\* persistSuccess: the attempt, the invoice and the event in one commit.
SettleAndAnnounce(a) == Ledger!Succeed(a) /\ Create(a)

\* persistFailure's UPDATE ...
DeclineAttempt(a) == Ledger!Decline(a) /\ UNCHANGED vars

\* Mutant of AnnounceFailure: the attempt need not be settled.
AnnounceEarly(a) ==
    /\ attStatus[a] \in {"PENDING", "FAILED"}
    /\ Create(a)
    /\ UNCHANGED ledgerVars

\* ... and its INSERT, which may never happen.
AnnounceFailure(a) ==
    /\ attStatus[a] = "FAILED"
    /\ Create(a)
    /\ UNCHANGED ledgerVars

Pay(a) ==
    \/ OpenAttempt(a) \/ SettleAndAnnounce(a)
    \/ DeclineAttempt(a) \/ AnnounceFailure(a)

\* What OutboxDispatcher does besides, with the rows there are.
Dispatch ==
    /\ \/ \E e \in Events : BecomeDue(e)
       \/ \E b \in Businesses : SetEndpoint(b) \/ \E e \in Events : Redeliver(b, e)
       \/ \E w \in Workers : Claim(w) \/ Deliver(w) \/ MarkLost(w) \/ Crash(w)
    /\ UNCHANGED ledgerVars

NotificationNext == (\E a \in Events : Pay(a)) \/ Dispatch

NotificationSpec ==
    /\ NotificationInit /\ [][NotificationNext]_allVars
    /\ Fairness

-----------------------------------------------------------------------------
(* Properties                                                              *)

\* A merchant hears of one success per invoice at most, redeliveries and
\* overlapping workers included, and only of an invoice that is paid: what
\* it accepts is settled for good.
OneSuccessPerInvoice ==
    \A e, f \in Events :
        /\ accepted[e] => attStatus[e] \in {"SUCCEEDED", "FAILED"}
        /\ accepted[e] /\ attStatus[e] = "SUCCEEDED" => invoiceOf[e] \in paid
        /\ /\ accepted[e] /\ attStatus[e] = "SUCCEEDED"
           /\ accepted[f] /\ attStatus[f] = "SUCCEEDED"
           /\ invoiceOf[e] = invoiceOf[f]
           => e = f

\* The payment of an invoice reaches its merchant, or its budget of tries is
\* spent on it: unless a worker crashes or loses an update.
PaymentIsAnnounced ==
    \A i \in Invoices :
        i \in paid ~> \/ \E e \in Events : /\ invoiceOf[e] = i
                                           /\ attStatus[e] = "SUCCEEDED"
                                           /\ accepted[e] \/ tries[e] >= MaxAttempts
                      \/ faults > 0

-----------------------------------------------------------------------------
(* The inductive invariant                                                 *)

LedgerTypeOK ==
    /\ invoiceOf \in [Events -> Invoices]
    /\ attStatus \in [Events -> {"NONE", "PENDING", "SUCCEEDED", "FAILED"}]
    /\ paid \in SUBSET Invoices
    /\ announced \in SUBSET Events

\* What PaymentLedger keeps by itself: one attempt at most is pending or has
\* succeeded on an invoice, which is paid in the second case only.
LedgerInv ==
    /\ \A a \in Events : attStatus[a] = "SUCCEEDED" => invoiceOf[a] \in paid
    /\ \A a \in Events : attStatus[a] = "PENDING" => invoiceOf[a] \notin paid
    /\ \A a, b \in Events :
          /\ attStatus[a] \in {"PENDING", "SUCCEEDED"} /\ attStatus[b] \in {"PENDING", "SUCCEEDED"}
          /\ invoiceOf[a] = invoiceOf[b]
          => a = b

\* An event is in the outbox only when its attempt is settled, and without
\* fail when it has succeeded; an answer came for an event of the outbox.
OutboxInv ==
    \A e \in Events :
        /\ status[e] # "NONE" => attStatus[e] \in {"SUCCEEDED", "FAILED"}
        /\ attStatus[e] = "SUCCEEDED" => status[e] # "NONE" /\ e \in announced
        /\ accepted[e] => status[e] # "NONE"

\* The inductive invariant of the composition.
NotifyInv == DispatchInv /\ LedgerTypeOK /\ LedgerInv /\ OutboxInv
=============================================================================
