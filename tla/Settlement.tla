----------------------------- MODULE Settlement -----------------------------
(***************************************************************************)
(* persistSuccess and persistFailure: how the outcome of a charge reaches  *)
(* the tables.  The pay handler runs them on the PSP's reply and the       *)
(* webhook handler on the PSP's event, possibly at the same time.          *)
(***************************************************************************)
EXTENDS PaymentStore

\* persistSuccess begins its transaction by locking the attempt's invoice.
PersistSuccessLock(p, a) == GetByIDForUpdate(req[a].inv, p)

\* Mutant of PersistSuccessCommit: the event is left to be enqueued later.
PersistSuccessNoEvent(p, a, psp) ==
    /\ UpdateStatusIfPending(a, "SUCCEEDED", psp)
    /\ MarkPaidIfOpen(req[a].inv)
    /\ ReleaseLocks(p)
    /\ UNCHANGED <<keyRows, outbox>>

\* The rest of persistSuccess's transaction, up to its commit.  An attempt
\* settled by someone else is reread: a SUCCEEDED one is paid and announced
\* again (both idempotent), any other is left as it is.
PersistSuccessCommit(p, a, psp) ==
    /\ UpdateStatusIfPending(a, "SUCCEEDED", psp)
    /\ IF attStatus[a] \in {"PENDING", "SUCCEEDED"}
         THEN /\ MarkPaidIfOpen(req[a].inv)
              /\ EnqueueOutboundEvent(a, "payment.succeeded")
         ELSE UNCHANGED <<invoiceStatus, outbox>>
    /\ ReleaseLocks(p)
    /\ UNCHANGED keyRows

\* The status persistSuccess finds or leaves in the attempt's row.
SuccessOutcome(a) == IF attStatus[a] = "PENDING" THEN "SUCCEEDED" ELSE attStatus[a]

\* persistFailure's first statement.  It runs on the pool, not in a
\* transaction, so it is committed before the event is enqueued.
PersistFailureUpdate(a) ==
    /\ UpdateStatusIfPending(a, "FAILED", None)
    /\ UNCHANGED <<invoiceStatus, rowLock, keyRows, outbox>>

\* persistFailure's second statement, reached only if the first matched.
PersistFailureEnqueue(a) ==
    /\ EnqueueOutboundEvent(a, "payment.failed")
    /\ UNCHANGED <<invoiceStatus, rowLock, attStatus, attRef, keyRows>>
=============================================================================
