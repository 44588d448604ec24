--------------------------- MODULE PaymentService ---------------------------
(***************************************************************************)
(* PaymentService.PayInvoice, the handler of POST /invoices/{id}/pay: one  *)
(* process per request, one action per statement whose order other         *)
(* handlers can observe.  The PSP call itself belongs to MockPSP; here the *)
(* handler starts it and receives what Charge returns.                     *)
(*                                                                         *)
(* GetByKey and the GetByID that follows it are one action: a key row is   *)
(* committed together with its attempt and never changes, so reading both  *)
(* at the time of the second read gives the same answer.                   *)
(***************************************************************************)
EXTENDS Settlement

VARIABLES
    pc,    \* where request r's handler is
    att,   \* the attempt it works on
    ref,   \* the psp_ref it has in hand, answered as psp_transaction_id
    resp   \* what it answered: an attempt's status, or the error

svcVars == <<pc, att, ref, resp>>

CreateSteps == {"insertKey", "checkPending", "insertAttempt"}
ChargeSteps == {"charge", "await", "lockPaid", "settle", "fail", "enqueue"}
Steps == {"lookup", "lockInvoice", "lookupAgain", "done"} \cup CreateSteps \cup ChargeSteps

Errors == {"conflict", "inProgress", "alreadyPaid", "void", "uncollectible",
           "notOwned", "notFound", "error"}

SvcTypeOK ==
    /\ pc \in [Requests -> Steps]
    /\ att \in [Requests -> Requests \cup {None}]
    /\ ref \in [Requests -> Requests \cup {None}]
    /\ resp \in [Requests -> AttemptStatuses \cup Errors]

SvcInit ==
    /\ pc = [r \in Requests |-> "lookup"]
    /\ att = [r \in Requests |-> None]
    /\ ref = [r \in Requests |-> None]
    /\ resp = [r \in Requests |-> "NONE"]

Goto(r, step) == pc' = [pc EXCEPT ![r] = step] /\ UNCHANGED resp
Answer(r, a) == pc' = [pc EXCEPT ![r] = "done"] /\ resp' = [resp EXCEPT ![r] = a]

\* The transaction is over without having changed a table.
Rollback(r) == ReleaseLocks(r) /\ UNCHANGED <<ledgerVars, webhookRow>>

-----------------------------------------------------------------------------
\* Mutant of ReplayIdempotentPay: the request's hash is not compared.
ReplayAnyHash(r, o) ==
    /\ att' = [att EXCEPT ![r] = o]
    /\ IF attStatus[o] # "PENDING"
         THEN Answer(r, attStatus[o]) /\ ref' = [ref EXCEPT ![r] = attRef[o]]
         ELSE Goto(r, "charge") /\ UNCHANGED ref

\* replayIdempotentPay, once the key's row o is found.
ReplayIdempotentPay(r, o) ==
    \/ /\ RequestHash(o) # RequestHash(r)
       /\ Answer(r, "conflict")
       /\ UNCHANGED <<att, ref>>
    \/ /\ RequestHash(o) = RequestHash(r)
       /\ att' = [att EXCEPT ![r] = o]
       /\ IF attStatus[o] # "PENDING"
            THEN Answer(r, attStatus[o]) /\ ref' = [ref EXCEPT ![r] = attRef[o]]
            ELSE Goto(r, "charge") /\ UNCHANGED ref

\* PayInvoice's first read of the key, outside any transaction.
LookupKey(r) ==
    /\ pc[r] = "lookup"
    /\ \/ \E o \in IdempotencyGetByKey(r) : ReplayIdempotentPay(r, o)
       \/ /\ IdempotencyGetByKey(r) = {}
          /\ Goto(r, "lockInvoice")
          /\ UNCHANGED <<att, ref>>
    /\ UNCHANGED storeVars

\* The second read, after the insert of the key met 23505.
LookupAgain(r) ==
    /\ pc[r] = "lookupAgain"
    /\ \E o \in IdempotencyGetByKey(r) : ReplayIdempotentPay(r, o)
    /\ UNCHANGED storeVars

\* payableInvoice: the error a status is refused with, or "payable".
PayableInvoice(status) ==
    CASE status \in {"DRAFT", "OPEN"} -> "payable"
      [] status = "PAID" -> "alreadyPaid"
      [] status = "UNCOLLECTIBLE" -> "uncollectible"
      [] OTHER -> "void"

\* Mutant of LockInvoice: the invoice's business is not compared.
LockAnyInvoice(r) ==
    LET i == req[r].inv
    IN  /\ pc[r] = "lockInvoice"
        /\ \/ /\ invoiceStatus[i] = "NONE"
              /\ Answer(r, "notFound")
              /\ UNCHANGED rowLock
           \/ /\ invoiceStatus[i] # "NONE"
              /\ rowLock[i] = None
              /\ PayableInvoice(invoiceStatus[i]) # "payable"
              /\ Answer(r, PayableInvoice(invoiceStatus[i]))
              /\ UNCHANGED rowLock
           \/ /\ invoiceStatus[i] # "NONE"
              /\ PayableInvoice(invoiceStatus[i]) = "payable"
              /\ GetByIDForUpdate(i, r)
              /\ Goto(r, "insertKey")
        /\ UNCHANGED <<att, ref, ledgerVars, webhookRow>>

\* createPendingAttempt up to the payability check.  A refusal ends the
\* transaction, so its lock is never seen held.
LockInvoice(r) ==
    LET i == req[r].inv
    IN  /\ pc[r] = "lockInvoice"
        /\ \/ /\ invoiceStatus[i] = "NONE"
              /\ Answer(r, "notFound")
              /\ UNCHANGED rowLock
           \/ /\ invoiceStatus[i] # "NONE"
              /\ rowLock[i] = None
              /\ \/ Owner[i] # req[r].biz /\ Answer(r, "notOwned")
                 \/ /\ Owner[i] = req[r].biz
                    /\ PayableInvoice(invoiceStatus[i]) # "payable"
                    /\ Answer(r, PayableInvoice(invoiceStatus[i]))
              /\ UNCHANGED rowLock
           \/ /\ invoiceStatus[i] # "NONE"
              /\ Owner[i] = req[r].biz
              /\ PayableInvoice(invoiceStatus[i]) = "payable"
              /\ GetByIDForUpdate(i, r)
              /\ Goto(r, "insertKey")
        /\ UNCHANGED <<att, ref, ledgerVars, webhookRow>>

\* The key rows other transactions have inserted and not committed.
UncommittedKeys(r) ==
    {s \in Requests \ {r} : pc[s] \in {"checkPending", "insertAttempt"} /\ SameKey(r, s)}

\* Mutant of InsertKey: a lookup in place of the unique constraint.
InsertKeyUnchecked(r) ==
    /\ pc[r] = "insertKey"
    /\ \/ IdempotencyGetByKey(r) = {} /\ Goto(r, "checkPending") /\ UNCHANGED storeVars
       \/ IdempotencyGetByKey(r) # {} /\ Goto(r, "lookupAgain") /\ Rollback(r)
    /\ UNCHANGED <<att, ref>>

\* INSERT INTO idempotency_keys: waits for an uncommitted row of the same
\* key, fails with 23505 on a committed one.
InsertKey(r) ==
    /\ pc[r] = "insertKey"
    /\ UncommittedKeys(r) = {}
    /\ \/ IdempotencyGetByKey(r) = {} /\ Goto(r, "checkPending") /\ UNCHANGED storeVars
       \/ IdempotencyGetByKey(r) # {} /\ Goto(r, "lookupAgain") /\ Rollback(r)
    /\ UNCHANGED <<att, ref>>

\* Mutant of CheckPending: the index is relied on instead.
SkipPendingCheck(r) ==
    /\ pc[r] = "checkPending"
    /\ Goto(r, "insertAttempt")
    /\ UNCHANGED <<att, ref, storeVars>>

\* GetPendingByInvoiceID finds no pending attempt, or the transaction is
\* rolled back, its key row included.
CheckPending(r) ==
    /\ pc[r] = "checkPending"
    /\ \/ /\ GetPendingByInvoiceID(req[r].inv) = {}
          /\ Goto(r, "insertAttempt")
          /\ UNCHANGED storeVars
       \/ /\ GetPendingByInvoiceID(req[r].inv) # {}
          /\ Answer(r, "inProgress")
          /\ Rollback(r)
    /\ UNCHANGED <<att, ref>>

\* A DRAFT is opened; an invoice that is OPEN already is not written.
OpenDraft(i) ==
    IF invoiceStatus[i] = "DRAFT" THEN InvoiceUpdateStatus(i, "OPEN")
                                  ELSE UNCHANGED invoiceStatus

\* The insert of the attempt and the commit of everything the transaction
\* wrote: the invoice opened, the key, the attempt.
InsertAttempt(r) ==
    /\ pc[r] = "insertAttempt"
    /\ IF PendingIndexAllows(r)
         THEN /\ OpenDraft(req[r].inv)
              /\ IdempotencyCreate(r)
              /\ AttemptCreate(r)
              /\ ReleaseLocks(r)
              /\ att' = [att EXCEPT ![r] = r]
              /\ Goto(r, "charge")
              /\ UNCHANGED <<attRef, outbox, webhookRow>>
         ELSE /\ Answer(r, "inProgress")
              /\ Rollback(r)
              /\ UNCHANGED att
    /\ UNCHANGED ref

-----------------------------------------------------------------------------
\* chargeAndSettle calls the PSP with the attempt's id as idempotency key.
SendCharge(r) ==
    /\ pc[r] = "charge"
    /\ Goto(r, "await")
    /\ UNCHANGED <<att, ref, storeVars>>

\* Mutant of ChargeReturns: the call's own id is kept as the psp_ref.
ChargeReturnsOwnRef(r, outcome, psp) ==
    /\ pc[r] = "await"
    /\ \/ /\ outcome = "succeeded"
          /\ Goto(r, "lockPaid")
          /\ ref' = [ref EXCEPT ![r] = r]
       \/ /\ outcome \in {"failed", "rejected"}
          /\ Goto(r, "fail")
          /\ UNCHANGED ref
       \/ /\ outcome = "error"
          /\ Answer(r, "PENDING")
          /\ UNCHANGED ref
    /\ UNCHANGED <<att, storeVars>>

\* Charge returned: a success with its psp_ref, a decline or a 4xx answer
\* (both definite failures), or a 5xx answer (outcome unknown, the attempt
\* is answered as it was read).
ChargeReturns(r, outcome, psp) ==
    /\ pc[r] = "await"
    /\ \/ /\ outcome = "succeeded"
          /\ Goto(r, "lockPaid")
          /\ ref' = [ref EXCEPT ![r] = psp]
       \/ /\ outcome \in {"failed", "rejected"}
          /\ Goto(r, "fail")
          /\ UNCHANGED ref
       \/ /\ outcome = "error"
          /\ Answer(r, "PENDING")
          /\ UNCHANGED ref
    /\ UNCHANGED <<att, storeVars>>

\* The client's 2 s timeout, a connection error or the caller's own
\* disconnect: IsUnknownOutcome, the attempt is answered as it was read.
ChargeUnknown(r) ==
    /\ pc[r] = "await"
    /\ Answer(r, "PENDING")
    /\ UNCHANGED <<att, ref, storeVars>>

LockPaid(r) ==
    /\ pc[r] = "lockPaid"
    /\ PersistSuccessLock(r, att[r])
    /\ Goto(r, "settle")
    /\ UNCHANGED <<att, ref, ledgerVars, webhookRow>>

\* A SUCCEEDED attempt is answered with the psp_ref in hand; one settled
\* otherwise is answered as reread.
SettleSuccess(r) ==
    /\ pc[r] = "settle"
    /\ PersistSuccessCommit(r, att[r], ref[r])
    /\ Answer(r, SuccessOutcome(att[r]))
    /\ ref' = [ref EXCEPT ![r] = IF SuccessOutcome(att[r]) = "SUCCEEDED"
                                 THEN @ ELSE attRef[att[r]]]
    /\ UNCHANGED <<att, webhookRow>>

SettleFailure(r) ==
    /\ pc[r] = "fail"
    /\ PersistFailureUpdate(att[r])
    /\ IF attStatus[att[r]] = "PENDING"
         THEN Goto(r, "enqueue") /\ UNCHANGED ref
         ELSE Answer(r, attStatus[att[r]]) /\ ref' = [ref EXCEPT ![r] = attRef[att[r]]]
    /\ UNCHANGED <<att, webhookRow>>

EnqueueFailure(r) ==
    /\ pc[r] = "enqueue"
    /\ PersistFailureEnqueue(att[r])
    /\ Answer(r, "FAILED")
    /\ UNCHANGED <<att, ref, webhookRow>>

\* A database error, the merchant's disconnect (every statement runs under
\* the request's context) or a crash of the server: the transaction is
\* rolled back.  Any error of GetByIDForUpdate is answered as "not found".
Fail(r) ==
    /\ pc[r] # "done"
    /\ \/ Answer(r, "error")
       \/ pc[r] = "lockInvoice" /\ Answer(r, "notFound")
    /\ Rollback(r)
    /\ UNCHANGED <<att, ref>>
=============================================================================
