--------------------------- MODULE PaymentGateway ---------------------------
(***************************************************************************)
(* The payment path as a whole: merchants' pay requests, the PSP they are  *)
(* charged through and the webhooks by which the PSP reports the charge,   *)
(* all over one set of tables.                                             *)
(***************************************************************************)
EXTENDS PaymentService, WebhookIntake, FiniteSets

vars == <<req, storeVars, svcVars, pspVars, wpc>>

Init == StoreInit /\ SvcInit /\ PSPInit /\ HookInit

-----------------------------------------------------------------------------
\* A merchant creates the invoice a request may name.
NewInvoice(i) ==
    /\ CreateInvoice(i)
    /\ UNCHANGED <<req, rowLock, attStatus, attRef, keyRows, outbox, webhookRow,
                   svcVars, pspVars, wpc>>

\* A step of the pay handler on the tables alone.
PayStep(r) ==
    /\ \/ LookupKey(r) \/ LookupAgain(r) \/ LockInvoice(r) \/ InsertKey(r)
       \/ CheckPending(r) \/ InsertAttempt(r) \/ ChargeUnknown(r) \/ LockPaid(r)
       \/ SettleSuccess(r) \/ SettleFailure(r) \/ EnqueueFailure(r)
    /\ UNCHANGED <<req, pspVars, wpc>>

PayFail(r) == Fail(r) /\ UNCHANGED <<req, pspVars, wpc>>

\* The handler's call leaves for the PSP.
CallPSP(r) == SendCharge(r) /\ Charge(r, att[r]) /\ UNCHANGED <<req, wpc>>

\* The PSP's answer arrives; psp_ref names the charge of the entry waited on.
PSPAnswers(r) ==
    /\ \E outcome \in Resolved :
          Reply(r, outcome) /\ ChargeReturns(r, outcome, waitOn[r])
    /\ UNCHANGED <<req, wpc>>

PSPStep(c) ==
    /\ HandleCharge(c) \/ FinishCharge(c) \/ FailUncached(c)
    /\ UNCHANGED <<req, storeVars, svcVars, wpc>>

PSPCrash == PSPRestart /\ UNCHANGED <<req, storeVars, svcVars, wpc>>

\* The webhook sender learns what became of its current try.
SenderStep(e) ==
    /\ \/ SendWebhook(e)
       \/ WebhookAcked(e) /\ wpc[<<e, tries[e]>>] \in {"ok", "refused"}
       \/ WebhookTryFailed(e)
    /\ UNCHANGED <<req, storeVars, svcVars, wpc>>

HookStep(d) ==
    /\ \/ ReceiveWebhook(d) \/ ApplyWebhook(d) \/ HookLockPaid(d)
       \/ HookSettleSuccess(d) \/ HookSettleFailure(d) \/ HookEnqueueFailure(d)
       \/ HookMarkProcessed(d) \/ HookMarkFailed(d)
    /\ UNCHANGED <<req, svcVars, pspVars>>

HookAbort(d) ==
    /\ HookRefuse(d) \/ HookApplyError(d) \/ HookFail(d)
    /\ UNCHANGED <<req, svcVars, pspVars>>

Next ==
    \/ \E i \in Invoices : NewInvoice(i)
    \/ \E r \in Requests : PayStep(r) \/ PayFail(r) \/ CallPSP(r) \/ PSPAnswers(r)
    \/ \E c \in Requests : PSPStep(c) \/ SenderStep(c)
    \/ PSPCrash
    \/ \E d \in Deliveries : HookStep(d) \/ HookAbort(d)

Spec == Init /\ [][Next]_vars

\* A handler that runs is not abandoned by the scheduler: Postgres grants its
\* locks, the HTTP client times out, the PSP finishes a charge it has begun
\* and its webhook goroutine goes through its tries.  Nothing obliges a
\* merchant to send a request, a call to arrive or a delivery to be received.
Fairness ==
    /\ \A r \in Requests : WF_vars((pc[r] # "lookup" /\ PayStep(r)) \/ CallPSP(r))
    /\ \A c \in Requests : WF_vars(entry[c] = "charging" /\ PSPStep(c))
    /\ \A e \in Requests : WF_vars(SenderStep(e))
    /\ \A d \in Deliveries : WF_vars(wpc[d] # "idle" /\ HookStep(d))

FairSpec == Spec /\ Fairness

-----------------------------------------------------------------------------
(* Properties                                                              *)

\* Every variable keeps the type its column, field or channel has.
TypeOK == StoreTypeOK /\ SvcTypeOK /\ PSPTypeOK /\ HookTypeOK

Live(a) == attStatus[a] \in {"PENDING", "SUCCEEDED"}

\* An invoice never has two attempts that are pending or succeeded, however
\* the pay handlers, their retries and the webhooks interleave: the promise
\* of createPendingAttempt's lock and checks.
OneLiveAttempt ==
    \A a, b \in Requests :
        Live(a) /\ Live(b) /\ req[a].inv = req[b].inv => a = b

\* An invoice is PAID exactly when one of its attempts SUCCEEDED: what
\* persistSuccess writes in one transaction is never seen by halves.
PaidIffSucceeded ==
    \A i \in Invoices :
        invoiceStatus[i] = "PAID"
            <=> \E a \in Requests : attStatus[a] = "SUCCEEDED" /\ req[a].inv = i

ChargesForInvoice(i) ==
    {c \in Requests : entry[c] = "succeeded" /\ req[callKey[c]].inv = i}

\* An attempt recorded as FAILED has not been charged and is not being: a
\* definite answer of the PSP is never contradicted by another.
FailedNeverCharged ==
    \A c \in Requests :
        entry[c] = "succeeded" => attStatus[callKey[c]] # "FAILED"

\* A success is announced: the outbox row is in the transaction that settles.
SucceededHasEvent ==
    \A a \in Requests :
        attStatus[a] = "SUCCEEDED" <=> <<a, "payment.succeeded">> \in outbox

\* The psp_transaction_id stored with a success is a charge the PSP made for
\* that very attempt.
RefIsTheCharge ==
    \A a \in Requests :
        attStatus[a] = "SUCCEEDED" => attRef[a] \in ChargesOf(a)

\* A merchant is told SUCCEEDED or FAILED only if that is what the tables
\* say and go on saying of an attempt for its own invoice and key.  The
\* psp_transaction_id it is shown is a charge the PSP made for that attempt,
\* and none if it FAILED.  It is the stored one as long as the PSP has not
\* restarted: after a restart an attempt can be charged twice, and then
\* persistSuccess puts the psp_ref in hand over the row it has reread.
AnswerMatchesRecord ==
    \A r \in Requests :
        resp[r] \in {"SUCCEEDED", "FAILED"} =>
            /\ attStatus[att[r]] = resp[r]
            /\ SameKey(att[r], r) /\ RequestHash(att[r]) = RequestHash(r)
            /\ resp[r] = "SUCCEEDED" => ref[r] \in ChargesOf(att[r])
            /\ resp[r] = "FAILED" => ref[r] = None
            /\ restarts = 0 => ref[r] = attRef[att[r]]

\* Nothing is created, charged or answered on an invoice of another business.
TenantIsolation ==
    \A r \in Requests :
        Owner[req[r].inv] # req[r].biz =>
            /\ attStatus[r] = "NONE" /\ call[r] = "none"
            /\ resp[r] \in {"NONE", "notFound", "notOwned", "conflict", "error"}

\* A business's key stands for one attempt, even when two requests spend it
\* on different invoices, whose locks do not keep them apart.
OneAttemptPerKey ==
    \A a, b \in Requests :
        attStatus[a] # "NONE" /\ attStatus[b] # "NONE" /\ SameKey(a, b) => a = b

\* The unique index on PENDING attempts is a safety net that is never
\* needed: under the invoice's lock the check before the insert suffices.
PendingIndexNeverFires ==
    \A r \in Requests : pc[r] = "insertAttempt" => PendingIndexAllows(r)

\* An event marked PROCESSED has done its work: its attempt is settled the
\* way the PSP settled the charge.  Reads that fail are excluded here.
ProcessedMeansSettled ==
    \A e \in Requests :
        webhookRow[e] = "PROCESSED" =>
            \/ entry[e] = "succeeded" /\ attStatus[callKey[e]] = "SUCCEEDED"
            \/ entry[e] = "failed" /\ attStatus[callKey[e]] = "FAILED"

\* A settled attempt is final, whichever handler comes late, and its
\* psp_transaction_id is never overwritten; a PAID invoice stays PAID.
SettledIsFinal ==
    [][ /\ \A a \in Requests : attStatus[a] \in {"SUCCEEDED", "FAILED"} =>
                                  attStatus'[a] = attStatus[a] /\ attRef'[a] = attRef[a]
        /\ \A i \in Invoices : invoiceStatus[i] = "PAID" => invoiceStatus'[i] = "PAID"
      ]_vars

\* A request whose handler has started is answered: no lock, key or PSP call
\* is waited for for ever.  A handler whose key another one has inserted for
\* another invoice waits for that transaction with its own invoice locked.
\* There are finitely many requests and none is undone, so all are answered
\* from some point on.
EveryRequestAnswered ==
    <>[](\A r \in Requests : pc[r] \in {"lookup", "done"})

\* A charge the PSP made is recorded in the end, unless the PSP has used up
\* its webhook tries or has taken the gateway's refusal of one for the last
\* word: no event that was answered with 200 is left without effect.
ChargeIsRecorded ==
    <>[](\A c \in Requests :
            entry[c] = "succeeded" =>
                \/ attStatus[callKey[c]] = "SUCCEEDED"
                \/ notify[c] = "gaveUp"
                \/ notify[c] = "acked" /\ wpc[<<c, tries[c]>>] = "refused")

\* Between them the PSP's lives charge an invoice at most once each: a
\* restart loses the cache, and nothing else makes a second charge possible.
ChargedOncePerPSPLife ==
    \A i \in Invoices : Cardinality(ChargesForInvoice(i)) <= restarts + 1

\* The ledger the tables stand for.
Ledger == INSTANCE PaymentLedger WITH
    Attempts <- Requests,
    invoiceOf <- [a \in Requests |-> req[a].inv],
    status <- attStatus,
    paid <- {i \in Invoices : invoiceStatus[i] = "PAID"},
    announced <- {a \in Requests : <<a, "payment.succeeded">> \in outbox}

\* All the handlers together do nothing to the tables but open, settle and
\* decline attempts as PaymentLedger allows it.
RefinesLedger == Ledger!Spec

-----------------------------------------------------------------------------
(* What the repository's documents say and the code does not keep          *)

\* DESIGN.md: events are written within the core payment transaction.  So a
\* FAILED attempt that no handler is still about to announce has its event.
FailedHasEvent ==
    \A a \in Requests :
        attStatus[a] = "FAILED" =>
            \/ <<a, "payment.failed">> \in outbox
            \/ \E r \in Requests : pc[r] = "enqueue" /\ att[r] = a
            \/ \E d \in Deliveries : wpc[d] = "enqueue" /\ EventAttempt(d) = a

\* DESIGN.md: a request that carries the original key of the successful
\* payment is given that payment's record, never "already paid".
OriginalKeyIsReplayed ==
    \A r \in Requests :
        resp[r] = "alreadyPaid" =>
            ~ \E o \in IdempotencyGetByKey(r) :
                 RequestHash(o) = RequestHash(r) /\ attStatus[o] = "SUCCEEDED"
=============================================================================
