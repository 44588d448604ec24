------------------------ MODULE PaymentGatewayProofs ------------------------
(***************************************************************************)
(* Proofs about PaymentGateway for every set of requests, invoices, keys   *)
(* and tokens and every bound.                                             *)
(***************************************************************************)
EXTENDS GatewayInvariant, TLAPS

USE OwnerAssumption, TokenAssumption, BoundAssumption, FlagAssumption, NameAssumption

-----------------------------------------------------------------------------
(* Types                                                                   *)

TypeInv == TypeOK /\ TriesInv

\* A delivery that has arrived is about an attempt.
LEMMA EventKnown ==
    ASSUME IInv, NEW d \in Deliveries, wpc[d] # "idle"
    PROVE  /\ d[1] \in Requests /\ d[2] \in 1 .. MaxWebhookTries
           /\ EventAttempt(d) \in Requests
           /\ EventAttempt(d) = att[d[1]]
           /\ call[d[1]] # "none"
           /\ entry[d[1]] \in {"succeeded", "failed"}
  BY DEF IInv, TypeOK, PSPTypeOK, SvcTypeOK, PSPInv, HookInv, CallInv, Deliveries, EventAttempt

\* payableInvoice lets exactly the drafts and the open invoices through.
LEMMA Payable ==
    ASSUME NEW s
    PROVE  /\ PayableInvoice(s) \in Errors \cup {"payable"}
           /\ PayableInvoice(s) = "payable" <=> s \in {"DRAFT", "OPEN"}
  BY DEF PayableInvoice, Errors

\* The steps of the pay handler keep the types.
LEMMA PayTypes ==
    ASSUME IInv, NEW r \in Requests, PayStep(r) \/ PayFail(r)
    PROVE  TypeInv'
  <1> USE DEF TypeInv, IInv, TypeOK, StoreTypeOK, SvcTypeOK, PSPTypeOK, HookTypeOK, TriesInv,
              storeVars, ledgerVars, pspVars, Answer, Goto, Rollback, ReleaseLocks,
              Steps, CreateSteps, ChargeSteps, Errors, AttemptStatuses
  <1>0. UNCHANGED <<req, pspVars, wpc>>
    BY DEF PayStep, PayFail
  <1>1. CASE LookupKey(r)
    BY <1>0, <1>1 DEF LookupKey, ReplayIdempotentPay, IdempotencyGetByKey
  <1>2. CASE LookupAgain(r)
    BY <1>0, <1>2 DEF LookupAgain, ReplayIdempotentPay, IdempotencyGetByKey
  <1>3. CASE LockInvoice(r)
    <2>1. req[r].inv \in Invoices
      BY DEF Params
    <2>2. PayableInvoice(invoiceStatus[req[r].inv]) # "payable"
             => PayableInvoice(invoiceStatus[req[r].inv]) \in Errors
      BY Payable
    <2>3. UNCHANGED <<att, ref, ledgerVars, webhookRow>>
      BY <1>3 DEF LockInvoice
    <2>4. rowLock' \in [Invoices -> Requests \cup Deliveries \cup {None}]
      BY <1>3, <2>1 DEF LockInvoice, GetByIDForUpdate
    <2>5. pc' \in [Requests -> Steps] /\ resp' \in [Requests -> AttemptStatuses \cup Errors]
      BY <1>3, <2>2 DEF LockInvoice
    <2> QED
      BY <1>0, <2>3, <2>4, <2>5
  <1>4. CASE InsertKey(r)
    BY <1>0, <1>4 DEF InsertKey
  <1>5. CASE CheckPending(r)
    BY <1>0, <1>5 DEF CheckPending
  <1>6. CASE InsertAttempt(r)
    BY <1>0, <1>6 DEF InsertAttempt, OpenDraft, InvoiceUpdateStatus, IdempotencyCreate,
                      AttemptCreate, InvoiceStatuses
  <1>a. pc[r] \in ChargeSteps => att[r] \in Requests
    BY DEF AttInv
  <1>7. CASE ChargeUnknown(r)
    BY <1>0, <1>7 DEF ChargeUnknown
  <1>8. CASE LockPaid(r)
    BY <1>0, <1>8 DEF LockPaid, PersistSuccessLock, GetByIDForUpdate
  <1>9. CASE SettleSuccess(r)
    BY <1>0, <1>a, <1>9 DEF SettleSuccess, PersistSuccessCommit, UpdateStatusIfPending,
          MarkPaidIfOpen, EnqueueOutboundEvent, SuccessOutcome, InvoiceStatuses, EventTypes
  <1>10. CASE SettleFailure(r)
    BY <1>0, <1>a, <1>10 DEF SettleFailure, PersistFailureUpdate, UpdateStatusIfPending
  <1>11. CASE EnqueueFailure(r)
    BY <1>0, <1>a, <1>11 DEF EnqueueFailure, PersistFailureEnqueue, EnqueueOutboundEvent, EventTypes
  <1>12. CASE Fail(r)
    BY <1>0, <1>12 DEF Fail
  <1> QED
    BY <1>1, <1>2, <1>3, <1>4, <1>5, <1>6, <1>7, <1>8, <1>9, <1>10, <1>11, <1>12
       DEF PayStep, PayFail

\* So do the PSP's steps, its calls and its webhook sender.
LEMMA PSPTypes ==
    ASSUME IInv, NEW c \in Requests,
           CallPSP(c) \/ PSPAnswers(c) \/ PSPStep(c) \/ SenderStep(c)
    PROVE  TypeInv'
  <1> USE DEF TypeInv, IInv, TypeOK, StoreTypeOK, SvcTypeOK, PSPTypeOK, HookTypeOK, TriesInv,
              storeVars, ledgerVars, svcVars, Answer, Goto,
              Steps, CreateSteps, ChargeSteps, Errors, AttemptStatuses,
              CallStates, EntryStates, NotifyStates, Resolved
  <1>1. CASE CallPSP(c)
    BY <1>1 DEF CallPSP, SendCharge, Charge
  <1>2. CASE PSPAnswers(c)
    <2>1. PICK outcome \in Resolved : Reply(c, outcome) /\ ChargeReturns(c, outcome, waitOn[c])
      BY <1>2 DEF PSPAnswers
    <2>2. UNCHANGED <<req, wpc, storeVars, callKey, waitOn, cache, entry, notify, tries, restarts, att>>
      BY <1>2, <2>1 DEF PSPAnswers, Reply, ChargeReturns
    <2>3. call' \in [Requests -> CallStates]
      BY <2>1 DEF Reply
    <2>4. pc' \in [Requests -> Steps] /\ resp' \in [Requests -> AttemptStatuses \cup Errors]
             /\ ref' \in [Requests -> Requests \cup {None}]
      BY <2>1 DEF ChargeReturns
    <2> QED
      BY <2>2, <2>3, <2>4
  <1>3. CASE PSPStep(c)
    <2>1. UNCHANGED <<req, storeVars, svcVars, wpc>>
      BY <1>3 DEF PSPStep
    <2>2. CASE HandleCharge(c)
      <3>1. callKey[c] \in Requests
        BY <2>2 DEF HandleCharge, PSPInv, CallInv
      <3> QED
        BY <2>1, <2>2, <3>1 DEF HandleCharge
    <2>3. CASE FinishCharge(c)
      <3>1. tries[c] < MaxWebhookTries
        BY <2>3 DEF FinishCharge, PSPInv, HookInv
      <3> QED
        BY <2>1, <2>3, <3>1 DEF FinishCharge
    <2>4. CASE FailUncached(c)
      BY <2>1, <2>4 DEF FailUncached
    <2> QED
      BY <1>3, <2>2, <2>3, <2>4 DEF PSPStep
  <1>4. CASE SenderStep(c)
    BY <1>4 DEF SenderStep, SendWebhook, WebhookAcked, WebhookTryFailed
  <1> QED
    BY <1>1, <1>2, <1>3, <1>4

\* So do the steps of the webhook handler.
LEMMA HookTypes ==
    ASSUME IInv, NEW d \in Deliveries, HookStep(d) \/ HookAbort(d)
    PROVE  TypeInv'
  <1> USE DEF TypeInv, IInv, TypeOK, StoreTypeOK, SvcTypeOK, PSPTypeOK, HookTypeOK, TriesInv,
              storeVars, ledgerVars, svcVars, pspVars, HookGoto, HookSteps, ReleaseLocks,
              AttemptStatuses, WebhookStatuses
  <1>0. /\ UNCHANGED <<req, svcVars, pspVars>>
        /\ d[1] \in Requests
        /\ wpc[d] # "idle" => EventAttempt(d) \in Requests
    BY EventKnown DEF HookStep, HookAbort, Deliveries
  <1>1. CASE ReceiveWebhook(d)
    BY <1>0, <1>1 DEF ReceiveWebhook, WebhookEventCreate
  <1>2. CASE ApplyWebhook(d)
    BY <1>0, <1>2 DEF ApplyWebhook
  <1>3. CASE HookLockPaid(d)
    BY <1>0, <1>3 DEF HookLockPaid, PersistSuccessLock, GetByIDForUpdate
  <1>4. CASE HookSettleSuccess(d)
    BY <1>0, <1>4 DEF HookSettleSuccess, PersistSuccessCommit, UpdateStatusIfPending,
          MarkPaidIfOpen, EnqueueOutboundEvent, InvoiceStatuses, EventTypes
  <1>5. CASE HookSettleFailure(d)
    BY <1>0, <1>5 DEF HookSettleFailure, PersistFailureUpdate, UpdateStatusIfPending
  <1>6. CASE HookEnqueueFailure(d)
    BY <1>0, <1>6 DEF HookEnqueueFailure, PersistFailureEnqueue, EnqueueOutboundEvent, EventTypes
  <1>7. CASE HookMarkProcessed(d)
    BY <1>0, <1>7 DEF HookMarkProcessed, MarkProcessed
  <1>8. CASE HookMarkFailed(d)
    BY <1>0, <1>8 DEF HookMarkFailed, WebhookMarkFailed
  <1>9. CASE HookApplyError(d)
    BY <1>0, <1>9 DEF HookApplyError
  <1>10. CASE HookFail(d)
    BY <1>0, <1>10 DEF HookFail
  <1>11. CASE HookRefuse(d)
    BY <1>0, <1>11 DEF HookRefuse
  <1> QED
    BY <1>1, <1>2, <1>3, <1>4, <1>5, <1>6, <1>7, <1>8, <1>9, <1>10, <1>11
       DEF HookStep, HookAbort
-----------------------------------------------------------------------------
(* Keys and the attempts in hand                                           *)

\* What the pay handler does keeps keys and attempts in step.
LEMMA PayKeys ==
    ASSUME IInv, NEW r \in Requests, PayStep(r) \/ PayFail(r)
    PROVE  KeyInv' /\ AttInv'
  <1> USE DEF IInv, TypeOK, StoreTypeOK, SvcTypeOK, KeyInv, AttInv, storeVars, ledgerVars,
              Answer, Goto, Rollback, BeforeInsert, KeyInserted, CreateSteps, ChargeSteps,
              SameKey, RequestHash
  <1>0. UNCHANGED req
    BY DEF PayStep, PayFail
  <1>a. ASSUME NEW o \in keyRows, SameKey(o, r), ReplayIdempotentPay(r, o), UNCHANGED storeVars
        PROVE  KeyInv' /\ AttInv'
    <2>1. /\ o \in Requests /\ attStatus[o] # "NONE"
          /\ UNCHANGED <<keyRows, attStatus>>
      BY <1>a
    <2>2. \E step \in {"done", "charge"} : pc' = [pc EXCEPT ![r] = step]
      BY <1>a DEF ReplayIdempotentPay
    <2>3. \/ UNCHANGED att /\ pc' = [pc EXCEPT ![r] = "done"]
          \/ RequestHash(o) = RequestHash(r) /\ att' = [att EXCEPT ![r] = o]
      BY <1>a DEF ReplayIdempotentPay
    <2>4. KeyInv'
      BY <1>0, <2>1, <2>2
    <2>5. AttInv'
      BY <1>0, <1>a, <2>1, <2>2, <2>3
    <2> QED
      BY <2>4, <2>5
  <1>b. ASSUME NEW step \in {"done", "lockInvoice", "insertKey", "lookupAgain"},
               UNCHANGED <<keyRows, attStatus, att>>, pc' = [pc EXCEPT ![r] = step],
               step # "done" => pc[r] \in BeforeInsert
        PROVE  KeyInv' /\ AttInv'
    <2>1. KeyInv'
      BY <1>0, <1>b
    <2>2. AttInv'
      BY <1>0, <1>b
    <2> QED
      BY <2>1, <2>2
  <1>1. CASE LookupKey(r)
    <2>1. CASE IdempotencyGetByKey(r) = {}
      BY <1>1, <1>b, <2>1 DEF LookupKey
    <2> QED
      BY <1>1, <1>a, <2>1 DEF LookupKey, IdempotencyGetByKey
  <1>2. CASE LookupAgain(r)
    BY <1>2, <1>a DEF LookupAgain, IdempotencyGetByKey
  <1>3. CASE LockInvoice(r)
    <2>1. /\ UNCHANGED <<keyRows, attStatus, att>> /\ pc[r] \in BeforeInsert
          /\ \E step \in {"done", "insertKey"} : pc' = [pc EXCEPT ![r] = step]
      BY <1>3 DEF LockInvoice
    <2> QED
      BY <1>b, <2>1
  <1>4. CASE InsertKey(r)
    <2>1. CASE IdempotencyGetByKey(r) = {}
      <3>1. /\ UNCHANGED <<keyRows, attStatus, att>> /\ pc[r] = "insertKey"
            /\ pc' = [pc EXCEPT ![r] = "checkPending"]
        BY <1>4, <2>1 DEF InsertKey
      <3>2. \A o \in keyRows : ~SameKey(o, r)
        BY <2>1 DEF IdempotencyGetByKey
      <3>3. \A s \in Requests \ {r} : pc[s] \in KeyInserted => ~SameKey(r, s) /\ ~SameKey(s, r)
        BY <1>4 DEF InsertKey, UncommittedKeys
      <3>4. KeyInv'
        BY <1>0, <3>1, <3>2, <3>3
      <3>5. AttInv'
        BY <1>0, <3>1
      <3> QED
        BY <3>4, <3>5
    <2>2. CASE IdempotencyGetByKey(r) # {}
      <3>1. /\ UNCHANGED <<keyRows, attStatus, att>> /\ pc[r] \in BeforeInsert
            /\ pc' = [pc EXCEPT ![r] = "lookupAgain"]
        BY <1>4, <2>2 DEF InsertKey
      <3> QED
        BY <1>b, <3>1
    <2> QED
      BY <2>1, <2>2
  <1>5. CASE CheckPending(r)
    BY <1>0, <1>5 DEF CheckPending
  <1>6. CASE InsertAttempt(r)
    <2>1. CASE ~PendingIndexAllows(r)
      <3>1. UNCHANGED <<keyRows, attStatus, att>> /\ pc' = [pc EXCEPT ![r] = "done"]
        BY <1>6, <2>1 DEF InsertAttempt
      <3> QED
        BY <1>b, <3>1
    <2>2. CASE PendingIndexAllows(r)
      <3>1. /\ pc[r] = "insertAttempt" /\ keyRows' = keyRows \cup {r}
            /\ attStatus' = [attStatus EXCEPT ![r] = "PENDING"]
            /\ att' = [att EXCEPT ![r] = r]
            /\ pc' = [pc EXCEPT ![r] = "charge"]
        BY <1>6, <2>2 DEF InsertAttempt, IdempotencyCreate, AttemptCreate
      <3>2. \A o \in keyRows : ~SameKey(o, r) /\ ~SameKey(r, o)
        BY <3>1
      <3>3. \A s \in Requests \ {r} : pc[s] \in KeyInserted => ~SameKey(r, s)
        BY <3>1
      <3>4. (\A x \in Requests : x \in keyRows <=> attStatus[x] # "NONE")'
        BY <3>1
      <3>5. (\A o, p \in keyRows : SameKey(o, p) => o = p)'
        BY <1>0, <3>1, <3>2
      <3>6. (\A x \in Requests : pc[x] \in BeforeInsert => attStatus[x] = "NONE")'
        BY <3>1
      <3>7. (\A x \in Requests : pc[x] \in KeyInserted => \A o \in keyRows : ~SameKey(o, x))'
        BY <1>0, <3>1, <3>3
      <3>8. (\A x, y \in Requests :
               pc[x] \in KeyInserted /\ pc[y] \in KeyInserted /\ SameKey(x, y) => x = y)'
        BY <1>0, <3>1
      <3>9. AttInv'
        BY <1>0, <3>1
      <3> QED
        BY <3>4, <3>5, <3>6, <3>7, <3>8, <3>9
    <2> QED
      BY <2>1, <2>2
  <1>7. CASE ChargeUnknown(r)
    BY <1>0, <1>7 DEF ChargeUnknown
  <1>8. CASE LockPaid(r)
    BY <1>0, <1>8 DEF LockPaid
  <1>9. CASE SettleSuccess(r)
    BY <1>0, <1>9 DEF SettleSuccess, PersistSuccessCommit, UpdateStatusIfPending
  <1>10. CASE SettleFailure(r)
    BY <1>0, <1>10 DEF SettleFailure, PersistFailureUpdate, UpdateStatusIfPending
  <1>11. CASE EnqueueFailure(r)
    BY <1>0, <1>11 DEF EnqueueFailure, PersistFailureEnqueue
  <1>12. CASE Fail(r)
    <2>1. UNCHANGED <<keyRows, attStatus, att>> /\ pc' = [pc EXCEPT ![r] = "done"]
      BY <1>12 DEF Fail
    <2> QED
      BY <1>b, <2>1
  <1> QED
    BY <1>1, <1>2, <1>3, <1>4, <1>5, <1>6, <1>7, <1>8, <1>9, <1>10, <1>11, <1>12
       DEF PayStep, PayFail

\* The PSP and the webhook handler at most settle an attempt.
LEMMA OtherKeys ==
    ASSUME IInv,
           \/ \E i \in Invoices : NewInvoice(i)
           \/ \E c \in Requests : CallPSP(c) \/ PSPAnswers(c) \/ PSPStep(c) \/ SenderStep(c)
           \/ PSPCrash
           \/ \E d \in Deliveries : HookStep(d) \/ HookAbort(d)
    PROVE  KeyInv' /\ AttInv'
  <1> USE DEF IInv, TypeOK, StoreTypeOK, SvcTypeOK, KeyInv, AttInv, storeVars, ledgerVars, svcVars,
              BeforeInsert, KeyInserted, CreateSteps, ChargeSteps, SameKey, RequestHash
  <1>1. CASE \/ \E i \in Invoices : NewInvoice(i)
             \/ \E c \in Requests : PSPStep(c) \/ SenderStep(c)
             \/ PSPCrash
    <2>1. UNCHANGED <<req, keyRows, attStatus, svcVars>>
      BY <1>1 DEF NewInvoice, PSPStep, SenderStep, PSPCrash
    <2> QED
      BY <2>1
  <1>2. ASSUME NEW c \in Requests, CallPSP(c)
        PROVE  KeyInv' /\ AttInv'
    BY <1>2 DEF CallPSP, SendCharge, Goto
  <1>3. ASSUME NEW c \in Requests, PSPAnswers(c)
        PROVE  KeyInv' /\ AttInv'
    <2>1. UNCHANGED <<req, storeVars, att>>
      BY <1>3 DEF PSPAnswers, ChargeReturns
    <2>2. \E step \in {"lockPaid", "fail", "done"} : pc' = [pc EXCEPT ![c] = step]
      BY <1>3 DEF PSPAnswers, ChargeReturns, Goto, Answer
    <2>3. pc[c] = "await"
      BY <1>3 DEF PSPAnswers, ChargeReturns
    <2> QED
      BY <2>1, <2>2, <2>3
  <1>4. ASSUME NEW d \in Deliveries, HookStep(d) \/ HookAbort(d)
        PROVE  KeyInv' /\ AttInv'
    <2>1. UNCHANGED <<req, svcVars>>
      BY <1>4 DEF HookStep, HookAbort
    <2>2. UNCHANGED keyRows
      BY <1>4 DEF HookStep, HookAbort, ReceiveWebhook, ApplyWebhook, HookLockPaid,
           HookSettleSuccess, HookSettleFailure, HookEnqueueFailure, HookMarkProcessed,
           HookMarkFailed, HookApplyError, HookRefuse, HookFail, PersistSuccessCommit,
           PersistFailureUpdate, PersistFailureEnqueue
    <2>3. \A a \in Requests : attStatus'[a] = "NONE" <=> attStatus[a] = "NONE"
      BY <1>4 DEF HookStep, HookAbort, ReceiveWebhook, ApplyWebhook, HookLockPaid,
           HookSettleSuccess, HookSettleFailure, HookEnqueueFailure, HookMarkProcessed,
           HookMarkFailed, HookApplyError, HookRefuse, HookFail, PersistSuccessCommit,
           PersistFailureUpdate, PersistFailureEnqueue, UpdateStatusIfPending
    <2> QED
      BY <2>1, <2>2, <2>3
  <1> QED
    BY <1>1, <1>2, <1>3, <1>4
-----------------------------------------------------------------------------
(* Row locks                                                               *)

\* The pay handler holds a lock from its SELECT ... FOR UPDATE to its end.
LEMMA PayLocks ==
    ASSUME IInv, NEW r \in Requests, PayStep(r) \/ PayFail(r)
    PROVE  LockInv'
  <1> USE DEF IInv, TypeOK, StoreTypeOK, SvcTypeOK, LockInv, storeVars, ledgerVars, pspVars,
              Answer, Goto, Rollback, ReleaseLocks, CreateSteps, EventAttempt
  <1>0. UNCHANGED <<req, callKey, wpc>>
    BY DEF PayStep, PayFail
  <1>1. CASE LookupKey(r)
    BY <1>0, <1>1 DEF LookupKey, ReplayIdempotentPay
  <1>2. CASE LookupAgain(r)
    BY <1>0, <1>2 DEF LookupAgain, ReplayIdempotentPay
  <1>3. CASE LockInvoice(r)
    BY <1>0, <1>3 DEF LockInvoice, GetByIDForUpdate
  <1>4. CASE InsertKey(r)
    BY <1>0, <1>4 DEF InsertKey
  <1>5. CASE CheckPending(r)
    BY <1>0, <1>5 DEF CheckPending
  <1>6. CASE InsertAttempt(r)
    BY <1>0, <1>6 DEF InsertAttempt
  <1>7. CASE ChargeUnknown(r)
    BY <1>0, <1>7 DEF ChargeUnknown
  <1>8. CASE LockPaid(r)
    BY <1>0, <1>8 DEF LockPaid, PersistSuccessLock, GetByIDForUpdate
  <1>9. CASE SettleSuccess(r)
    BY <1>0, <1>9 DEF SettleSuccess, PersistSuccessCommit
  <1>10. CASE SettleFailure(r)
    BY <1>0, <1>10 DEF SettleFailure, PersistFailureUpdate
  <1>11. CASE EnqueueFailure(r)
    BY <1>0, <1>11 DEF EnqueueFailure, PersistFailureEnqueue
  <1>12. CASE Fail(r)
    BY <1>0, <1>12 DEF Fail
  <1> QED
    BY <1>1, <1>2, <1>3, <1>4, <1>5, <1>6, <1>7, <1>8, <1>9, <1>10, <1>11, <1>12
       DEF PayStep, PayFail

\* The webhook handler holds one in persistSuccess only; the PSP holds none.
LEMMA OtherLocks ==
    ASSUME IInv,
           \/ \E i \in Invoices : NewInvoice(i)
           \/ \E c \in Requests : CallPSP(c) \/ PSPAnswers(c) \/ PSPStep(c) \/ SenderStep(c)
           \/ PSPCrash
           \/ \E d \in Deliveries : HookStep(d) \/ HookAbort(d)
    PROVE  LockInv'
  <1> USE DEF IInv, TypeOK, StoreTypeOK, SvcTypeOK, PSPTypeOK, HookTypeOK, LockInv,
              storeVars, ledgerVars, svcVars, pspVars, CreateSteps
  <1>1. CASE \/ \E i \in Invoices : NewInvoice(i)
             \/ \E c \in Requests : PSPStep(c) \/ SenderStep(c)
             \/ PSPCrash
    <2>1. UNCHANGED <<req, rowLock, svcVars, wpc, callKey>>
      BY <1>1 DEF NewInvoice, PSPStep, SenderStep, PSPCrash, HandleCharge, FinishCharge,
           FailUncached, SendWebhook, WebhookAcked, WebhookTryFailed, PSPRestart
    <2> QED
      BY <2>1 DEF EventAttempt
  <1>2. ASSUME NEW c \in Requests, CallPSP(c)
        PROVE  LockInv'
    <2>1. /\ UNCHANGED <<req, rowLock, att, wpc>>
          /\ pc' = [pc EXCEPT ![c] = "await"] /\ pc[c] = "charge"
          /\ callKey' = [callKey EXCEPT ![c] = att[c]] /\ call[c] = "none"
      BY <1>2 DEF CallPSP, SendCharge, Charge, Goto
    <2>2. \A d \in Deliveries : wpc[d] = "settle" => EventAttempt(d)' = EventAttempt(d)
      BY <2>1, EventKnown DEF EventAttempt
    <2> QED
      BY <2>1, <2>2
  <1>3. ASSUME NEW c \in Requests, PSPAnswers(c)
        PROVE  LockInv'
    <2>1. UNCHANGED <<req, rowLock, att, wpc, callKey>>
      BY <1>3 DEF PSPAnswers, ChargeReturns, Reply
    <2>2. \E step \in {"lockPaid", "fail", "done"} : pc' = [pc EXCEPT ![c] = step]
      BY <1>3 DEF PSPAnswers, ChargeReturns, Goto, Answer
    <2>3. pc[c] = "await"
      BY <1>3 DEF PSPAnswers, ChargeReturns
    <2> QED
      BY <2>1, <2>2, <2>3 DEF EventAttempt
  <1>4. ASSUME NEW d \in Deliveries, HookStep(d) \/ HookAbort(d)
        PROVE  LockInv'
    <2>0. UNCHANGED <<req, svcVars, callKey>>
      BY <1>4 DEF HookStep, HookAbort
    <2>1. CASE UNCHANGED rowLock /\ \E step : HookGoto(d, step) /\ step # "settle" /\ wpc[d] # "settle"
      BY <2>0, <2>1 DEF EventAttempt, HookGoto
    <2>2. CASE HookLockPaid(d)
      BY <2>0, <2>2 DEF HookLockPaid, PersistSuccessLock, GetByIDForUpdate, EventAttempt, HookGoto
    <2>3. CASE ReleaseLocks(d) /\ \E step : HookGoto(d, step) /\ step # "settle"
      BY <2>0, <2>3 DEF ReleaseLocks, EventAttempt, HookGoto
    <2> QED
      BY <1>4, <2>1, <2>2, <2>3 DEF HookStep, HookAbort, ReceiveWebhook, ApplyWebhook,
           HookSettleSuccess, HookSettleFailure, HookEnqueueFailure, HookMarkProcessed,
           HookMarkFailed, HookApplyError, HookRefuse, HookFail, PersistSuccessCommit,
           PersistFailureUpdate, PersistFailureEnqueue
  <1> QED
    BY <1>1, <1>2, <1>3, <1>4
-----------------------------------------------------------------------------
(* Invoices and attempts                                                   *)

\* persistSuccess, run by whoever holds the lock of the attempt's invoice,
\* keeps the ledger: nobody is creating an attempt for that invoice.
LEMMA SuccessLedger ==
    ASSUME IInv, NEW p, NEW psp, NEW a \in Requests, attStatus[a] # "NONE",
           PersistSuccessCommit(p, a, psp), UNCHANGED req,
           \A s \in Requests : pc'[s] \in CreateSteps => pc'[s] = pc[s] /\ req[s].inv # req[a].inv
    PROVE  InvoiceInv' /\ LedgerInv'
  <1> USE DEF IInv, TypeOK, StoreTypeOK, SvcTypeOK, Params
  <1>1. /\ attStatus' = [attStatus EXCEPT ![a] = IF @ = "PENDING" THEN "SUCCEEDED" ELSE @]
        /\ attStatus[a] \in {"PENDING", "SUCCEEDED"} =>
              /\ invoiceStatus' = [invoiceStatus EXCEPT ![req[a].inv] =
                                      IF @ \in {"DRAFT", "OPEN"} THEN "PAID" ELSE @]
              /\ outbox' = outbox \cup {<<a, "payment.succeeded">>}
        /\ attStatus[a] \notin {"PENDING", "SUCCEEDED"} => UNCHANGED <<invoiceStatus, outbox>>
    BY DEF PersistSuccessCommit, UpdateStatusIfPending, MarkPaidIfOpen, EnqueueOutboundEvent
  <1>2. req[a].inv \in Invoices /\ invoiceStatus[req[a].inv] \in {"OPEN", "PAID"}
    BY DEF InvoiceInv
  <1>3. InvoiceInv'
    BY <1>1, <1>2 DEF InvoiceInv
  <1>4. OneLiveAttempt'
    BY <1>1 DEF LedgerInv, OneLiveAttempt, Live
  <1>5. PaidIffSucceeded'
    <2>1. CASE attStatus[a] \in {"PENDING", "SUCCEEDED"}
      <3>1. attStatus'[a] = "SUCCEEDED" /\ invoiceStatus'[req[a].inv] = "PAID"
        BY <1>1, <1>2, <2>1
      <3>2. \A b \in Requests \ {a} : attStatus'[b] = attStatus[b]
        BY <1>1
      <3>3. \A i \in Invoices \ {req[a].inv} : invoiceStatus'[i] = invoiceStatus[i]
        BY <1>1, <2>1
      <3>4. ASSUME NEW i \in Invoices
            PROVE  invoiceStatus'[i] = "PAID"
                      <=> \E b \in Requests : attStatus'[b] = "SUCCEEDED" /\ req[b].inv = i
        <4>1. CASE i = req[a].inv
          BY <3>1, <4>1
        <4>2. CASE i # req[a].inv
          <5>1. invoiceStatus[i] = "PAID"
                   <=> \E b \in Requests : attStatus[b] = "SUCCEEDED" /\ req[b].inv = i
            BY DEF LedgerInv, PaidIffSucceeded
          <5> QED
            BY <3>2, <3>3, <4>2, <5>1
        <4> QED
          BY <4>1, <4>2
      <3> QED
        BY <3>4 DEF PaidIffSucceeded
    <2>2. CASE attStatus[a] \notin {"PENDING", "SUCCEEDED"}
      <3>1. UNCHANGED <<invoiceStatus, attStatus>>
        BY <1>1, <2>2
      <3> QED
        BY <3>1 DEF LedgerInv, PaidIffSucceeded
    <2> QED
      BY <2>1, <2>2
  <1>6. SucceededHasEvent'
    <2>1. CASE attStatus[a] \in {"PENDING", "SUCCEEDED"}
      <3>1. attStatus'[a] = "SUCCEEDED" /\ <<a, "payment.succeeded">> \in outbox'
        BY <1>1, <2>1
      <3>2. \A b \in Requests \ {a} : /\ attStatus'[b] = attStatus[b]
                                      /\ <<b, "payment.succeeded">> \in outbox'
                                           <=> <<b, "payment.succeeded">> \in outbox
        BY <1>1, <2>1
      <3> QED
        BY <3>1, <3>2 DEF LedgerInv, SucceededHasEvent
    <2>2. CASE attStatus[a] \notin {"PENDING", "SUCCEEDED"}
      <3>1. UNCHANGED <<outbox, attStatus>>
        BY <1>1, <2>2
      <3> QED
        BY <3>1 DEF LedgerInv, SucceededHasEvent
    <2> QED
      BY <2>1, <2>2
  <1>7. PendingIndexNeverFires'
    BY <1>1 DEF LedgerInv, PendingIndexNeverFires, PendingIndexAllows, GetPendingByInvoiceID,
          CreateSteps
  <1> QED
    BY <1>3, <1>4, <1>5, <1>6, <1>7 DEF LedgerInv

\* persistFailure's update needs no lock: it only makes a pending attempt
\* failed.
LEMMA FailureLedger ==
    ASSUME IInv, NEW a \in Requests, PersistFailureUpdate(a), UNCHANGED req,
           \A s \in Requests : pc'[s] \in CreateSteps => pc'[s] = pc[s]
    PROVE  InvoiceInv' /\ LedgerInv'
  <1> USE DEF IInv, TypeOK, StoreTypeOK, SvcTypeOK, Params
  <1>1. /\ attStatus' = [attStatus EXCEPT ![a] = IF @ = "PENDING" THEN "FAILED" ELSE @]
        /\ UNCHANGED <<invoiceStatus, outbox>>
    BY DEF PersistFailureUpdate, UpdateStatusIfPending
  <1>2. InvoiceInv'
    BY <1>1 DEF InvoiceInv
  <1>3. OneLiveAttempt' /\ PaidIffSucceeded' /\ SucceededHasEvent'
    BY <1>1 DEF LedgerInv, OneLiveAttempt, Live, PaidIffSucceeded, SucceededHasEvent
  <1>4. PendingIndexNeverFires'
    BY <1>1 DEF LedgerInv, PendingIndexNeverFires, PendingIndexAllows, GetPendingByInvoiceID,
          CreateSteps
  <1> QED
    BY <1>2, <1>3, <1>4 DEF LedgerInv

\* A step that leaves the ledger's tables alone and enters no step of
\* createPendingAttempt keeps it.
LEMMA IdleLedger ==
    ASSUME IInv, UNCHANGED <<req, invoiceStatus, attStatus>>,
           \A a \in Requests : <<a, "payment.succeeded">> \in outbox'
                               <=> <<a, "payment.succeeded">> \in outbox,
           \A s \in Requests : pc'[s] \in CreateSteps => pc'[s] = pc[s]
    PROVE  InvoiceInv' /\ LedgerInv'
  BY DEF IInv, InvoiceInv, LedgerInv, OneLiveAttempt, Live, PaidIffSucceeded, SucceededHasEvent,
         PendingIndexNeverFires, PendingIndexAllows, GetPendingByInvoiceID, CreateSteps

\* The pay handler keeps the ledger.  The one action that opens an attempt
\* finds the invoice unpaid and without a pending attempt.
LEMMA PayLedger ==
    ASSUME IInv, NEW r \in Requests, PayStep(r) \/ PayFail(r)
    PROVE  InvoiceInv' /\ LedgerInv'
  <1> USE DEF IInv, TypeOK, StoreTypeOK, SvcTypeOK
  <1>0. UNCHANGED req
    BY DEF PayStep, PayFail
  <1>1. CASE \/ LookupKey(r) \/ LookupAgain(r) \/ ChargeUnknown(r) \/ LockPaid(r)
             \/ EnqueueFailure(r) \/ Fail(r)
    <2>1. UNCHANGED <<invoiceStatus, attStatus>>
      BY <1>1 DEF LookupKey, LookupAgain, ChargeUnknown, LockPaid, EnqueueFailure, Fail,
           Rollback, PersistFailureEnqueue, storeVars, ledgerVars
    <2>2. \A a \in Requests : <<a, "payment.succeeded">> \in outbox'
                              <=> <<a, "payment.succeeded">> \in outbox
      BY <1>1 DEF LookupKey, LookupAgain, ChargeUnknown, LockPaid, EnqueueFailure, Fail,
           Rollback, PersistFailureEnqueue, EnqueueOutboundEvent, storeVars, ledgerVars
    <2>3. \E step \in Steps \ CreateSteps : pc' = [pc EXCEPT ![r] = step]
      BY <1>1 DEF LookupKey, LookupAgain, ChargeUnknown, LockPaid, EnqueueFailure, Fail,
           ReplayIdempotentPay, Answer, Goto, Steps, ChargeSteps, CreateSteps
    <2> QED
      BY <1>0, <2>1, <2>2, <2>3, IdleLedger
  <1>2. CASE LockInvoice(r)
    <2>1. UNCHANGED <<invoiceStatus, attStatus, outbox>> /\ req[r].inv \in Invoices
      BY <1>2 DEF LockInvoice, ledgerVars, Params
    <2>2. CASE pc' = [pc EXCEPT ![r] = "done"]
      BY <1>0, <2>1, <2>2, IdleLedger DEF CreateSteps
    <2>3. CASE /\ pc' = [pc EXCEPT ![r] = "insertKey"]
               /\ Owner[req[r].inv] = req[r].biz
               /\ PayableInvoice(invoiceStatus[req[r].inv]) = "payable"
      <3>1. InvoiceInv'
        BY <1>0, <2>1, <2>3, Payable DEF InvoiceInv, CreateSteps
      <3>2. LedgerInv'
        BY <1>0, <2>1, <2>3 DEF LedgerInv, OneLiveAttempt, Live, PaidIffSucceeded,
             SucceededHasEvent, PendingIndexNeverFires, PendingIndexAllows, GetPendingByInvoiceID
      <3> QED
        BY <3>1, <3>2
    <2> QED
      BY <1>2, <2>2, <2>3 DEF LockInvoice, Goto, Answer
  <1>3. CASE InsertKey(r)
    <2>1. UNCHANGED <<invoiceStatus, attStatus, outbox>> /\ pc[r] = "insertKey"
      BY <1>3 DEF InsertKey, Rollback, storeVars, ledgerVars
    <2>2. \E step \in {"checkPending", "lookupAgain"} : pc' = [pc EXCEPT ![r] = step]
      BY <1>3 DEF InsertKey, Goto
    <2> QED
      BY <1>0, <2>1, <2>2 DEF InvoiceInv, CreateSteps, LedgerInv, OneLiveAttempt, Live,
           PaidIffSucceeded, SucceededHasEvent, PendingIndexNeverFires, PendingIndexAllows,
           GetPendingByInvoiceID
  <1>4. CASE CheckPending(r)
    <2>1. UNCHANGED <<invoiceStatus, attStatus, outbox>> /\ pc[r] = "checkPending"
      BY <1>4 DEF CheckPending, Rollback, storeVars, ledgerVars
    <2>2. \/ pc' = [pc EXCEPT ![r] = "insertAttempt"] /\ GetPendingByInvoiceID(req[r].inv) = {}
          \/ pc' = [pc EXCEPT ![r] = "done"]
      BY <1>4 DEF CheckPending, Goto, Answer
    <2>3. InvoiceInv'
      BY <1>0, <2>1, <2>2 DEF InvoiceInv, CreateSteps
    <2> QED
      BY <1>0, <2>1, <2>2, <2>3 DEF LedgerInv, OneLiveAttempt, Live,
           PaidIffSucceeded, SucceededHasEvent, PendingIndexNeverFires, PendingIndexAllows,
           GetPendingByInvoiceID
  <1>5. CASE InsertAttempt(r)
    <2>1. /\ pc[r] = "insertAttempt" /\ PendingIndexAllows(r)
          /\ attStatus[r] = "NONE"
          /\ req[r].inv \in Invoices /\ rowLock[req[r].inv] = r
          /\ invoiceStatus[req[r].inv] \in {"DRAFT", "OPEN"}
          /\ Owner[req[r].inv] = req[r].biz
      BY <1>5 DEF InsertAttempt, LedgerInv, PendingIndexNeverFires, KeyInv, BeforeInsert,
           CreateSteps, LockInv, InvoiceInv, Params
    <2>2. /\ invoiceStatus' = [invoiceStatus EXCEPT ![req[r].inv] = "OPEN"]
          /\ attStatus' = [attStatus EXCEPT ![r] = "PENDING"]
          /\ pc' = [pc EXCEPT ![r] = "charge"]
          /\ UNCHANGED outbox
      BY <1>5, <2>1 DEF InsertAttempt, OpenDraft, InvoiceUpdateStatus, AttemptCreate, Goto
    <2>3. \A a \in Requests : req[a].inv = req[r].inv => ~Live(a)
      BY <2>1 DEF PendingIndexAllows, GetPendingByInvoiceID, LedgerInv, PaidIffSucceeded, Live
    <2>4. \A s \in Requests \ {r} : pc[s] \in CreateSteps => req[s].inv # req[r].inv
      BY <2>1 DEF LockInv
    <2>5. InvoiceInv'
      BY <1>0, <2>1, <2>2 DEF InvoiceInv, CreateSteps
    <2>6. OneLiveAttempt'
      BY <1>0, <2>2, <2>3 DEF LedgerInv, OneLiveAttempt, Live
    <2>7. PaidIffSucceeded'
      BY <1>0, <2>1, <2>2 DEF LedgerInv, PaidIffSucceeded
    <2>8. SucceededHasEvent'
      BY <1>0, <2>1, <2>2 DEF LedgerInv, SucceededHasEvent
    <2>9. PendingIndexNeverFires'
      BY <1>0, <2>2, <2>4 DEF LedgerInv, PendingIndexNeverFires, PendingIndexAllows,
           GetPendingByInvoiceID, CreateSteps
    <2> QED
      BY <2>5, <2>6, <2>7, <2>8, <2>9 DEF LedgerInv
  <1>6. CASE SettleSuccess(r)
    <2>1. /\ att[r] \in Requests /\ attStatus[att[r]] # "NONE"
          /\ rowLock[req[att[r]].inv] = r /\ req[att[r]].inv \in Invoices
      BY <1>6 DEF SettleSuccess, AttInv, ChargeSteps, LockInv, Params
    <2>2. \A s \in Requests : pc'[s] \in CreateSteps => pc'[s] = pc[s]
      BY <1>6 DEF SettleSuccess, Answer, CreateSteps
    <2>3. \A s \in Requests : pc[s] \in CreateSteps => req[s].inv # req[att[r]].inv
      BY <1>6, <2>1 DEF SettleSuccess, LockInv, CreateSteps
    <2> QED
      BY <1>0, <1>6, <2>1, <2>2, <2>3, SuccessLedger DEF SettleSuccess
  <1>7. CASE SettleFailure(r)
    <2>1. att[r] \in Requests
      BY <1>7 DEF SettleFailure, AttInv, ChargeSteps
    <2>2. \A s \in Requests : pc'[s] \in CreateSteps => pc'[s] = pc[s]
      BY <1>7 DEF SettleFailure, Answer, Goto, CreateSteps
    <2> QED
      BY <1>0, <1>7, <2>1, <2>2, FailureLedger DEF SettleFailure
  <1> QED
    BY <1>1, <1>2, <1>3, <1>4, <1>5, <1>6, <1>7 DEF PayStep, PayFail

\* So do a new invoice, the PSP and the webhook handler.
LEMMA OtherLedger ==
    ASSUME IInv,
           \/ \E i \in Invoices : NewInvoice(i)
           \/ \E c \in Requests : CallPSP(c) \/ PSPAnswers(c) \/ PSPStep(c) \/ SenderStep(c)
           \/ PSPCrash
           \/ \E d \in Deliveries : HookStep(d) \/ HookAbort(d)
    PROVE  InvoiceInv' /\ LedgerInv'
  <1> USE DEF IInv, TypeOK, StoreTypeOK, SvcTypeOK
  <1>1. ASSUME NEW i \in Invoices, NewInvoice(i)
        PROVE  InvoiceInv' /\ LedgerInv'
    <2>1. /\ invoiceStatus[i] = "NONE" /\ invoiceStatus' = [invoiceStatus EXCEPT ![i] = "DRAFT"]
          /\ UNCHANGED <<req, attStatus, outbox, pc>>
      BY <1>1 DEF NewInvoice, CreateInvoice, svcVars
    <2>2. InvoiceInv'
      BY <2>1 DEF InvoiceInv
    <2> QED
      BY <2>1, <2>2 DEF LedgerInv, OneLiveAttempt, Live, PaidIffSucceeded, SucceededHasEvent,
           PendingIndexNeverFires, PendingIndexAllows, GetPendingByInvoiceID
  <1>2. CASE (\E c \in Requests : PSPStep(c) \/ SenderStep(c)) \/ PSPCrash
    <2>1. UNCHANGED <<req, storeVars, svcVars>>
      BY <1>2 DEF PSPStep, SenderStep, PSPCrash
    <2> QED
      BY <2>1, IdleLedger DEF storeVars, svcVars
  <1>3. ASSUME NEW c \in Requests, CallPSP(c) \/ PSPAnswers(c)
        PROVE  InvoiceInv' /\ LedgerInv'
    <2>1. UNCHANGED <<req, storeVars>>
      BY <1>3 DEF CallPSP, SendCharge, PSPAnswers, ChargeReturns
    <2>2. \E step \in {"await", "lockPaid", "fail", "done"} : pc' = [pc EXCEPT ![c] = step]
      BY <1>3 DEF CallPSP, SendCharge, PSPAnswers, ChargeReturns, Goto, Answer
    <2> QED
      BY <2>1, <2>2, IdleLedger DEF storeVars, CreateSteps
  <1>4. ASSUME NEW d \in Deliveries, HookStep(d) \/ HookAbort(d)
        PROVE  InvoiceInv' /\ LedgerInv'
    <2>0. UNCHANGED <<req, pc>>
      BY <1>4 DEF HookStep, HookAbort, svcVars
    <2>1. CASE HookSettleSuccess(d)
      <3>1. /\ EventAttempt(d) \in Requests /\ attStatus[EventAttempt(d)] # "NONE"
            /\ rowLock[req[EventAttempt(d)].inv] = d /\ req[EventAttempt(d)].inv \in Invoices
        BY <2>1, EventKnown DEF HookSettleSuccess, LockInv, AttInv, Params, Deliveries
      <3>2. \A s \in Requests : pc[s] \in CreateSteps => req[s].inv # req[EventAttempt(d)].inv
        BY <3>1 DEF LockInv
      <3> QED
        BY <2>0, <2>1, <3>1, <3>2, SuccessLedger DEF HookSettleSuccess
    <2>2. CASE HookSettleFailure(d)
      <3>1. EventAttempt(d) \in Requests
        BY <2>2, EventKnown DEF HookSettleFailure
      <3> QED
        BY <2>0, <2>2, <3>1, FailureLedger DEF HookSettleFailure
    <2>3. CASE UNCHANGED <<invoiceStatus, attStatus, outbox>>
      BY <2>0, <2>3, IdleLedger
    <2>4. CASE HookEnqueueFailure(d)
      <3>1. UNCHANGED <<invoiceStatus, attStatus>>
        BY <2>4 DEF HookEnqueueFailure, PersistFailureEnqueue
      <3>2. outbox' = outbox \cup {<<EventAttempt(d), "payment.failed">>}
        BY <2>4 DEF HookEnqueueFailure, PersistFailureEnqueue, EnqueueOutboundEvent
      <3> QED
        BY <2>0, <3>1, <3>2, IdleLedger
    <2> QED
      BY <1>4, <2>1, <2>2, <2>3, <2>4 DEF HookStep, HookAbort, ReceiveWebhook, ApplyWebhook,
           HookLockPaid, HookMarkProcessed, HookMarkFailed, HookApplyError, HookRefuse, HookFail,
           storeVars, ledgerVars
  <1> QED
    BY <1>1, <1>2, <1>3, <1>4
-----------------------------------------------------------------------------
(* The PSP and its outcomes                                                *)

\* The pay handler records as failed only what no charge can contradict, and
\* as succeeded only with a charge of the attempt in hand.
LEMMA PayPSP ==
    ASSUME IInv, NEW r \in Requests, PayStep(r) \/ PayFail(r)
    PROVE  PSPInv'
  <1> USE DEF IInv, TypeOK, StoreTypeOK, SvcTypeOK, PSPTypeOK
  <1>0. UNCHANGED <<req, call, callKey, waitOn, cache, entry, notify, tries, restarts, wpc>>
    BY DEF PayStep, PayFail, pspVars
  <1>1. EntryInv' /\ HookInv'
    BY <1>0 DEF PSPInv, EntryInv, HookInv
  <1>3. CASE LookupKey(r) \/ LookupAgain(r)
    <2>1. UNCHANGED <<attStatus, attRef>> /\ pc[r] \in BeforeInsert
      BY <1>3 DEF LookupKey, LookupAgain, storeVars, BeforeInsert
    <2>2. /\ \E step \in {"lockInvoice", "charge", "done"} : pc' = [pc EXCEPT ![r] = step]
          /\ \A s \in Requests \ {r} : att'[s] = att[s] /\ ref'[s] = ref[s]
      BY <1>3 DEF LookupKey, LookupAgain, ReplayIdempotentPay, Goto, Answer
    <2>3. CallInv'
      BY <1>0, <2>1, <2>2 DEF PSPInv, CallInv, BeforeInsert, CreateSteps
    <2>4. OutcomeInv' /\ RefIsTheCharge'
      BY <1>0, <2>1, <2>2 DEF PSPInv, OutcomeInv, RefIsTheCharge, ChargesOf
    <2> QED
      BY <1>1, <2>3, <2>4 DEF PSPInv
  <1>4. CASE InsertAttempt(r)
    <2>1. /\ pc[r] = "insertAttempt" /\ attStatus[r] = "NONE"
          /\ \E step \in {"charge", "done"} : pc' = [pc EXCEPT ![r] = step]
          /\ \A s \in Requests \ {r} : att'[s] = att[s]
          /\ UNCHANGED <<ref, attRef>>
          /\ attStatus' = attStatus \/ attStatus' = [attStatus EXCEPT ![r] = "PENDING"]
      BY <1>4 DEF InsertAttempt, AttemptCreate, Goto, Answer, Rollback, ledgerVars,
           KeyInv, BeforeInsert, CreateSteps
    <2>2. CallInv'
      BY <1>0, <2>1 DEF PSPInv, CallInv, BeforeInsert, CreateSteps
    <2>3. OutcomeInv' /\ RefIsTheCharge'
      BY <1>0, <2>1 DEF PSPInv, OutcomeInv, RefIsTheCharge, ChargesOf
    <2> QED
      BY <1>1, <2>2, <2>3 DEF PSPInv
  <1>5. CASE \/ LockInvoice(r) \/ InsertKey(r) \/ CheckPending(r) \/ ChargeUnknown(r)
             \/ EnqueueFailure(r) \/ Fail(r)
    <2>1. UNCHANGED <<attStatus, attRef, att, ref>>
      BY <1>5 DEF LockInvoice, InsertKey, CheckPending, ChargeUnknown, EnqueueFailure, Fail,
           Rollback, PersistFailureEnqueue, storeVars, ledgerVars
    <2>2. \/ pc' = [pc EXCEPT ![r] = "done"]
          \/ /\ pc[r] \in BeforeInsert
             /\ \E step \in {"insertKey", "checkPending", "lookupAgain", "insertAttempt"} :
                   pc' = [pc EXCEPT ![r] = step]
      BY <1>5 DEF LockInvoice, InsertKey, CheckPending, ChargeUnknown, EnqueueFailure, Fail,
           Goto, Answer, BeforeInsert, CreateSteps
    <2>3. CallInv'
      BY <1>0, <2>1, <2>2 DEF PSPInv, CallInv, BeforeInsert, CreateSteps
    <2>4. OutcomeInv' /\ RefIsTheCharge'
      BY <1>0, <2>1, <2>2 DEF PSPInv, OutcomeInv, RefIsTheCharge, ChargesOf
    <2> QED
      BY <1>1, <2>3, <2>4 DEF PSPInv
  <1>6. CASE LockPaid(r)
    <2>1. /\ UNCHANGED <<attStatus, attRef, att, ref>> /\ pc[r] = "lockPaid"
          /\ pc' = [pc EXCEPT ![r] = "settle"]
      BY <1>6 DEF LockPaid, Goto, ledgerVars
    <2>2. CallInv'
      BY <1>0, <2>1 DEF PSPInv, CallInv, BeforeInsert, CreateSteps
    <2>3. OutcomeInv' /\ RefIsTheCharge'
      BY <1>0, <2>1 DEF PSPInv, OutcomeInv, RefIsTheCharge, ChargesOf
    <2> QED
      BY <1>1, <2>2, <2>3 DEF PSPInv
  <1>7. CASE SettleSuccess(r)
    <2>1. /\ pc[r] = "settle" /\ UNCHANGED att
          /\ pc' = [pc EXCEPT ![r] = "done"]
          /\ \A s \in Requests \ {r} : ref'[s] = ref[s]
          /\ attStatus' = [attStatus EXCEPT ![att[r]] = IF @ = "PENDING" THEN "SUCCEEDED" ELSE @]
          /\ attRef' = [attRef EXCEPT ![att[r]] = IF attStatus[att[r]] = "PENDING" THEN ref[r] ELSE @]
      BY <1>7 DEF SettleSuccess, Answer, PersistSuccessCommit, UpdateStatusIfPending
    <2>2. att[r] \in Requests /\ ref[r] \in ChargesOf(att[r])
      BY <2>1 DEF PSPInv, OutcomeInv, AttInv, ChargeSteps
    <2>3. CallInv'
      BY <1>0, <2>1 DEF PSPInv, CallInv, BeforeInsert, CreateSteps
    <2>4. OutcomeInv' /\ RefIsTheCharge'
      BY <1>0, <2>1, <2>2 DEF PSPInv, OutcomeInv, RefIsTheCharge, ChargesOf
    <2> QED
      BY <1>1, <2>3, <2>4 DEF PSPInv
  <1>8. CASE SettleFailure(r)
    <2>1. /\ pc[r] = "fail" /\ UNCHANGED att
          /\ \E step \in {"enqueue", "done"} : pc' = [pc EXCEPT ![r] = step]
          /\ \A s \in Requests \ {r} : ref'[s] = ref[s]
          /\ attStatus' = [attStatus EXCEPT ![att[r]] = IF @ = "PENDING" THEN "FAILED" ELSE @]
          /\ attRef' = [attRef EXCEPT ![att[r]] = IF attStatus[att[r]] = "PENDING" THEN None ELSE @]
      BY <1>8 DEF SettleFailure, Goto, Answer, PersistFailureUpdate, UpdateStatusIfPending
    <2>2. att[r] \in Requests /\ req[att[r]].tok \notin ChargedTokens
      BY <2>1 DEF PSPInv, OutcomeInv, AttInv, ChargeSteps, RequestHash
    <2>3. CallInv'
      BY <1>0, <2>1 DEF PSPInv, CallInv, BeforeInsert, CreateSteps
    <2>4. OutcomeInv' /\ RefIsTheCharge'
      BY <1>0, <2>1, <2>2 DEF PSPInv, OutcomeInv, RefIsTheCharge, ChargesOf
    <2> QED
      BY <1>1, <2>3, <2>4 DEF PSPInv
  <1> QED
    BY <1>3, <1>4, <1>5, <1>6, <1>7, <1>8 DEF PayStep, PayFail

\* The webhook handler settles an attempt the way the PSP settled the charge
\* its event reports.
LEMMA HookPSP ==
    ASSUME IInv, NEW d \in Deliveries, HookStep(d) \/ HookAbort(d)
    PROVE  PSPInv'
  <1> USE DEF IInv, TypeOK, StoreTypeOK, SvcTypeOK, PSPTypeOK, HookTypeOK
  <1>0. UNCHANGED <<req, pc, att, ref, call, callKey, waitOn, cache, entry, notify, tries, restarts>>
    BY DEF HookStep, HookAbort, pspVars, svcVars
  <1>1. EntryInv' /\ CallInv'
    BY <1>0 DEF PSPInv, EntryInv, CallInv
  <1>3. d[1] \in Requests /\ d[2] \in 1 .. MaxWebhookTries
    BY DEF Deliveries
  <1>4. HookInv'
    <2>1. CASE ReceiveWebhook(d)
      <3>1. /\ tries[d[1]] > 0
            /\ \E step \in {"apply", "ok"} : wpc' = [wpc EXCEPT ![d] = step]
        BY <1>3, <2>1 DEF ReceiveWebhook, HookGoto
      <3> QED
        BY <1>0, <3>1 DEF PSPInv, HookInv
    <2>2. CASE ApplyWebhook(d)
      BY <1>0, <2>2 DEF ApplyWebhook, HookGoto, PSPInv, HookInv
    <2>3. CASE HookLockPaid(d)
      BY <1>0, <2>3 DEF HookLockPaid, HookGoto, PSPInv, HookInv
    <2>4. CASE HookSettleFailure(d)
      BY <1>0, <2>4 DEF HookSettleFailure, HookGoto, PSPInv, HookInv
    <2>5. CASE \/ HookSettleSuccess(d) \/ HookEnqueueFailure(d) \/ HookMarkProcessed(d)
               \/ HookMarkFailed(d) \/ HookApplyError(d) \/ HookFail(d)
      <3>1. /\ wpc[d] # "idle"
            /\ \E step \in {"processed", "ok", "failed", "error"} : wpc' = [wpc EXCEPT ![d] = step]
        BY <2>5 DEF HookSettleSuccess, HookEnqueueFailure, HookMarkProcessed, HookMarkFailed,
             HookApplyError, HookFail, HookGoto
      <3> QED
        BY <1>0, <3>1 DEF PSPInv, HookInv
    <2>6. CASE HookRefuse(d)
      <3>1. tries[d[1]] > 0 /\ wpc' = [wpc EXCEPT ![d] = "refused"]
        BY <1>3, <2>6 DEF HookRefuse, HookGoto
      <3> QED
        BY <1>0, <3>1 DEF PSPInv, HookInv
    <2> QED
      BY <2>1, <2>2, <2>3, <2>4, <2>5, <2>6 DEF HookStep, HookAbort
  <1>5. OutcomeInv' /\ RefIsTheCharge'
    <2>1. CASE UNCHANGED <<attStatus, attRef>>
      BY <1>0, <2>1 DEF PSPInv, OutcomeInv, RefIsTheCharge, ChargesOf
    <2>2. CASE HookSettleSuccess(d)
      <3>1. /\ attStatus' = [attStatus EXCEPT ![EventAttempt(d)] = IF @ = "PENDING" THEN "SUCCEEDED" ELSE @]
            /\ attRef' = [attRef EXCEPT ![EventAttempt(d)] =
                             IF attStatus[EventAttempt(d)] = "PENDING" THEN d[1] ELSE @]
        BY <2>2 DEF HookSettleSuccess, PersistSuccessCommit, UpdateStatusIfPending
      <3>2. EventAttempt(d) \in Requests /\ d[1] \in ChargesOf(EventAttempt(d))
        BY <1>3, <2>2, EventKnown DEF HookSettleSuccess, PSPInv, HookInv, ChargesOf, EventAttempt
      <3> QED
        BY <1>0, <3>1, <3>2 DEF PSPInv, OutcomeInv, RefIsTheCharge, ChargesOf
    <2>3. CASE HookSettleFailure(d)
      <3>1. /\ attStatus' = [attStatus EXCEPT ![EventAttempt(d)] = IF @ = "PENDING" THEN "FAILED" ELSE @]
            /\ attRef' = [attRef EXCEPT ![EventAttempt(d)] =
                             IF attStatus[EventAttempt(d)] = "PENDING" THEN None ELSE @]
        BY <2>3 DEF HookSettleFailure, PersistFailureUpdate, UpdateStatusIfPending
      <3>2. EventAttempt(d) \in Requests /\ EventAttempt(d) = att[d[1]] /\ entry[d[1]] = "failed"
        BY <2>3, EventKnown DEF HookSettleFailure, PSPInv, HookInv
      <3>3. req[EventAttempt(d)].tok \notin ChargedTokens
        BY <1>3, <3>2 DEF PSPInv, EntryInv, AttInv, RequestHash
      <3> QED
        BY <1>0, <3>1, <3>2, <3>3 DEF PSPInv, OutcomeInv, RefIsTheCharge, ChargesOf
    <2> QED
      BY <2>1, <2>2, <2>3 DEF HookStep, HookAbort, ReceiveWebhook, ApplyWebhook,
           HookLockPaid, HookEnqueueFailure, PersistFailureEnqueue, HookMarkProcessed,
           HookMarkFailed, HookApplyError, HookRefuse, HookFail, storeVars, ledgerVars
  <1> QED
    BY <1>1, <1>4, <1>5 DEF PSPInv

\* The handler's call and its answer.
LEMMA CallPSPInv ==
    ASSUME IInv, NEW c \in Requests, CallPSP(c) \/ PSPAnswers(c)
    PROVE  PSPInv'
  <1> USE DEF IInv, TypeOK, StoreTypeOK, SvcTypeOK, PSPTypeOK, HookTypeOK
  <1>1. CASE CallPSP(c)
    <2>1. /\ UNCHANGED <<req, attStatus, attRef, att, ref, wpc, waitOn, cache, entry, notify, tries, restarts>>
          /\ pc[c] = "charge" /\ pc' = [pc EXCEPT ![c] = "await"]
          /\ call[c] = "none" /\ call' = [call EXCEPT ![c] = "sent"]
          /\ callKey' = [callKey EXCEPT ![c] = att[c]]
      BY <1>1 DEF CallPSP, SendCharge, Charge, Goto, storeVars
    <2>2. att[c] \in Requests /\ entry[c] = "none" /\ waitOn[c] = None /\ callKey[c] = None
      BY <2>1 DEF AttInv, ChargeSteps, PSPInv, CallInv
    <2>3. CallInv'
      BY <2>1, <2>2 DEF PSPInv, CallInv, BeforeInsert, CreateSteps
    <2>4. EntryInv'
      BY <2>1, <2>2 DEF PSPInv, EntryInv
    <2>5. OutcomeInv' /\ RefIsTheCharge'
      BY <2>1, <2>2 DEF PSPInv, OutcomeInv, RefIsTheCharge, ChargesOf
    <2>6. HookInv'
      BY <2>1 DEF PSPInv, HookInv
    <2> QED
      BY <2>3, <2>4, <2>5, <2>6 DEF PSPInv
  <1>2. CASE PSPAnswers(c)
    <2>1. PICK outcome \in Resolved : Reply(c, outcome) /\ ChargeReturns(c, outcome, waitOn[c])
      BY <1>2 DEF PSPAnswers
    <2>2. /\ UNCHANGED <<req, attStatus, attRef, att, wpc, callKey, waitOn, cache, entry, notify, tries, restarts>>
          /\ call[c] = "open" /\ call' = [call EXCEPT ![c] = "closed"]
          /\ pc[c] = "await" /\ entry[waitOn[c]] = outcome
          /\ \/ outcome = "succeeded" /\ pc' = [pc EXCEPT ![c] = "lockPaid"]
                                      /\ ref' = [ref EXCEPT ![c] = waitOn[c]]
             \/ outcome \in {"failed", "rejected"} /\ pc' = [pc EXCEPT ![c] = "fail"] /\ ref' = ref
             \/ pc' = [pc EXCEPT ![c] = "done"] /\ ref' = ref
      BY <1>2, <2>1 DEF PSPAnswers, Reply, ChargeReturns, Goto, Answer, storeVars
    <2>3. /\ waitOn[c] \in Requests /\ callKey[waitOn[c]] = att[c]
          /\ callKey[waitOn[c]] = att[waitOn[c]] /\ att[c] \in Requests
      BY <2>2 DEF PSPInv, CallInv
    <2>4. outcome \in {"failed", "rejected"} => req[c].tok \notin ChargedTokens
      <3>1. req[att[c]].tok = req[c].tok
        BY <2>3 DEF AttInv, RequestHash
      <3>2. req[att[c]].tok = req[waitOn[c]].tok
        BY <2>3 DEF AttInv, RequestHash
      <3> QED
        BY <2>2, <2>3, <3>1, <3>2 DEF PSPInv, EntryInv
    <2>5. CallInv'
      BY <2>2 DEF PSPInv, CallInv, BeforeInsert, CreateSteps
    <2>6. EntryInv' /\ HookInv'
      BY <2>2 DEF PSPInv, EntryInv, HookInv
    <2>7. RefIsTheCharge'
      BY <2>2 DEF PSPInv, RefIsTheCharge, ChargesOf
    <2>8. (\A r \in Requests : pc[r] \in {"lockPaid", "settle"} =>
             ref[r] # None /\ ref[r] \in ChargesOf(att[r]))'
      <3> SUFFICES ASSUME NEW r \in Requests, pc'[r] \in {"lockPaid", "settle"}
                   PROVE  /\ ref'[r] # None /\ ref'[r] \in Requests
                          /\ entry[ref'[r]] = "succeeded" /\ callKey[ref'[r]] = att[r]
        BY <2>2 DEF ChargesOf
      <3>1. CASE r = c
        <4>1. outcome = "succeeded" /\ ref' = [ref EXCEPT ![c] = waitOn[c]]
          BY <2>2, <3>1
        <4>2. ref'[r] = waitOn[c]
          BY <3>1, <4>1
        <4> QED
          BY <2>2, <2>3, <3>1, <4>1, <4>2
      <3>2. CASE r # c
        BY <2>2, <3>2 DEF PSPInv, OutcomeInv, ChargesOf
      <3> QED
        BY <3>1, <3>2
    <2>9. (\A r \in Requests : pc[r] \in {"fail", "enqueue"} => req[r].tok \notin ChargedTokens)'
      BY <2>2, <2>4 DEF PSPInv, OutcomeInv
    <2>10. OutcomeInv'
      BY <2>2, <2>8, <2>9 DEF PSPInv, OutcomeInv
    <2> QED
      BY <2>5, <2>6, <2>7, <2>10 DEF PSPInv
  <1> QED
    BY <1>1, <1>2

\* The PSP's own steps: a key that is cached is not charged again, and what
\* is resolved stays resolved.
LEMMA PSPStepInv ==
    ASSUME IInv, NEW c \in Requests, PSPStep(c) \/ SenderStep(c)
    PROVE  PSPInv'
  <1> USE DEF IInv, TypeOK, StoreTypeOK, SvcTypeOK, PSPTypeOK, HookTypeOK
  <1>0. UNCHANGED <<req, attStatus, attRef, pc, att, ref, wpc, callKey>>
    BY DEF PSPStep, SenderStep, HandleCharge, FinishCharge, FailUncached, SendWebhook,
       WebhookAcked, WebhookTryFailed, storeVars, svcVars
  <1>1. CASE HandleCharge(c)
    <2>1. /\ call[c] = "sent" /\ callKey[c] \in Requests /\ entry[c] = "none"
          /\ call' = [call EXCEPT ![c] = "open"]
          /\ UNCHANGED <<notify, tries, restarts>>
      BY <1>1 DEF HandleCharge, PSPInv, CallInv
    <2>2. CASE cache[callKey[c]] = None
      <3>1. /\ cache' = [cache EXCEPT ![callKey[c]] = c]
            /\ entry' = [entry EXCEPT ![c] = "charging"]
            /\ waitOn' = [waitOn EXCEPT ![c] = c]
        BY <1>1, <2>2 DEF HandleCharge
      <3>2. CallInv'
        BY <1>0, <2>1, <3>1 DEF PSPInv, CallInv
      <3>3. EntryInv'
        BY <1>0, <2>1, <2>2, <3>1 DEF PSPInv, EntryInv, CallInv
      <3>4. OutcomeInv' /\ RefIsTheCharge' /\ HookInv'
        BY <1>0, <2>1, <3>1 DEF PSPInv, OutcomeInv, RefIsTheCharge, ChargesOf, HookInv
      <3> QED
        BY <3>2, <3>3, <3>4 DEF PSPInv
    <2>3. CASE cache[callKey[c]] # None
      <3>1. waitOn' = [waitOn EXCEPT ![c] = cache[callKey[c]]] /\ UNCHANGED <<cache, entry>>
        BY <1>1, <2>3 DEF HandleCharge
      <3>2. CallInv'
        BY <1>0, <2>1, <2>3, <3>1 DEF PSPInv, CallInv, EntryInv
      <3>3. EntryInv' /\ OutcomeInv' /\ RefIsTheCharge' /\ HookInv'
        BY <1>0, <2>1, <3>1 DEF PSPInv, EntryInv, OutcomeInv, RefIsTheCharge, ChargesOf, HookInv
      <3> QED
        BY <3>2, <3>3 DEF PSPInv
    <2> QED
      BY <2>2, <2>3
  <1>2. CASE FinishCharge(c)
    <2>1. /\ entry[c] = "charging" /\ UNCHANGED <<call, waitOn, cache, tries, restarts>>
          /\ \E n \in NotifyStates : notify' = [notify EXCEPT ![c] = n]
          /\ \/ req[c].tok \in ChargedTokens /\ entry' = [entry EXCEPT ![c] = "succeeded"]
             \/ req[c].tok \in DeclinedTokens /\ entry' = [entry EXCEPT ![c] = "failed"]
      BY <1>2 DEF FinishCharge, NotifyStates
    <2>2. req[c].tok \in DeclinedTokens => req[c].tok \notin ChargedTokens
      BY DEF DeclinedTokens, ChargedTokens
    <2>3. CallInv'
      BY <1>0, <2>1 DEF PSPInv, CallInv
    <2>4. EntryInv'
      BY <1>0, <2>1, <2>2 DEF PSPInv, EntryInv
    <2>5. OutcomeInv' /\ RefIsTheCharge'
      BY <1>0, <2>1 DEF PSPInv, OutcomeInv, RefIsTheCharge, ChargesOf
    <2>6. HookInv'
      BY <1>0, <2>1 DEF PSPInv, HookInv, Deliveries
    <2> QED
      BY <2>3, <2>4, <2>5, <2>6 DEF PSPInv
  <1>3. CASE FailUncached(c)
    <2>1. /\ entry[c] = "charging" /\ req[c].tok \in UncachedTokens
          /\ \E o \in {"error", "rejected"} : entry' = [entry EXCEPT ![c] = o]
          /\ cache' = [cache EXCEPT ![callKey[c]] = None]
          /\ UNCHANGED <<call, waitOn, notify, tries, restarts>>
      BY <1>3 DEF FailUncached
    <2>2. req[c].tok \notin ChargedTokens
      BY <2>1 DEF UncachedTokens, ChargedTokens
    <2>3. callKey[c] \in Requests
      BY <2>1 DEF PSPInv, CallInv
    <2>4. CallInv'
      BY <1>0, <2>1 DEF PSPInv, CallInv
    <2>5. EntryInv'
      BY <1>0, <2>1, <2>2, <2>3 DEF PSPInv, EntryInv
    <2>6. OutcomeInv' /\ RefIsTheCharge' /\ HookInv'
      BY <1>0, <2>1 DEF PSPInv, OutcomeInv, RefIsTheCharge, ChargesOf, HookInv, Deliveries
    <2> QED
      BY <2>4, <2>5, <2>6 DEF PSPInv
  <1>4. CASE SenderStep(c)
    <2>1. /\ UNCHANGED <<call, waitOn, cache, entry, restarts>>
          /\ notify[c] # "none"
          /\ \E n \in NotifyStates \ {"none"} : notify' = [notify EXCEPT ![c] = n]
          /\ UNCHANGED tries \/ tries' = [tries EXCEPT ![c] = @ + 1]
      BY <1>4 DEF SenderStep, SendWebhook, WebhookAcked, WebhookTryFailed, NotifyStates
    <2>2. CallInv' /\ EntryInv' /\ OutcomeInv' /\ RefIsTheCharge'
      BY <1>0, <2>1 DEF PSPInv, CallInv, EntryInv, OutcomeInv, RefIsTheCharge, ChargesOf
    <2>3. HookInv'
      BY <1>0, <2>1 DEF PSPInv, HookInv, Deliveries
    <2> QED
      BY <2>2, <2>3 DEF PSPInv
  <1> QED
    BY <1>1, <1>2, <1>3, <1>4 DEF PSPStep

\* A restart of the PSP forgets what it was doing and what it had cached; the
\* charges it made stay made.
LEMMA CrashInv ==
    ASSUME IInv, PSPCrash
    PROVE  TypeInv' /\ PSPInv'
  <1> USE DEF IInv, TypeOK, StoreTypeOK, SvcTypeOK, PSPTypeOK, HookTypeOK
  <1>1. /\ UNCHANGED <<req, storeVars, svcVars, wpc, callKey, waitOn, tries>>
        /\ restarts' = restarts + 1 /\ restarts < MaxPSPRestarts
        /\ cache' = [k \in Requests |-> None]
        /\ call' = [x \in Requests |-> IF call[x] = "open" THEN "closed" ELSE call[x]]
        /\ entry' = [x \in Requests |-> IF entry[x] = "charging" THEN "lost" ELSE entry[x]]
        /\ notify' = [x \in Requests |->
                        IF notify[x] \in {"due", "outstanding"} THEN "gaveUp" ELSE notify[x]]
    BY DEF PSPCrash, PSPRestart
  <1>2. TypeInv'
    BY <1>1 DEF TypeInv, TriesInv, storeVars, svcVars, CallStates, EntryStates, NotifyStates
  <1>3. CallInv'
    BY <1>1 DEF PSPInv, CallInv, svcVars
  <1>4. EntryInv'
    BY <1>1 DEF PSPInv, EntryInv
  <1>5. OutcomeInv' /\ RefIsTheCharge' /\ HookInv'
    BY <1>1 DEF PSPInv, OutcomeInv, RefIsTheCharge, ChargesOf, HookInv, Deliveries, storeVars, svcVars
  <1> QED
    BY <1>2, <1>3, <1>4, <1>5 DEF PSPInv
-----------------------------------------------------------------------------
(* The invariant and what follows from it                                  *)

\* Empty tables, no handler started, no call made: every part of IInv holds.
LEMMA InitIInv == Init => IInv
  <1> SUFFICES ASSUME Init PROVE IInv
    OBVIOUS
  <1> USE DEF Init, StoreInit, SvcInit, PSPInit, HookInit
  <1>1. TypeOK /\ TriesInv
    BY DEF TypeOK, StoreTypeOK, SvcTypeOK, PSPTypeOK, HookTypeOK, TriesInv, InvoiceStatuses,
       AttemptStatuses, WebhookStatuses, Steps, CallStates, EntryStates, NotifyStates, HookSteps
  <1>2. LockInv
    BY DEF LockInv, CreateSteps
  <1>3. KeyInv /\ AttInv
    BY DEF KeyInv, AttInv, KeyInserted, ChargeSteps
  <1>4. InvoiceInv /\ LedgerInv
    BY DEF InvoiceInv, CreateSteps, LedgerInv, OneLiveAttempt, Live, PaidIffSucceeded,
       SucceededHasEvent, PendingIndexNeverFires
  <1>5. PSPInv
    BY DEF PSPInv, CallInv, EntryInv, OutcomeInv, HookInv, RefIsTheCharge, Deliveries
  <1> QED
    BY <1>1, <1>2, <1>3, <1>4, <1>5 DEF IInv

\* A new invoice and a stuttering step change nothing else.
LEMMA QuietIInv ==
    ASSUME IInv, UNCHANGED vars \/ \E i \in Invoices : NewInvoice(i)
    PROVE  TypeOK' /\ TriesInv' /\ PSPInv'
  <1>1. /\ UNCHANGED <<req, rowLock, attStatus, attRef, keyRows, outbox, webhookRow, pc, att, ref,
                       resp, call, callKey, waitOn, cache, entry, notify, tries, restarts, wpc>>
        /\ UNCHANGED invoiceStatus
              \/ \E i \in Invoices : invoiceStatus' = [invoiceStatus EXCEPT ![i] = "DRAFT"]
    BY DEF vars, storeVars, svcVars, pspVars, NewInvoice, CreateInvoice
  <1>2. TypeOK' /\ TriesInv'
    BY <1>1 DEF IInv, TypeOK, StoreTypeOK, SvcTypeOK, PSPTypeOK, HookTypeOK, TriesInv,
       InvoiceStatuses
  <1>3. PSPInv'
    BY <1>1 DEF IInv, PSPInv, CallInv, EntryInv, OutcomeInv, HookInv, RefIsTheCharge, ChargesOf
  <1> QED
    BY <1>2, <1>3

\* IInv is inductive: each kind of step of the gateway preserves every part
\* of it, by the lemmas about that kind of step above.
LEMMA NextIInv == IInv /\ [Next]_vars => IInv'
  <1> SUFFICES ASSUME IInv, [Next]_vars PROVE IInv'
    OBVIOUS
  <1>1. CASE UNCHANGED vars
    <2>1. TypeOK' /\ TriesInv' /\ PSPInv'
      BY <1>1, QuietIInv
    <2>2. LockInv' /\ KeyInv' /\ AttInv' /\ InvoiceInv' /\ LedgerInv'
      BY <1>1 DEF vars, storeVars, svcVars, pspVars, IInv, LockInv, KeyInv, AttInv, InvoiceInv,
         LedgerInv, OneLiveAttempt, Live, PaidIffSucceeded, SucceededHasEvent, SameKey,
         RequestHash, PendingIndexNeverFires, PendingIndexAllows, GetPendingByInvoiceID,
         EventAttempt
    <2> QED
      BY <2>1, <2>2 DEF IInv
  <1>2. CASE \E i \in Invoices : NewInvoice(i)
    BY <1>2, QuietIInv, OtherKeys, OtherLocks, OtherLedger DEF IInv
  <1>3. CASE \E r \in Requests : PayStep(r) \/ PayFail(r)
    BY <1>3, PayTypes, PayKeys, PayLocks, PayLedger, PayPSP DEF IInv, TypeInv
  <1>4. CASE \E r \in Requests : CallPSP(r) \/ PSPAnswers(r)
    BY <1>4, PSPTypes, OtherKeys, OtherLocks, OtherLedger, CallPSPInv DEF IInv, TypeInv
  <1>5. CASE \E c \in Requests : PSPStep(c) \/ SenderStep(c)
    BY <1>5, PSPTypes, OtherKeys, OtherLocks, OtherLedger, PSPStepInv DEF IInv, TypeInv
  <1>6. CASE PSPCrash
    BY <1>6, CrashInv, OtherKeys, OtherLocks, OtherLedger DEF IInv, TypeInv
  <1>7. CASE \E d \in Deliveries : HookStep(d) \/ HookAbort(d)
    BY <1>7, HookTypes, OtherKeys, OtherLocks, OtherLedger, HookPSP DEF IInv, TypeInv
  <1> QED
    BY <1>1, <1>2, <1>3, <1>4, <1>5, <1>6, <1>7 DEF Next

\* IInv holds in every reachable state.
THEOREM Invariance == Spec => []IInv
  BY InitIInv, NextIInv, PTL DEF Spec

\* Every variable keeps its type.
THEOREM TypeCorrect == Spec => []TypeOK
  <1>1. IInv => TypeOK
    BY DEF IInv
  <1> QED
    BY <1>1, Invariance, PTL

\* An invoice never has two attempts that are pending or succeeded.
THEOREM OneLiveAttemptHolds == Spec => []OneLiveAttempt
  <1>1. IInv => OneLiveAttempt
    BY DEF IInv, LedgerInv
  <1> QED
    BY <1>1, Invariance, PTL

\* An invoice is PAID exactly when one of its attempts SUCCEEDED.
THEOREM PaidIffSucceededHolds == Spec => []PaidIffSucceeded
  <1>1. IInv => PaidIffSucceeded
    BY DEF IInv, LedgerInv
  <1> QED
    BY <1>1, Invariance, PTL

\* Every success is in the outbox, and nothing else is announced as one.
THEOREM SucceededHasEventHolds == Spec => []SucceededHasEvent
  <1>1. IInv => SucceededHasEvent
    BY DEF IInv, LedgerInv
  <1> QED
    BY <1>1, Invariance, PTL

\* The unique index on PENDING attempts never refuses an insert.
THEOREM PendingIndexNeverFiresHolds == Spec => []PendingIndexNeverFires
  <1>1. IInv => PendingIndexNeverFires
    BY DEF IInv, LedgerInv
  <1> QED
    BY <1>1, Invariance, PTL

\* The stored psp_transaction_id is a charge made for the attempt.
THEOREM RefIsTheChargeHolds == Spec => []RefIsTheCharge
  <1>1. IInv => RefIsTheCharge
    BY DEF IInv, PSPInv
  <1> QED
    BY <1>1, Invariance, PTL

\* An attempt recorded as FAILED has not been charged.
LEMMA FailedNotCharged == IInv => FailedNeverCharged
  <1> SUFFICES ASSUME IInv, NEW c \in Requests, entry[c] = "succeeded"
               PROVE  attStatus[callKey[c]] # "FAILED"
    BY DEF FailedNeverCharged
  <1>1. callKey[c] \in Requests /\ callKey[c] = att[c]
    BY DEF IInv, TypeOK, PSPTypeOK, PSPInv, CallInv
  <1>2. req[callKey[c]].tok \in ChargedTokens
    BY <1>1 DEF IInv, AttInv, RequestHash, PSPInv, EntryInv
  <1> QED
    BY <1>1, <1>2 DEF IInv, PSPInv, OutcomeInv

\* A FAILED attempt was not charged: its card token is one the PSP declines
\* or rejects (OutcomeInv), and the PSP charges an entry only for a token it
\* charges (EntryInv).
THEOREM FailedNeverChargedHolds == Spec => []FailedNeverCharged
  BY FailedNotCharged, Invariance, PTL
=============================================================================
