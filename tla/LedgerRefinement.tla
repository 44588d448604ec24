-------------------------- MODULE LedgerRefinement --------------------------
(***************************************************************************)
(* The payment path implements PaymentLedger: each step of a handler, of   *)
(* the PSP or of a webhook opens, settles or declines one attempt as the   *)
(* ledger allows, or is none of its business.                              *)
(***************************************************************************)
EXTENDS PaymentGatewayProofs

USE OwnerAssumption, TokenAssumption, BoundAssumption, FlagAssumption, NameAssumption

PaidInvoices == {i \in Invoices : invoiceStatus[i] = "PAID"}
Announced == {a \in Requests : <<a, "payment.succeeded">> \in outbox}

\* A step that does nothing the ledger shows.
Unseen ==
    /\ UNCHANGED <<attStatus, attRef>>
    /\ PaidInvoices' = PaidInvoices /\ Announced' = Announced

\* createPendingAttempt commits attempt a.
Opened(a) ==
    /\ attStatus[a] = "NONE"
    /\ req[a].inv \notin PaidInvoices
    /\ GetPendingByInvoiceID(req[a].inv) = {}
    /\ attStatus' = [attStatus EXCEPT ![a] = "PENDING"] /\ UNCHANGED attRef
    /\ PaidInvoices' = PaidInvoices /\ Announced' = Announced

\* persistSuccess commits attempt a, with a charge made for it.
Succeeded(a) ==
    /\ attStatus[a] = "PENDING"
    /\ attStatus' = [attStatus EXCEPT ![a] = "SUCCEEDED"]
    /\ \E psp \in ChargesOf(a) : attRef' = [attRef EXCEPT ![a] = psp]
    /\ PaidInvoices' = PaidInvoices \cup {req[a].inv}
    /\ Announced' = Announced \cup {a}

\* persistFailure's update finds attempt a pending.
Declined(a) ==
    /\ attStatus[a] = "PENDING" /\ req[a].tok \notin ChargedTokens
    /\ attStatus' = [attStatus EXCEPT ![a] = "FAILED"]
    /\ attRef' = [attRef EXCEPT ![a] = None]
    /\ PaidInvoices' = PaidInvoices /\ Announced' = Announced

LedgerChange == Unseen \/ \E a \in Requests : Opened(a) \/ Succeeded(a) \/ Declined(a)

-----------------------------------------------------------------------------
\* persistSuccess settles a pending attempt; run again it changes nothing.
LEMMA SuccessStep ==
    ASSUME IInv, NEW p, NEW a \in Requests, NEW psp \in ChargesOf(a), attStatus[a] # "NONE",
           PersistSuccessCommit(p, a, psp)
    PROVE  Succeeded(a) \/ Unseen
  <1> USE DEF IInv, TypeOK, StoreTypeOK, Params
  <1>1. /\ attStatus' = [attStatus EXCEPT ![a] = IF @ = "PENDING" THEN "SUCCEEDED" ELSE @]
        /\ attRef' = [attRef EXCEPT ![a] = IF attStatus[a] = "PENDING" THEN psp ELSE @]
        /\ attStatus[a] \in {"PENDING", "SUCCEEDED"} =>
              /\ invoiceStatus' = [invoiceStatus EXCEPT ![req[a].inv] =
                                      IF @ \in {"DRAFT", "OPEN"} THEN "PAID" ELSE @]
              /\ outbox' = outbox \cup {<<a, "payment.succeeded">>}
        /\ attStatus[a] \notin {"PENDING", "SUCCEEDED"} => UNCHANGED <<invoiceStatus, outbox>>
    BY DEF PersistSuccessCommit, UpdateStatusIfPending, MarkPaidIfOpen, EnqueueOutboundEvent
  <1>2. req[a].inv \in Invoices /\ invoiceStatus[req[a].inv] \in {"OPEN", "PAID"}
    BY DEF InvoiceInv
  <1>3. CASE attStatus[a] = "PENDING"
    <2>1. PaidInvoices' = PaidInvoices \cup {req[a].inv}
      BY <1>1, <1>2, <1>3 DEF PaidInvoices
    <2>2. Announced' = Announced \cup {a}
      BY <1>1, <1>3 DEF Announced
    <2> QED
      BY <1>1, <1>3, <2>1, <2>2 DEF Succeeded
  <1>4. CASE attStatus[a] = "SUCCEEDED"
    <2>1. invoiceStatus[req[a].inv] = "PAID" /\ <<a, "payment.succeeded">> \in outbox
      BY <1>2, <1>4 DEF LedgerInv, PaidIffSucceeded, SucceededHasEvent
    <2>2. UNCHANGED <<attStatus, attRef>>
      BY <1>1, <1>4
    <2>3. UNCHANGED invoiceStatus
      BY <1>1, <1>2, <1>4, <2>1
    <2>4. outbox' = outbox \cup {<<a, "payment.succeeded">>}
      BY <1>1, <1>4
    <2>5. Announced' = Announced
      BY <2>1, <2>4 DEF Announced
    <2> QED
      BY <2>2, <2>3, <2>5 DEF Unseen, PaidInvoices
  <1>5. CASE attStatus[a] = "FAILED"
    <2>1. UNCHANGED <<attStatus, attRef, invoiceStatus, outbox>>
      BY <1>1, <1>5
    <2> QED
      BY <2>1 DEF Unseen, PaidInvoices, Announced
  <1> QED
    BY <1>3, <1>4, <1>5 DEF AttemptStatuses

\* persistFailure's update declines a pending attempt or changes nothing.
LEMMA FailureStep ==
    ASSUME IInv, NEW a \in Requests, req[a].tok \notin ChargedTokens, PersistFailureUpdate(a)
    PROVE  Declined(a) \/ Unseen
  <1>1. /\ attStatus' = [attStatus EXCEPT ![a] = IF @ = "PENDING" THEN "FAILED" ELSE @]
        /\ attRef' = [attRef EXCEPT ![a] = IF attStatus[a] = "PENDING" THEN None ELSE @]
        /\ UNCHANGED <<invoiceStatus, outbox>>
    BY DEF PersistFailureUpdate, UpdateStatusIfPending
  <1>2. PaidInvoices' = PaidInvoices /\ Announced' = Announced
    BY <1>1 DEF PaidInvoices, Announced
  <1> QED
    BY <1>1, <1>2 DEF Declined, Unseen, IInv, TypeOK, StoreTypeOK

\* The pay handler.
LEMMA PayStepLedger ==
    ASSUME IInv, NEW r \in Requests, PayStep(r) \/ PayFail(r)
    PROVE  LedgerChange
  <1> USE DEF IInv, TypeOK, StoreTypeOK, SvcTypeOK
  <1>1. CASE \/ LookupKey(r) \/ LookupAgain(r) \/ LockInvoice(r) \/ InsertKey(r) \/ CheckPending(r)
             \/ ChargeUnknown(r) \/ LockPaid(r) \/ Fail(r)
    <2>1. UNCHANGED <<invoiceStatus, attStatus, attRef, outbox>>
      BY <1>1 DEF LookupKey, LookupAgain, LockInvoice, InsertKey, CheckPending, ChargeUnknown,
         LockPaid, Fail, Rollback, storeVars, ledgerVars
    <2> QED
      BY <2>1 DEF LedgerChange, Unseen, PaidInvoices, Announced
  <1>2. CASE InsertAttempt(r)
    <2>1. /\ PendingIndexAllows(r) /\ attStatus[r] = "NONE" /\ req[r].inv \in Invoices
          /\ invoiceStatus[req[r].inv] \in {"DRAFT", "OPEN"}
      BY <1>2 DEF InsertAttempt, LedgerInv, PendingIndexNeverFires, KeyInv, BeforeInsert,
         CreateSteps, InvoiceInv, Params
    <2>2. /\ invoiceStatus' = [invoiceStatus EXCEPT ![req[r].inv] = "OPEN"]
          /\ attStatus' = [attStatus EXCEPT ![r] = "PENDING"]
          /\ UNCHANGED <<attRef, outbox>>
      BY <1>2, <2>1 DEF InsertAttempt, OpenDraft, InvoiceUpdateStatus, AttemptCreate
    <2>3. PaidInvoices' = PaidInvoices /\ Announced' = Announced /\ req[r].inv \notin PaidInvoices
      BY <2>1, <2>2 DEF PaidInvoices, Announced
    <2> QED
      BY <2>1, <2>2, <2>3 DEF LedgerChange, Opened, PendingIndexAllows
  <1>3. CASE SettleSuccess(r)
    <2>1. att[r] \in Requests /\ attStatus[att[r]] # "NONE" /\ ref[r] \in ChargesOf(att[r])
      BY <1>3 DEF SettleSuccess, AttInv, ChargeSteps, PSPInv, OutcomeInv
    <2> QED
      BY <1>3, <2>1, SuccessStep DEF SettleSuccess, LedgerChange
  <1>4. CASE SettleFailure(r)
    <2>1. att[r] \in Requests /\ req[att[r]].tok \notin ChargedTokens
      BY <1>4 DEF SettleFailure, AttInv, ChargeSteps, PSPInv, OutcomeInv, RequestHash
    <2> QED
      BY <1>4, <2>1, FailureStep DEF SettleFailure, LedgerChange
  <1>5. CASE EnqueueFailure(r)
    <2>1. /\ UNCHANGED <<invoiceStatus, attStatus, attRef>>
          /\ outbox' = outbox \cup {<<att[r], "payment.failed">>}
      BY <1>5 DEF EnqueueFailure, PersistFailureEnqueue, EnqueueOutboundEvent
    <2> QED
      BY <2>1 DEF LedgerChange, Unseen, PaidInvoices, Announced
  <1> QED
    BY <1>1, <1>2, <1>3, <1>4, <1>5 DEF PayStep, PayFail

\* The webhook handler.
LEMMA HookStepLedger ==
    ASSUME IInv, NEW d \in Deliveries, HookStep(d) \/ HookAbort(d)
    PROVE  LedgerChange
  <1> USE DEF IInv, TypeOK, StoreTypeOK, SvcTypeOK
  <1>0. d[1] \in Requests
    BY DEF Deliveries
  <1>1. CASE \/ ReceiveWebhook(d) \/ ApplyWebhook(d) \/ HookLockPaid(d) \/ HookMarkProcessed(d)
             \/ HookMarkFailed(d) \/ HookApplyError(d) \/ HookRefuse(d) \/ HookFail(d)
    <2>1. UNCHANGED <<invoiceStatus, attStatus, attRef, outbox>>
      BY <1>1 DEF ReceiveWebhook, ApplyWebhook, HookLockPaid, HookMarkProcessed,
         HookMarkFailed, HookApplyError, HookRefuse, HookFail, storeVars, ledgerVars
    <2> QED
      BY <2>1 DEF LedgerChange, Unseen, PaidInvoices, Announced
  <1>2. CASE HookSettleSuccess(d)
    <2>1. /\ EventAttempt(d) \in Requests /\ attStatus[EventAttempt(d)] # "NONE"
          /\ d[1] \in ChargesOf(EventAttempt(d))
      BY <1>0, <1>2, EventKnown DEF HookSettleSuccess, AttInv, PSPInv, HookInv, ChargesOf, EventAttempt
    <2> QED
      BY <1>2, <2>1, SuccessStep DEF HookSettleSuccess, LedgerChange
  <1>3. CASE HookSettleFailure(d)
    <2>1. EventAttempt(d) \in Requests /\ EventAttempt(d) = att[d[1]] /\ entry[d[1]] = "failed"
      BY <1>3, EventKnown DEF HookSettleFailure, PSPInv, HookInv
    <2>2. req[EventAttempt(d)].tok \notin ChargedTokens
      BY <1>0, <2>1 DEF PSPInv, EntryInv, AttInv, RequestHash
    <2> QED
      BY <1>3, <2>1, <2>2, FailureStep DEF HookSettleFailure, LedgerChange
  <1>4. CASE HookEnqueueFailure(d)
    <2>1. /\ UNCHANGED <<invoiceStatus, attStatus, attRef>>
          /\ outbox' = outbox \cup {<<EventAttempt(d), "payment.failed">>}
      BY <1>4 DEF HookEnqueueFailure, PersistFailureEnqueue, EnqueueOutboundEvent
    <2> QED
      BY <2>1 DEF LedgerChange, Unseen, PaidInvoices, Announced
  <1> QED
    BY <1>1, <1>2, <1>3, <1>4 DEF HookStep, HookAbort

\* Every step of the gateway is one of the ledger's or is unseen there.
LEMMA LedgerStep ==
    ASSUME IInv, [Next]_vars
    PROVE  UNCHANGED req /\ LedgerChange
  <1>1. UNCHANGED req
    BY DEF Next, vars, NewInvoice, PayStep, PayFail, CallPSP, PSPAnswers, PSPStep, SenderStep,
       PSPCrash, HookStep, HookAbort
  <1>2. CASE UNCHANGED storeVars
    <2>1. UNCHANGED <<invoiceStatus, attStatus, attRef, outbox>>
      BY <1>2 DEF storeVars
    <2> QED
      BY <1>1, <2>1 DEF LedgerChange, Unseen, PaidInvoices, Announced
  <1>3. CASE UNCHANGED vars
    BY <1>2, <1>3 DEF vars
  <1>4. ASSUME NEW i \in Invoices, NewInvoice(i) PROVE LedgerChange
    <2>1. /\ invoiceStatus[i] = "NONE" /\ invoiceStatus' = [invoiceStatus EXCEPT ![i] = "DRAFT"]
          /\ UNCHANGED <<attStatus, attRef, outbox>>
      BY <1>4 DEF NewInvoice, CreateInvoice
    <2>2. PaidInvoices' = PaidInvoices
      BY <2>1 DEF PaidInvoices, IInv, TypeOK, StoreTypeOK
    <2> QED
      BY <2>1, <2>2 DEF LedgerChange, Unseen, Announced
  <1>5. ASSUME NEW c \in Requests, CallPSP(c) \/ PSPAnswers(c) \/ PSPStep(c) \/ SenderStep(c)
        PROVE  UNCHANGED storeVars
    BY <1>5 DEF CallPSP, SendCharge, PSPAnswers, ChargeReturns, PSPStep, SenderStep
  <1>6. CASE PSPCrash
    BY <1>2, <1>6 DEF PSPCrash
  <1> QED
    BY <1>1, <1>2, <1>3, <1>4, <1>5, <1>6, PayStepLedger, HookStepLedger DEF Next

-----------------------------------------------------------------------------
\* A settled attempt is final, its psp_transaction_id too, and a PAID invoice
\* stays PAID, whichever handler comes late.
THEOREM SettledIsFinalHolds == Spec => SettledIsFinal
  <1> DEFINE Final ==
        /\ \A a \in Requests : attStatus[a] \in {"SUCCEEDED", "FAILED"} =>
                                  attStatus'[a] = attStatus[a] /\ attRef'[a] = attRef[a]
        /\ \A i \in Invoices : invoiceStatus[i] = "PAID" => invoiceStatus'[i] = "PAID"
  <1>1. IInv /\ [Next]_vars => [Final]_vars
    <2> SUFFICES ASSUME IInv, [Next]_vars PROVE Final
      OBVIOUS
    <2>1. LedgerChange
      BY LedgerStep
    <2>2. \A a \in Requests : attStatus[a] \in {"SUCCEEDED", "FAILED"} =>
                                 attStatus'[a] = attStatus[a] /\ attRef'[a] = attRef[a]
      BY <2>1 DEF LedgerChange, Unseen, Opened, Succeeded, Declined, IInv, TypeOK, StoreTypeOK
    <2>3. PaidInvoices \subseteq PaidInvoices'
      BY <2>1 DEF LedgerChange, Unseen, Opened, Succeeded, Declined
    <2> QED
      BY <2>2, <2>3 DEF PaidInvoices
  <1> QED
    BY <1>1, Invariance, PTL DEF Spec, SettledIsFinal

\* The gateway implements PaymentLedger, for every number of requests,
\* invoices, keys, deliveries and PSP restarts.
THEOREM RefinesLedgerHolds == Spec => RefinesLedger
  <1>1. Init => Ledger!Init
    BY DEF Init, StoreInit, Ledger!Init, Params
  <1>2. IInv /\ [Next]_vars => [Ledger!Next]_(Ledger!ledger)
    <2> SUFFICES ASSUME IInv, [Next]_vars PROVE [Ledger!Next]_(Ledger!ledger)
      OBVIOUS
    <2>1. UNCHANGED req /\ LedgerChange
      BY LedgerStep
    <2>2. CASE Unseen
      BY <2>1, <2>2 DEF Unseen, Ledger!ledger, PaidInvoices, Announced
    <2>3. ASSUME NEW a \in Requests, Opened(a) PROVE Ledger!Open(a)
      BY <2>1, <2>3 DEF Opened, Ledger!Open, PaidInvoices, Announced, GetPendingByInvoiceID
    <2>4. ASSUME NEW a \in Requests, Succeeded(a) PROVE Ledger!Succeed(a)
      BY <2>1, <2>4 DEF Succeeded, Ledger!Succeed, PaidInvoices, Announced
    <2>5. ASSUME NEW a \in Requests, Declined(a) PROVE Ledger!Decline(a)
      BY <2>1, <2>5 DEF Declined, Ledger!Decline, PaidInvoices, Announced
    <2> QED
      BY <2>1, <2>2, <2>3, <2>4, <2>5 DEF LedgerChange, Ledger!Next
  <1> QED
    BY <1>1, <1>2, Invariance, PTL DEF Spec, RefinesLedger, Ledger!Spec
=============================================================================
