------------------------ MODULE GatewayRecordProofs -------------------------
(***************************************************************************)
(* What merchants are told, what a PROCESSED event means and how often a   *)
(* card is charged over the PSP's lives: RecordInv is inductive next to    *)
(* IInv, and the remaining safety properties of PaymentGateway follow.     *)
(***************************************************************************)
EXTENDS LedgerRefinement, FiniteSetTheorems

USE OwnerAssumption, TokenAssumption, BoundAssumption, FlagAssumption, NameAssumption

\* A settled attempt and the psp_transaction_id stored with it stay.
Frozen ==
    \A a \in Requests : attStatus[a] \in {"SUCCEEDED", "FAILED"} =>
                           attStatus'[a] = attStatus[a] /\ attRef'[a] = attRef[a]

LEMMA SettledFrozen ==
    ASSUME IInv, [Next]_vars
    PROVE  Frozen /\ UNCHANGED req
  BY LedgerStep DEF Frozen, LedgerChange, Unseen, Opened, Succeeded, Declined, IInv, TypeOK,
     StoreTypeOK

\* The attempt a handler works on is for its own invoice, which is its
\* business's own.
LEMMA OwnAttempt ==
    ASSUME IInv, NEW r \in Requests, att[r] # None
    PROVE  /\ att[r] \in Requests /\ attStatus[att[r]] # "NONE"
           /\ req[att[r]].inv = req[r].inv /\ req[att[r]].tok = req[r].tok
           /\ Owner[req[r].inv] = req[r].biz
  <1>1. /\ att[r] \in Requests /\ attStatus[att[r]] # "NONE" /\ SameKey(att[r], r)
        /\ RequestHash(att[r]) = RequestHash(r)
    BY DEF IInv, TypeOK, SvcTypeOK, AttInv
  <1>2. Owner[req[att[r]].inv] = req[att[r]].biz
    BY <1>1 DEF IInv, InvoiceInv
  <1> QED
    BY <1>1, <1>2 DEF SameKey, RequestHash

\* A call that made or was declined a charge carries an attempt with its own
\* card token.
LEMMA ChargedAttempt ==
    ASSUME IInv, NEW c \in Requests, entry[c] # "none"
    PROVE  /\ callKey[c] \in Requests /\ attStatus[callKey[c]] # "NONE"
           /\ req[callKey[c]].tok = req[c].tok
  <1>1. callKey[c] # None /\ callKey[c] = att[c]
    BY DEF IInv, PSPInv, CallInv
  <1> QED
    BY <1>1, OwnAttempt

\* An attempt the PSP declined a charge for has not SUCCEEDED.
LEMMA DeclinedNotSucceeded ==
    ASSUME IInv, NEW c \in Requests, entry[c] = "failed"
    PROVE  attStatus[callKey[c]] # "SUCCEEDED"
  <1> SUFFICES ASSUME attStatus[callKey[c]] = "SUCCEEDED" PROVE FALSE
    OBVIOUS
  <1>1. callKey[c] \in Requests /\ req[callKey[c]].tok = req[c].tok
    BY ChargedAttempt
  <1>2. PICK e \in Requests : entry[e] = "succeeded" /\ callKey[e] = callKey[c]
    BY <1>1 DEF IInv, PSPInv, RefIsTheCharge, ChargesOf
  <1>3. req[callKey[e]].tok = req[e].tok
    BY <1>2, ChargedAttempt
  <1>4. req[e].tok \in ChargedTokens /\ req[c].tok \notin ChargedTokens
    BY <1>2 DEF IInv, PSPInv, EntryInv
  <1> QED
    BY <1>1, <1>2, <1>3, <1>4

\* The outcome of a charge and the attempt it was made for never change.
LEMMA OutcomeStays ==
    ASSUME IInv, [Next]_vars, NEW c \in Requests, entry[c] \in {"succeeded", "failed"}
    PROVE  UNCHANGED <<entry[c], callKey[c]>>
  <1> USE DEF IInv, TypeOK, PSPTypeOK
  <1>1. call[c] # "none"
    BY DEF PSPInv, CallInv
  <1>2. CASE UNCHANGED pspVars
    BY <1>2 DEF pspVars
  <1>3. ASSUME NEW r \in Requests, CallPSP(r) \/ PSPAnswers(r)
        PROVE  UNCHANGED <<entry[c], callKey[c]>>
    BY <1>1, <1>3 DEF CallPSP, Charge, PSPAnswers, Reply
  <1>4. ASSUME NEW e \in Requests, PSPStep(e) \/ SenderStep(e)
        PROVE  UNCHANGED <<entry[c], callKey[c]>>
    <2>1. call[e] = "sent" => entry[e] = "none"
      BY DEF PSPInv, CallInv
    <2> QED
      BY <1>4, <2>1 DEF PSPStep, HandleCharge, FinishCharge, FailUncached, SenderStep, SendWebhook,
         WebhookAcked, WebhookTryFailed
  <1>5. CASE PSPCrash
    BY <1>5 DEF PSPCrash, PSPRestart
  <1>6. CASE \/ UNCHANGED vars \/ \E i \in Invoices : NewInvoice(i)
             \/ \E r \in Requests : PayStep(r) \/ PayFail(r)
             \/ \E d \in Deliveries : HookStep(d) \/ HookAbort(d)
    BY <1>2, <1>6 DEF vars, NewInvoice, PayStep, PayFail, HookStep, HookAbort
  <1> QED
    BY <1>3, <1>4, <1>5, <1>6 DEF Next

-----------------------------------------------------------------------------
(* What merchants are told                                                 *)

\* The part of AnswerInv that is about the handler of request r.
AnswerInvOf(r) ==
    /\ resp[r] # "NONE" => pc[r] = "done"
    /\ pc[r] \in BeforeInsert \cup {"charge", "await", "fail", "enqueue"} => ref[r] = None
    /\ pc[r] = "enqueue" => attStatus[att[r]] = "FAILED"
    /\ resp[r] \in {"SUCCEEDED", "FAILED"} => att[r] # None
    /\ resp[r] \in OwnersAnswers => Owner[req[r].inv] = req[r].biz
    /\ resp[r] \in {"SUCCEEDED", "FAILED"} =>
          /\ attStatus[att[r]] = resp[r]
          /\ SameKey(att[r], r) /\ RequestHash(att[r]) = RequestHash(r)
          /\ resp[r] = "SUCCEEDED" => ref[r] \in ChargesOf(att[r])
          /\ resp[r] = "FAILED" => ref[r] = None
          /\ restarts = 0 => ref[r] = attRef[att[r]]

RefOnlyOfSuccess == \A a \in Requests : attStatus[a] # "SUCCEEDED" => attRef[a] = None

LEMMA AnswerParts == AnswerInv <=> RefOnlyOfSuccess /\ \A r \in Requests : AnswerInvOf(r)
  BY DEF AnswerInv, RefOnlyOfSuccess, AnswerInvOf, AnswerMatchesRecord

\* A handler that does not move keeps its part: what it answered of a settled
\* attempt cannot be overtaken.
LEMMA StillAnswer ==
    ASSUME IInv, AnswerInv, [Next]_vars, NEW s \in Requests,
           UNCHANGED <<pc[s], att[s], ref[s], resp[s]>>, restarts' = 0 => restarts = 0
    PROVE  AnswerInvOf(s)'
  <1>1. AnswerInvOf(s)
    BY AnswerParts
  <1>2. pc[s] = "enqueue" => att[s] \in Requests
    BY OwnAttempt DEF IInv, AttInv, ChargeSteps
  <1>3. att[s] # None => att[s] \in Requests
    BY OwnAttempt
  <1> QED
    BY <1>1, <1>2, <1>3, SettledFrozen, OutcomeStays
       DEF AnswerInvOf, Frozen, SameKey, RequestHash, ChargesOf

\* A step of request r's handler leaves the other handlers alone.
LEMMA OtherHandlers ==
    ASSUME IInv, NEW r \in Requests, PayStep(r) \/ PayFail(r) \/ CallPSP(r) \/ PSPAnswers(r),
           NEW s \in Requests \ {r}
    PROVE  UNCHANGED <<pc[s], att[s], ref[s], resp[s]>>
  <1> USE DEF IInv, TypeOK, SvcTypeOK, Goto, Answer
  <1>1. CASE LookupKey(r) \/ LookupAgain(r)
    BY <1>1 DEF LookupKey, LookupAgain, ReplayIdempotentPay
  <1>2. CASE LockInvoice(r) \/ InsertKey(r) \/ CheckPending(r) \/ InsertAttempt(r)
    BY <1>2 DEF LockInvoice, InsertKey, CheckPending, InsertAttempt
  <1>3. CASE ChargeUnknown(r) \/ LockPaid(r) \/ SettleSuccess(r)
    BY <1>3 DEF ChargeUnknown, LockPaid, SettleSuccess
  <1>4. CASE SettleFailure(r) \/ EnqueueFailure(r) \/ Fail(r)
    BY <1>4 DEF SettleFailure, EnqueueFailure, Fail
  <1>5. CASE CallPSP(r) \/ PSPAnswers(r)
    BY <1>5 DEF CallPSP, SendCharge, PSPAnswers, ChargeReturns
  <1> QED
    BY <1>1, <1>2, <1>3, <1>4, <1>5 DEF PayStep, PayFail

\* With no restart a second charge of an attempt is the first.
LEMMA OneCharge ==
    ASSUME IInv, restarts = 0, NEW a, NEW c \in ChargesOf(a), NEW d \in ChargesOf(a)
    PROVE  c = d
  BY DEF IInv, PSPInv, EntryInv, ChargesOf

\* The psp_transaction_id read from a SUCCEEDED row is still a charge of its
\* attempt when it is answered.
LEMMA StoredCharge ==
    ASSUME IInv, [Next]_vars, NEW a \in Requests, attStatus[a] = "SUCCEEDED"
    PROVE  attRef[a] \in Requests /\ entry'[attRef[a]] = "succeeded" /\ callKey'[attRef[a]] = a
  BY OutcomeStays DEF IInv, PSPInv, RefIsTheCharge, ChargesOf

\* replayIdempotentPay answers from the row it found.
LEMMA ReplayAnswer ==
    ASSUME IInv, AnswerInv, [Next]_vars, UNCHANGED req, NEW r \in Requests,
           LookupKey(r) \/ LookupAgain(r)
    PROVE  AnswerInvOf(r)'
  <1> USE DEF IInv, TypeOK, StoreTypeOK, SvcTypeOK, Goto, Answer
  <1>1. resp[r] = "NONE" /\ ref[r] = None /\ UNCHANGED <<attStatus, attRef>>
    BY DEF AnswerInv, LookupKey, LookupAgain, BeforeInsert, storeVars
  <1>2. CASE pc'[r] = "lockInvoice" /\ UNCHANGED <<resp, ref>>
    BY <1>1, <1>2 DEF AnswerInvOf, OwnersAnswers, AttemptStatuses
  <1>3. ASSUME NEW o \in IdempotencyGetByKey(r), ReplayIdempotentPay(r, o)
        PROVE  AnswerInvOf(r)'
    <2>1. o \in Requests /\ SameKey(o, r) /\ attStatus[o] # "NONE"
      BY DEF IdempotencyGetByKey, KeyInv
    <2>2. CASE RequestHash(o) # RequestHash(r)
      BY <1>1, <1>3, <2>2 DEF ReplayIdempotentPay, AnswerInvOf, OwnersAnswers, AttemptStatuses,
         BeforeInsert, CreateSteps
    <2>3. CASE RequestHash(o) = RequestHash(r) /\ attStatus[o] = "PENDING"
      BY <1>1, <1>3, <2>3 DEF ReplayIdempotentPay, AnswerInvOf, OwnersAnswers, AttemptStatuses
    <2>4. CASE RequestHash(o) = RequestHash(r) /\ attStatus[o] # "PENDING"
      <3>1. /\ pc'[r] = "done" /\ att'[r] = o /\ ref'[r] = attRef[o]
            /\ resp'[r] = attStatus[o] /\ attStatus[o] \in {"SUCCEEDED", "FAILED"}
        BY <1>3, <2>1, <2>4 DEF ReplayIdempotentPay, AttemptStatuses
      <3>2. Owner[req[r].inv] = req[r].biz
        BY <2>1, <2>4 DEF InvoiceInv, SameKey, RequestHash
      <3>3. /\ resp'[r] = "SUCCEEDED" => ref'[r] \in ChargesOf(att[r])'
            /\ resp'[r] = "FAILED" => ref'[r] = None
        BY <2>1, <3>1, StoredCharge DEF AnswerInv, ChargesOf
      <3> QED
        BY <1>1, <2>1, <2>4, <3>1, <3>2, <3>3 DEF AnswerInvOf, SameKey, RequestHash, BeforeInsert,
           CreateSteps
    <2> QED
      BY <2>2, <2>3, <2>4
  <1> QED
    BY <1>2, <1>3 DEF LookupKey, LookupAgain

\* createPendingAttempt refuses, moves on or leaves the attempt to be charged.
LEMMA CreateAnswer ==
    ASSUME IInv, AnswerInv, UNCHANGED req, NEW r \in Requests,
           LockInvoice(r) \/ InsertKey(r) \/ CheckPending(r) \/ InsertAttempt(r)
    PROVE  AnswerInvOf(r)'
  <1> USE DEF IInv, TypeOK, StoreTypeOK, SvcTypeOK, Goto, Answer
  <1>1. resp[r] = "NONE" /\ ref[r] = None
    BY DEF AnswerInv, LockInvoice, InsertKey, CheckPending, InsertAttempt, BeforeInsert, CreateSteps
  <1>2. /\ ref'[r] = None /\ pc'[r] # "enqueue"
        /\ resp'[r] # "NONE" => pc'[r] = "done"
        /\ resp'[r] \notin {"SUCCEEDED", "FAILED"}
        /\ resp'[r] \in OwnersAnswers => Owner[req[r].inv] = req[r].biz
    <2>1. CASE LockInvoice(r)
      BY <1>1, <2>1, Payable DEF LockInvoice, Errors, OwnersAnswers, AttemptStatuses
    <2>2. CASE InsertKey(r)
      BY <1>1, <2>2 DEF InsertKey, OwnersAnswers, AttemptStatuses
    <2>3. CASE CheckPending(r) \/ InsertAttempt(r)
      <3>1. Owner[req[r].inv] = req[r].biz
        BY <2>3 DEF CheckPending, InsertAttempt, InvoiceInv, CreateSteps
      <3> QED
        BY <1>1, <2>3, <3>1 DEF CheckPending, InsertAttempt
    <2> QED
      BY <2>1, <2>2, <2>3
  <1> QED
    BY <1>2 DEF AnswerInvOf

\* chargeAndSettle answers what the tables hold once it is done.
LEMMA SettleAnswer ==
    ASSUME IInv, AnswerInv, [Next]_vars, UNCHANGED <<req, restarts>>, NEW r \in Requests,
           \/ ChargeUnknown(r) \/ LockPaid(r) \/ SettleSuccess(r) \/ SettleFailure(r)
           \/ EnqueueFailure(r) \/ CallPSP(r) \/ PSPAnswers(r)
    PROVE  AnswerInvOf(r)'
  <1> USE DEF IInv, TypeOK, StoreTypeOK, SvcTypeOK, Goto, Answer
  <1>1. pc[r] \in ChargeSteps
    BY DEF ChargeUnknown, LockPaid, SettleSuccess, SettleFailure, EnqueueFailure, CallPSP,
       SendCharge, PSPAnswers, ChargeReturns, ChargeSteps
  <1>2. /\ resp[r] = "NONE" /\ att[r] # None /\ att[r] \in Requests
        /\ attStatus[att[r]] # "NONE" /\ Owner[req[r].inv] = req[r].biz
        /\ SameKey(att[r], r) /\ RequestHash(att[r]) = RequestHash(r)
    BY <1>1, OwnAttempt DEF AnswerInv, AttInv, ChargeSteps
  <1>3. UNCHANGED att
    BY DEF ChargeUnknown, LockPaid, SettleSuccess, SettleFailure, EnqueueFailure, CallPSP,
       SendCharge, PSPAnswers, ChargeReturns
  <1>4. CASE ChargeUnknown(r) \/ LockPaid(r) \/ CallPSP(r) \/ PSPAnswers(r)
    <2>1. /\ pc'[r] \in {"await", "fail"} => ref'[r] = None
          /\ pc'[r] \in {"await", "fail", "lockPaid", "settle", "done"}
          /\ resp'[r] # "NONE" => pc'[r] = "done"
          /\ resp'[r] \in {"NONE", "PENDING"}
      BY <1>2, <1>4 DEF AnswerInv, ChargeUnknown, LockPaid, CallPSP, SendCharge, PSPAnswers,
         ChargeReturns
    <2> QED
      BY <1>2, <2>1 DEF AnswerInvOf, BeforeInsert, CreateSteps
  <1>5. CASE SettleSuccess(r)
    <2>1. /\ pc'[r] = "done" /\ resp'[r] = SuccessOutcome(att[r])
          /\ attStatus'[att[r]] = SuccessOutcome(att[r])
          /\ attRef'[att[r]] = IF attStatus[att[r]] = "PENDING" THEN ref[r] ELSE attRef[att[r]]
          /\ ref'[r] = IF SuccessOutcome(att[r]) = "SUCCEEDED" THEN ref[r] ELSE attRef[att[r]]
      BY <1>2, <1>5 DEF SettleSuccess, PersistSuccessCommit, UpdateStatusIfPending, SuccessOutcome
    <2>2. restarts = 0 /\ attStatus[att[r]] = "SUCCEEDED" => ref[r] = attRef[att[r]]
      BY <1>2, <1>5, OneCharge DEF SettleSuccess, PSPInv, OutcomeInv, RefIsTheCharge
    <2>3. restarts = 0 => ref'[r] = attRef'[att[r]]
      BY <2>1, <2>2 DEF SuccessOutcome
    <2>4. resp'[r] = "SUCCEEDED" => ref'[r] \in ChargesOf(att[r])'
      <3>1. ref[r] \in ChargesOf(att[r])
        BY <1>5 DEF SettleSuccess, PSPInv, OutcomeInv
      <3> QED
        BY <1>3, <2>1, <3>1, OutcomeStays DEF ChargesOf
    <2>5. resp'[r] = "FAILED" => ref'[r] = None
      BY <1>2, <2>1 DEF AnswerInv, SuccessOutcome
    <2> QED
      BY <1>2, <1>3, <2>1, <2>3, <2>4, <2>5 DEF AnswerInvOf, BeforeInsert, CreateSteps, SameKey, RequestHash
  <1>6. CASE SettleFailure(r) /\ attStatus[att[r]] = "PENDING"
    <2>1. /\ pc'[r] = "enqueue" /\ resp'[r] = "NONE" /\ ref'[r] = None
          /\ attStatus'[att[r]] = "FAILED"
      BY <1>2, <1>6 DEF AnswerInv, SettleFailure, PersistFailureUpdate, UpdateStatusIfPending
    <2> QED
      BY <1>3, <2>1 DEF AnswerInvOf, OwnersAnswers
  <1>7. CASE SettleFailure(r) /\ attStatus[att[r]] # "PENDING"
    <2>1. /\ pc'[r] = "done" /\ resp'[r] = attStatus[att[r]] /\ ref'[r] = attRef[att[r]]
          /\ attStatus'[att[r]] = attStatus[att[r]] /\ attRef'[att[r]] = attRef[att[r]]
      BY <1>2, <1>7 DEF SettleFailure, PersistFailureUpdate, UpdateStatusIfPending
    <2>2. /\ resp'[r] = "SUCCEEDED" => ref'[r] \in ChargesOf(att[r])'
          /\ resp'[r] = "FAILED" => ref'[r] = None
      BY <1>2, <1>3, <2>1, StoredCharge DEF AnswerInv, ChargesOf
    <2> QED
      BY <1>2, <1>3, <2>1, <2>2 DEF AnswerInvOf, BeforeInsert, CreateSteps, SameKey, RequestHash
  <1>8. CASE EnqueueFailure(r)
    <2>1. /\ pc'[r] = "done" /\ resp'[r] = "FAILED" /\ UNCHANGED <<ref, attStatus, attRef>>
          /\ attStatus[att[r]] = "FAILED" /\ ref[r] = None /\ attRef[att[r]] = None
      BY <1>2, <1>8 DEF AnswerInv, EnqueueFailure, PersistFailureEnqueue
    <2> QED
      BY <1>2, <1>3, <2>1 DEF AnswerInvOf, BeforeInsert, CreateSteps, SameKey, RequestHash
  <1> QED
    BY <1>4, <1>5, <1>6, <1>7, <1>8

LEMMA AnswerStep ==
    ASSUME IInv, AnswerInv, [Next]_vars
    PROVE  AnswerInv'
  <1> USE SettledFrozen
  <1>1. RefOnlyOfSuccess'
    BY LedgerStep DEF AnswerInv, RefOnlyOfSuccess, LedgerChange, Unseen, Opened, Succeeded,
       Declined, IInv, TypeOK, StoreTypeOK
  <1>2. ASSUME \A s \in Requests : AnswerInvOf(s)' PROVE AnswerInv'
    BY <1>1, <1>2 DEF AnswerInv, RefOnlyOfSuccess, AnswerInvOf, AnswerMatchesRecord
  <1>3. CASE UNCHANGED svcVars /\ (restarts' = 0 => restarts = 0)
    <2>1. \A s \in Requests : UNCHANGED <<pc[s], att[s], ref[s], resp[s]>>
      BY <1>3 DEF svcVars
    <2> QED
      BY <1>3, <1>2, <2>1, StillAnswer
  <1>4. ASSUME NEW r \in Requests, PayStep(r) \/ PayFail(r) \/ CallPSP(r) \/ PSPAnswers(r)
        PROVE  AnswerInv'
    <2>1. UNCHANGED restarts
      BY <1>4 DEF PayStep, PayFail, CallPSP, Charge, PSPAnswers, Reply, pspVars
    <2>2. AnswerInvOf(r)'
      <3>1. CASE Fail(r)
        BY <3>1 DEF Fail, Answer, AnswerInvOf, OwnersAnswers, AttemptStatuses, IInv, TypeOK,
           SvcTypeOK, BeforeInsert, CreateSteps
      <3> QED
        BY <1>4, <2>1, <3>1, ReplayAnswer, CreateAnswer, SettleAnswer DEF PayStep, PayFail
    <2>3. \A s \in Requests \ {r} : AnswerInvOf(s)'
      BY <1>4, <2>1, OtherHandlers, StillAnswer
    <2> QED
      BY <1>2, <2>2, <2>3
  <1>5. CASE \/ UNCHANGED vars \/ \E i \in Invoices : NewInvoice(i)
             \/ \E c \in Requests : PSPStep(c) \/ SenderStep(c)
             \/ \E d \in Deliveries : HookStep(d) \/ HookAbort(d)
    <2>1. UNCHANGED svcVars /\ UNCHANGED restarts
      BY <1>5 DEF vars, pspVars, NewInvoice, PSPStep, HandleCharge, FinishCharge, FailUncached,
         SenderStep, SendWebhook, WebhookAcked, WebhookTryFailed, HookStep, HookAbort
    <2> QED
      BY <1>3, <2>1
  <1>6. CASE PSPCrash
    <2>1. UNCHANGED svcVars /\ restarts' # 0
      BY <1>6 DEF PSPCrash, PSPRestart, IInv, TypeOK, PSPTypeOK
    <2> QED
      BY <1>3, <2>1
  <1> QED
    BY <1>4, <1>5, <1>6 DEF Next

-----------------------------------------------------------------------------
(* What a PROCESSED event means                                            *)

\* An event that is settled stays so.
LEMMA EventStaysSettled ==
    ASSUME IInv, [Next]_vars, NEW e \in Requests, EventSettled(e)
    PROVE  EventSettled(e)'
  <1>1. entry[e] \in {"succeeded", "failed"}
    BY DEF EventSettled
  <1>2. UNCHANGED <<entry[e], callKey[e]>> /\ callKey[e] \in Requests
    BY <1>1, OutcomeStays, ChargedAttempt
  <1> QED
    BY <1>2, SettledFrozen DEF EventSettled, Frozen

\* The webhook handler leaves applyWebhook with the attempt settled the way
\* the event says.
LEMMA HookSettles ==
    ASSUME IInv, ProcessedInv, NEW d \in Deliveries, HookStep(d) \/ HookAbort(d),
           [Next]_vars
    PROVE  /\ wpc'[d] = "enqueue" => EventSettled(d[1])'
           /\ ~ReadFaults /\ wpc'[d] = "processed" => EventSettled(d[1])'
           /\ ~ReadFaults /\ webhookRow'[d[1]] = "PROCESSED" => EventSettled(d[1])'
  <1> USE DEF IInv, TypeOK, StoreTypeOK, PSPTypeOK, HookTypeOK
  <1>1. d[1] \in Requests /\ UNCHANGED <<entry, callKey>>
    BY DEF Deliveries, HookStep, HookAbort, pspVars
  <1>2. CASE HookSettleSuccess(d)
    <2>1. EventAttempt(d) = callKey[d[1]] /\ entry[d[1]] = "succeeded"
      BY <1>2 DEF HookSettleSuccess, PSPInv, HookInv, EventAttempt
    <2>2. callKey[d[1]] \in Requests /\ attStatus[callKey[d[1]]] \in {"PENDING", "SUCCEEDED"}
      BY <1>1, <2>1, ChargedAttempt, FailedNotCharged DEF FailedNeverCharged, AttemptStatuses
    <2>3. attStatus'[callKey[d[1]]] = "SUCCEEDED"
      BY <1>2, <2>1, <2>2 DEF HookSettleSuccess, PersistSuccessCommit, UpdateStatusIfPending
    <2> QED
      BY <1>1, <2>1, <2>3 DEF EventSettled
  <1>3. CASE HookSettleFailure(d)
    <2>1. EventAttempt(d) = callKey[d[1]] /\ entry[d[1]] = "failed"
      BY <1>3 DEF HookSettleFailure, PSPInv, HookInv, EventAttempt
    <2>2. callKey[d[1]] \in Requests /\ attStatus[callKey[d[1]]] \in {"PENDING", "FAILED"}
      BY <1>1, <2>1, ChargedAttempt, DeclinedNotSucceeded DEF AttemptStatuses
    <2>3. attStatus'[callKey[d[1]]] = "FAILED"
      BY <1>3, <2>1, <2>2 DEF HookSettleFailure, PersistFailureUpdate, UpdateStatusIfPending
    <2> QED
      BY <1>1, <2>1, <2>3 DEF EventSettled
  <1>4. CASE HookEnqueueFailure(d)
    <2>1. EventSettled(d[1])
      BY <1>4 DEF HookEnqueueFailure, ProcessedInv
    <2> QED
      BY <1>1, <2>1, EventStaysSettled
  <1>5. CASE HookMarkProcessed(d)
    <2>1. ~ReadFaults => EventSettled(d[1])
      BY <1>5 DEF HookMarkProcessed, ProcessedInv
    <2>2. wpc'[d] = "ok"
      BY <1>5 DEF HookMarkProcessed, HookGoto
    <2> QED
      BY <1>1, <2>1, <2>2, EventStaysSettled
  <1>6. CASE \/ ReceiveWebhook(d) \/ ApplyWebhook(d) \/ HookLockPaid(d) \/ HookMarkFailed(d)
             \/ HookApplyError(d) \/ HookRefuse(d) \/ HookFail(d)
    <2>1. /\ wpc'[d] # "enqueue" /\ (~ReadFaults => wpc'[d] # "processed")
          /\ webhookRow'[d[1]] = "PROCESSED" => webhookRow[d[1]] = "PROCESSED"
      BY <1>1, <1>6 DEF ReceiveWebhook, WebhookEventCreate, ApplyWebhook, HookLockPaid,
         HookMarkFailed, WebhookMarkFailed, HookApplyError, HookRefuse, HookFail, HookGoto,
         storeVars
    <2>2. ~ReadFaults /\ webhookRow[d[1]] = "PROCESSED" => EventSettled(d[1])
      BY <1>1 DEF ProcessedInv, ProcessedMeansSettled, EventSettled
    <2> QED
      BY <1>1, <2>1, <2>2, EventStaysSettled
  <1> QED
    BY <1>2, <1>3, <1>4, <1>5, <1>6 DEF HookStep, HookAbort

LEMMA ProcessedStep ==
    ASSUME IInv, ProcessedInv, [Next]_vars
    PROVE  ProcessedInv'
  <1> USE DEF IInv, TypeOK, StoreTypeOK, HookTypeOK
  <1>1. ASSUME NEW d \in Deliveries, UNCHANGED wpc[d]
        PROVE  /\ wpc'[d] = "enqueue" => EventSettled(d[1])'
               /\ ~ReadFaults /\ wpc'[d] = "processed" => EventSettled(d[1])'
    BY <1>1, EventStaysSettled DEF ProcessedInv, Deliveries
  <1>2. ASSUME NEW e \in Requests, UNCHANGED webhookRow[e]
        PROVE  ~ReadFaults /\ webhookRow'[e] = "PROCESSED" => EventSettled(e)'
    <2>1. ~ReadFaults /\ webhookRow[e] = "PROCESSED" => EventSettled(e)
      BY DEF ProcessedInv, ProcessedMeansSettled, EventSettled
    <2> QED
      BY <1>2, <2>1, EventStaysSettled
  <1>3. ASSUME \A d \in Deliveries :
                  /\ wpc'[d] = "enqueue" => EventSettled(d[1])'
                  /\ ~ReadFaults /\ wpc'[d] = "processed" => EventSettled(d[1])',
               \A e \in Requests :
                  ~ReadFaults /\ webhookRow'[e] = "PROCESSED" => EventSettled(e)'
        PROVE  ProcessedInv'
    BY <1>3 DEF ProcessedInv, ProcessedMeansSettled, EventSettled
  <1>4. ASSUME NEW d \in Deliveries, HookStep(d) \/ HookAbort(d)
        PROVE  ProcessedInv'
    <2>1. /\ \A f \in Deliveries \ {d} : UNCHANGED wpc[f]
          /\ \A e \in Requests \ {d[1]} : UNCHANGED webhookRow[e]
      BY <1>4 DEF HookStep, HookAbort, ReceiveWebhook, WebhookEventCreate, ApplyWebhook,
         HookLockPaid, HookSettleSuccess, HookSettleFailure, HookEnqueueFailure,
         HookMarkProcessed, MarkProcessed, HookMarkFailed, WebhookMarkFailed, HookApplyError,
         HookRefuse, HookFail, HookGoto, storeVars
    <2> QED
      BY <1>1, <1>2, <1>3, <1>4, <2>1, HookSettles
  <1>5. CASE UNCHANGED <<wpc, webhookRow>>
    BY <1>1, <1>2, <1>3, <1>5
  <1>6. ASSUME NEW r \in Requests, PayStep(r) \/ PayFail(r)
        PROVE  UNCHANGED <<wpc, webhookRow>>
    BY <1>6 DEF PayStep, PayFail, LookupKey, LookupAgain, LockInvoice, InsertKey, CheckPending,
       InsertAttempt, ChargeUnknown, LockPaid, SettleSuccess, SettleFailure, EnqueueFailure, Fail,
       Rollback, storeVars
  <1>7. ASSUME \/ UNCHANGED vars \/ \E i \in Invoices : NewInvoice(i)
               \/ \E r \in Requests : CallPSP(r) \/ PSPAnswers(r) \/ PSPStep(r) \/ SenderStep(r)
               \/ PSPCrash
        PROVE  UNCHANGED <<wpc, webhookRow>>
    BY <1>7 DEF vars, NewInvoice, CallPSP, SendCharge, PSPAnswers, ChargeReturns, PSPStep,
       SenderStep, PSPCrash, storeVars
  <1> QED
    BY <1>4, <1>5, <1>6, <1>7 DEF Next

-----------------------------------------------------------------------------
(* Charges over the PSP's lives                                            *)

\* LifeInv's bound for attempt k: the dropped charges and the cached one.
LifeBound(k) ==
    /\ IsFiniteSet(Charged(k))
    /\ Cardinality(Charged(k)) <= restarts + (IF cache[k] = None THEN 0 ELSE 1)

\* A step that charges nothing more for k and forgets nothing keeps the bound.
LEMMA FewerCharges ==
    ASSUME IInv, IInv', NEW k \in Requests, LifeBound(k), Charged(k)' \subseteq Charged(k),
           \/ UNCHANGED restarts /\ (cache'[k] = None => cache[k] = None)
           \/ restarts' = restarts + 1
    PROVE  LifeBound(k)'
  <1> DEFINE S == Charged(k)
             T == Charged(k)'
  <1>1. IsFiniteSet(S) /\ T \subseteq S
    BY DEF LifeBound
  <1>2. IsFiniteSet(T) /\ Cardinality(T) <= Cardinality(S)
    BY <1>1, FS_Subset, Zenon
  <1>3. Cardinality(S) \in Nat /\ Cardinality(T) \in Nat
    BY <1>1, <1>2, FS_CardinalityType, Zenon
  <1>4. restarts \in Nat /\ restarts' \in Nat
    BY DEF IInv, TypeOK, PSPTypeOK
  <1>5. Cardinality(T) <= restarts' + (IF cache'[k] = None THEN 0 ELSE 1)
    <2> HIDE DEF S, T
    <2>1. Cardinality(S) <= restarts + (IF cache[k] = None THEN 0 ELSE 1)
      BY DEF LifeBound, S
    <2> QED
      BY <1>2, <1>3, <1>4, <2>1
  <1> QED
    BY <1>2, <1>5 DEF LifeBound

\* getOrStart charges for a key only when nothing is cached for it.
LEMMA ChargeStarts ==
    ASSUME IInv, IInv', LifeInv, NEW c \in Requests, HandleCharge(c)
    PROVE  LifeInv'
  <1> USE DEF IInv, TypeOK, PSPTypeOK
  <1>1. /\ entry[c] = "none" /\ callKey[c] \in Requests /\ UNCHANGED <<callKey, restarts>>
    BY DEF HandleCharge, PSPInv, CallInv
  <1>2. CASE UNCHANGED <<cache, entry>>
    BY <1>1, <1>2 DEF LifeInv, Charged
  <1>3. CASE /\ cache[callKey[c]] = None /\ cache' = [cache EXCEPT ![callKey[c]] = c]
             /\ entry' = [entry EXCEPT ![c] = "charging"]
    <2>1. \A d \in Requests : entry'[d] = "charging" => cache'[callKey'[d]] = d
      <3> SUFFICES ASSUME NEW d \in Requests, entry'[d] = "charging" PROVE cache'[callKey[d]] = d
        BY <1>1
      <3>1. CASE d = c
        BY <1>1, <1>3, <3>1
      <3>2. CASE d # c
        <4>1. entry[d] = "charging"
          BY <1>3, <3>2
        <4>2. cache[callKey[d]] = d /\ callKey[d] \in Requests
          BY <4>1, ChargedAttempt DEF LifeInv
        <4> QED
          BY <1>1, <1>3, <4>2
      <3> QED
        BY <3>1, <3>2
    <2>2. ASSUME NEW k \in Requests \ {callKey[c]} PROVE LifeBound(k)'
      <3>1. Charged(k)' = Charged(k)
        BY <1>1, <1>3 DEF Charged
      <3>2. LifeBound(k) /\ cache'[k] = cache[k]
        BY <1>3 DEF LifeInv, LifeBound
      <3> QED
        BY <1>1, <3>1, <3>2, FewerCharges
    <2>3. LifeBound(callKey[c])'
      <3> DEFINE S == Charged(callKey[c])
      <3>1. Charged(callKey[c])' = S \cup {c} /\ c \notin S
        BY <1>1, <1>3 DEF Charged
      <3>2. IsFiniteSet(S) /\ Cardinality(S) <= restarts + 0
        BY <1>1, <1>3 DEF LifeInv
      <3>3. /\ IsFiniteSet(S \cup {c}) /\ Cardinality(S) \in Nat
            /\ Cardinality(S \cup {c}) = Cardinality(S) + 1
        <4> HIDE DEF S
        <4> QED
          BY <3>1, <3>2, FS_AddElement, FS_CardinalityType
      <3>4. Cardinality(S \cup {c}) <= restarts' + 1
        <4> HIDE DEF S
        <4> QED
          BY <1>1, <3>2, <3>3
      <3>5. cache'[callKey'[c]] # None /\ callKey'[c] = callKey[c]
        BY <1>1, <1>3
      <3> HIDE DEF S
      <3> QED
        BY <3>1, <3>3, <3>4, <3>5 DEF LifeBound
    <2> QED
      BY <1>1, <2>1, <2>2, <2>3 DEF LifeInv, LifeBound
  <1> QED
    BY <1>2, <1>3 DEF HandleCharge

\* completeCharge's failUncached takes its charge back with the cache entry.
LEMMA ChargeForgotten ==
    ASSUME IInv, IInv', LifeInv, NEW c \in Requests, FailUncached(c)
    PROVE  LifeInv'
  <1> USE DEF IInv, TypeOK, PSPTypeOK
  <1>1. /\ entry[c] = "charging" /\ callKey[c] \in Requests /\ UNCHANGED <<callKey, restarts>>
        /\ entry' \in [Requests -> EntryStates]
        /\ entry'[c] \in {"error", "rejected"} /\ \A d \in Requests \ {c} : entry'[d] = entry[d]
        /\ cache' = [cache EXCEPT ![callKey[c]] = None]
    BY ChargedAttempt DEF FailUncached
  <1>2. \A d \in Requests : entry'[d] = "charging" => cache'[callKey'[d]] = d
    <2> SUFFICES ASSUME NEW d \in Requests, entry'[d] = "charging" PROVE cache'[callKey[d]] = d
      BY <1>1
    <2>1. d # c /\ entry[d] = "charging"
      BY <1>1
    <2>2. /\ cache[callKey[d]] = d /\ callKey[d] \in Requests /\ cache[callKey[c]] = c
      BY <1>1, <2>1, ChargedAttempt DEF LifeInv
    <2> QED
      BY <1>1, <2>1, <2>2
  <1>3. ASSUME NEW k \in Requests \ {callKey[c]} PROVE LifeBound(k)'
    <2>1. Charged(k)' \subseteq Charged(k)
      BY <1>1 DEF Charged
    <2>2. LifeBound(k) /\ cache'[k] = cache[k]
      BY <1>1 DEF LifeInv, LifeBound
    <2> QED
      BY <1>1, <2>1, <2>2, FewerCharges
  <1>4. LifeBound(callKey[c])'
    <2> DEFINE S == Charged(callKey[c])
    <2>1. Charged(callKey[c])' = S \ {c} /\ c \in S
      BY <1>1 DEF Charged
    <2>2. IsFiniteSet(S) /\ Cardinality(S) <= restarts + 1
      <3>1. cache[callKey[c]] = c
        BY <1>1 DEF LifeInv
      <3> QED
        BY <1>1, <3>1 DEF LifeInv
    <2>3. /\ IsFiniteSet(S \ {c}) /\ Cardinality(S) \in Nat
          /\ Cardinality(S \ {c}) = Cardinality(S) - 1
      <3> HIDE DEF S
      <3> QED
        BY <2>1, <2>2, FS_RemoveElement, FS_CardinalityType
    <2>4. Cardinality(S \ {c}) <= restarts' + 0
      <3> HIDE DEF S
      <3> QED
        BY <1>1, <2>2, <2>3
    <2>5. cache'[callKey'[c]] = None /\ callKey'[c] = callKey[c]
      BY <1>1
    <2> HIDE DEF S
    <2> QED
      BY <2>1, <2>3, <2>4, <2>5 DEF LifeBound
  <1> QED
    BY <1>1, <1>2, <1>3, <1>4 DEF LifeInv, LifeBound

LEMMA LifeStep ==
    ASSUME IInv, IInv', LifeInv, [Next]_vars
    PROVE  LifeInv'
  <1> USE DEF IInv, TypeOK, PSPTypeOK
  <1>1. ASSUME \A k \in Requests : Charged(k)' \subseteq Charged(k),
               \/ UNCHANGED <<restarts, cache>>
               \/ restarts' = restarts + 1,
               \A d \in Requests : entry'[d] = "charging" => cache'[callKey'[d]] = d
        PROVE  LifeInv'
    <2>1. \A k \in Requests : LifeBound(k)
      BY DEF LifeInv, LifeBound
    <2>2. \A k \in Requests : LifeBound(k)'
      BY <1>1, <2>1, FewerCharges
    <2> QED
      BY <1>1, <2>2 DEF LifeInv, LifeBound
  <1>2. CASE UNCHANGED <<entry, callKey, cache, restarts>>
    BY <1>1, <1>2 DEF LifeInv, Charged
  <1>3. ASSUME NEW r \in Requests, CallPSP(r) PROVE LifeInv'
    <2>1. /\ entry[r] = "none" /\ UNCHANGED <<entry, cache, restarts>>
          /\ \A d \in Requests \ {r} : callKey'[d] = callKey[d]
      BY <1>3 DEF CallPSP, Charge, PSPInv, CallInv
    <2>2. \A k \in Requests : Charged(k)' \subseteq Charged(k)
      BY <2>1 DEF Charged
    <2> QED
      BY <1>1, <2>1, <2>2 DEF LifeInv
  <1>4. ASSUME NEW c \in Requests, FinishCharge(c) PROVE LifeInv'
    <2>1. /\ entry[c] = "charging" /\ UNCHANGED <<callKey, cache, restarts>>
          /\ entry'[c] \in {"succeeded", "failed"}
          /\ \A d \in Requests \ {c} : entry'[d] = entry[d]
      BY <1>4 DEF FinishCharge
    <2>2. \A k \in Requests : Charged(k)' \subseteq Charged(k)
      BY <2>1 DEF Charged
    <2> QED
      BY <1>1, <2>1, <2>2 DEF LifeInv
  <1>5. CASE PSPCrash
    <2>1. /\ restarts' = restarts + 1 /\ UNCHANGED callKey
          /\ \A c \in Requests : entry'[c] = IF entry[c] = "charging" THEN "lost" ELSE entry[c]
      BY <1>5 DEF PSPCrash, PSPRestart
    <2>2. \A k \in Requests : Charged(k)' \subseteq Charged(k)
      BY <2>1 DEF Charged
    <2> QED
      BY <1>1, <2>1, <2>2
  <1>6. ASSUME NEW c \in Requests, PSPAnswers(c) \/ SenderStep(c)
        PROVE  UNCHANGED <<entry, callKey, cache, restarts>>
    BY <1>6 DEF PSPAnswers, Reply, SenderStep, SendWebhook, WebhookAcked, WebhookTryFailed
  <1>7. ASSUME \/ UNCHANGED vars \/ \E i \in Invoices : NewInvoice(i)
               \/ \E r \in Requests : PayStep(r) \/ PayFail(r)
               \/ \E d \in Deliveries : HookStep(d) \/ HookAbort(d)
        PROVE  UNCHANGED <<entry, callKey, cache, restarts>>
    BY <1>7 DEF vars, pspVars, NewInvoice, PayStep, PayFail, HookStep, HookAbort
  <1> QED
    BY <1>2, <1>3, <1>4, <1>5, <1>6, <1>7, ChargeStarts, ChargeForgotten DEF Next, PSPStep

-----------------------------------------------------------------------------
(* The theorems                                                            *)

LEMMA InitRecord == Init => RecordInv
  <1> SUFFICES ASSUME Init PROVE RecordInv
    OBVIOUS
  <1> USE DEF Init, StoreInit, SvcInit, PSPInit, HookInit
  <1>1. AnswerInv
    BY DEF AnswerInv, AnswerMatchesRecord, OwnersAnswers, AttemptStatuses
  <1>2. ProcessedInv
    BY DEF ProcessedInv, ProcessedMeansSettled
  <1>3. LifeInv
    <2>1. \A k \in Requests : Charged(k) = {}
      BY DEF Charged
    <2>2. \A k \in Requests : IsFiniteSet(Charged(k)) /\ Cardinality(Charged(k)) = 0
      BY <2>1, FS_EmptySet, Zenon
    <2>3. restarts = 0 /\ \A k \in Requests : cache[k] = None /\ entry[k] # "charging"
      OBVIOUS
    <2> QED
      BY <2>2, <2>3 DEF LifeInv
  <1> QED
    BY <1>1, <1>2, <1>3 DEF RecordInv

\* What handlers answered, what events did and what the PSP charged fit the
\* tables in every reachable state.
THEOREM RecordInvariance == Spec => []RecordInv
  <1>1. IInv /\ IInv' /\ RecordInv /\ [Next]_vars => RecordInv'
    BY AnswerStep, ProcessedStep, LifeStep DEF RecordInv
  <1> QED
    BY <1>1, InitRecord, Invariance, PTL DEF Spec

\* A merchant told SUCCEEDED or FAILED is told what the tables say and go on
\* saying, whatever the PSP, its restarts and its webhooks do later.
THEOREM AnswerMatchesRecordHolds == Spec => []AnswerMatchesRecord
  <1>1. RecordInv => AnswerMatchesRecord
    BY DEF RecordInv, AnswerInv
  <1> QED
    BY <1>1, RecordInvariance, PTL

\* No request creates, charges or learns anything on an invoice of another
\* business.
THEOREM TenantIsolationHolds == Spec => []TenantIsolation
  <1>1. IInv /\ RecordInv => TenantIsolation
    <2> SUFFICES ASSUME IInv, RecordInv, NEW r \in Requests, Owner[req[r].inv] # req[r].biz
                 PROVE  /\ attStatus[r] = "NONE" /\ call[r] = "none"
                        /\ resp[r] \in {"NONE", "notFound", "notOwned", "conflict", "error"}
      BY DEF TenantIsolation
    <2>1. attStatus[r] = "NONE"
      BY DEF IInv, InvoiceInv
    <2>2. call[r] = "none"
      BY OwnAttempt DEF IInv, PSPInv, CallInv
    <2>3. resp[r] \in {"NONE", "notFound", "notOwned", "conflict", "error"}
      BY DEF IInv, TypeOK, SvcTypeOK, RecordInv, AnswerInv, OwnersAnswers, AttemptStatuses, Errors
    <2> QED
      BY <2>1, <2>2, <2>3
  <1> QED
    BY <1>1, Invariance, RecordInvariance, PTL

\* A business's idempotency key stands for one attempt.
THEOREM OneAttemptPerKeyHolds == Spec => []OneAttemptPerKey
  <1>1. IInv => OneAttemptPerKey
    BY DEF IInv, KeyInv, OneAttemptPerKey
  <1> QED
    BY <1>1, Invariance, PTL

\* When applyWebhook's reads do not fail, an event marked PROCESSED has
\* settled its attempt the way the PSP settled the charge.
THEOREM ProcessedMeansSettledHolds ==
    ASSUME ~ReadFaults
    PROVE  Spec => []ProcessedMeansSettled
  <1>1. RecordInv => ProcessedMeansSettled
    BY DEF RecordInv, ProcessedInv
  <1> QED
    BY <1>1, RecordInvariance, PTL

\* Each life of the PSP charges an invoice at most once: its charges are all
\* of the one attempt that is live.
THEOREM ChargedOncePerPSPLifeHolds == Spec => []ChargedOncePerPSPLife
  <1>1. IInv /\ RecordInv => ChargedOncePerPSPLife
    <2> SUFFICES ASSUME IInv, RecordInv, NEW i \in Invoices
                 PROVE  Cardinality(ChargesForInvoice(i)) <= restarts + 1
      BY DEF ChargedOncePerPSPLife
    <2> DEFINE S == ChargesForInvoice(i)
    <2>1. restarts \in Nat
      BY DEF IInv, TypeOK, PSPTypeOK
    <2>2. CASE S = {}
      BY <2>1, <2>2, FS_EmptySet
    <2>3. ASSUME NEW c \in S PROVE Cardinality(S) <= restarts + 1
      <3> DEFINE k == callKey[c]
                 T == Charged(k)
      <3>1. ASSUME NEW d \in S
            PROVE  d \in Requests /\ entry[d] = "succeeded" /\ callKey[d] \in Requests
                   /\ req[callKey[d]].inv = i /\ Live(callKey[d])
        <4>1. d \in Requests /\ entry[d] = "succeeded" /\ req[callKey[d]].inv = i
          BY DEF ChargesForInvoice
        <4>2. callKey[d] \in Requests /\ attStatus[callKey[d]] \notin {"NONE", "FAILED"}
          BY <4>1, ChargedAttempt, FailedNotCharged DEF FailedNeverCharged
        <4> QED
          BY <4>1, <4>2 DEF IInv, TypeOK, StoreTypeOK, AttemptStatuses, Live
      <3>2. ASSUME NEW d \in S PROVE d \in T
        <4>1. callKey[d] = k
          BY <3>1 DEF IInv, LedgerInv, OneLiveAttempt
        <4> QED
          BY <3>1, <4>1 DEF Charged
      <3>3. k \in Requests
        BY <3>1
      <3>4. IsFiniteSet(T) /\ Cardinality(T) <= restarts + (IF cache[k] = None THEN 0 ELSE 1)
        BY <3>3 DEF RecordInv, LifeInv
      <3> HIDE DEF S, T, k
      <3>5. S \in SUBSET T
        BY <3>2
      <3>6. Cardinality(S) <= Cardinality(T) /\ Cardinality(S) \in Nat /\ Cardinality(T) \in Nat
        BY <3>4, <3>5, FS_Subset, FS_CardinalityType, Zenon
      <3> QED
        BY <2>1, <3>4, <3>6
    <2> QED
      BY <2>2, <2>3
  <1> QED
    BY <1>1, Invariance, RecordInvariance, PTL
=============================================================================
