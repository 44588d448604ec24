--------------------------- MODULE WebhookIntake ----------------------------
(***************************************************************************)
(* PaymentService.ProcessPSPWebhook, the handler of POST /webhooks/psp: one *)
(* process per delivery <<event, try>>.  Deliveries of one event overlap   *)
(* when the PSP times out on the first and sends the next.  Every event is *)
(* one the PSP signed; webhook.Verify may refuse it all the same, when the *)
(* two clocks or the two secrets disagree.                                 *)
(***************************************************************************)
EXTENDS Settlement, MockPSP

VARIABLE wpc   \* where the handler of delivery d is

HookSteps == {"idle", "apply", "lock", "settle", "fail", "enqueue",
              "processed", "failed", "ok", "error", "refused"}

HookTypeOK == wpc \in [Deliveries -> HookSteps]

HookInit == wpc = [d \in Deliveries |-> "idle"]

HookGoto(d, step) == wpc' = [wpc EXCEPT ![d] = step]

\* body.Data.IdempotencyKey: the attempt the event is about.
EventAttempt(d) == callKey[d[1]]

-----------------------------------------------------------------------------
\* 401 or 400 before any statement: the timestamp is more than five minutes
\* off or the signature does not match (webhook.Verify), or the body cannot
\* be read or parsed.
HookRefuse(d) ==
    /\ wpc[d] = "idle"
    /\ d[2] <= tries[d[1]]
    /\ HookGoto(d, "refused")
    /\ UNCHANGED storeVars

\* Mutant of ReceiveWebhook: every event already known is acknowledged.
ReceiveKnownAsDone(d) ==
    /\ wpc[d] = "idle"
    /\ d[2] <= tries[d[1]]
    /\ \/ WebhookEventCreate(d[1]) /\ HookGoto(d, "apply")
       \/ webhookRow[d[1]] # "NONE" /\ HookGoto(d, "ok") /\ UNCHANGED webhookRow
    /\ UNCHANGED <<ledgerVars, rowLock>>

\* The delivery arrives and inserts the event, or finds its row: one already
\* PROCESSED is acknowledged at once, any other is applied again.
ReceiveWebhook(d) ==
    /\ wpc[d] = "idle"
    /\ d[2] <= tries[d[1]]
    /\ \/ WebhookEventCreate(d[1]) /\ HookGoto(d, "apply")
       \/ /\ webhookRow[d[1]] = "PROCESSED"
          /\ HookGoto(d, "ok")
          /\ UNCHANGED webhookRow
       \/ /\ webhookRow[d[1]] \in {"PENDING", "FAILED"}
          /\ HookGoto(d, "apply")
          /\ UNCHANGED webhookRow
    /\ UNCHANGED <<ledgerVars, rowLock>>

\* applyWebhook reads the attempt and branches on the event.  An error of
\* the read, whatever its cause, counts as an event to ignore.
ApplyWebhook(d) ==
    /\ wpc[d] = "apply"
    /\ \/ entry[d[1]] = "succeeded" /\ HookGoto(d, "lock")
       \/ entry[d[1]] = "failed" /\ HookGoto(d, "fail")
       \/ ReadFaults /\ HookGoto(d, "processed")
    /\ UNCHANGED storeVars

HookLockPaid(d) ==
    /\ wpc[d] = "lock"
    /\ PersistSuccessLock(d, EventAttempt(d))
    /\ HookGoto(d, "settle")
    /\ UNCHANGED <<ledgerVars, webhookRow>>

HookSettleSuccess(d) ==
    /\ wpc[d] = "settle"
    /\ PersistSuccessCommit(d, EventAttempt(d), d[1])
    /\ HookGoto(d, "processed")
    /\ UNCHANGED webhookRow

HookSettleFailure(d) ==
    /\ wpc[d] = "fail"
    /\ PersistFailureUpdate(EventAttempt(d))
    /\ HookGoto(d, IF attStatus[EventAttempt(d)] = "PENDING" THEN "enqueue" ELSE "processed")
    /\ UNCHANGED webhookRow

HookEnqueueFailure(d) ==
    /\ wpc[d] = "enqueue"
    /\ PersistFailureEnqueue(EventAttempt(d))
    /\ HookGoto(d, "processed")
    /\ UNCHANGED webhookRow

HookMarkProcessed(d) ==
    /\ wpc[d] = "processed"
    /\ MarkProcessed(d[1])
    /\ HookGoto(d, "ok")
    /\ UNCHANGED <<ledgerVars, rowLock>>

\* Mutant of HookApplyError: the error is dropped.
HookApplyErrorDropped(d) ==
    /\ wpc[d] \in {"lock", "settle", "fail", "enqueue"}
    /\ HookGoto(d, "processed")
    /\ ReleaseLocks(d)
    /\ UNCHANGED <<ledgerVars, webhookRow>>

\* persistSuccess or persistFailure returned an error.
HookApplyError(d) ==
    /\ wpc[d] \in {"lock", "settle", "fail", "enqueue"}
    /\ HookGoto(d, "failed")
    /\ ReleaseLocks(d)
    /\ UNCHANGED <<ledgerVars, webhookRow>>

HookMarkFailed(d) ==
    /\ wpc[d] = "failed"
    /\ WebhookMarkFailed(d[1])
    /\ HookGoto(d, "error")
    /\ UNCHANGED <<ledgerVars, rowLock>>

\* A database error of the handler's own statements, the sender's disconnect
\* or a crash of the server: answered with 500 or not at all.
HookFail(d) ==
    /\ wpc[d] \notin {"idle", "ok", "error", "refused"}
    /\ HookGoto(d, "error")
    /\ ReleaseLocks(d)
    /\ UNCHANGED <<ledgerVars, webhookRow>>
=============================================================================
