---------------------------- MODULE PaymentStore ----------------------------
(***************************************************************************)
(* The Postgres tables of the payment path and the repository functions    *)
(* that touch them.  A table is what other sessions see (READ COMMITTED):  *)
(* a handler's transaction applies its writes where it commits, and the    *)
(* row lock of SELECT ... FOR UPDATE is held until it commits or rolls     *)
(* back.                                                                   *)
(***************************************************************************)
EXTENDS GatewayTypes

VARIABLES
    invoiceStatus,  \* invoices.status
    rowLock,        \* who holds the FOR UPDATE lock on the invoice's row
    attStatus,      \* payment_attempts.status
    attRef,         \* payment_attempts.psp_transaction_id
    keyRows,        \* idempotency_keys: the requests whose row is committed
    outbox,         \* outbound_events: the (attempt, event type) pairs inserted
    webhookRow      \* webhook_events.status, by event_id

storeVars == <<invoiceStatus, rowLock, attStatus, attRef, keyRows, outbox, webhookRow>>
ledgerVars == <<invoiceStatus, attStatus, attRef, keyRows, outbox>>

StoreTypeOK ==
    /\ req \in [Requests -> Params]
    /\ invoiceStatus \in [Invoices -> InvoiceStatuses]
    /\ rowLock \in [Invoices -> Requests \cup Deliveries \cup {None}]
    /\ attStatus \in [Requests -> AttemptStatuses]
    /\ attRef \in [Requests -> Requests \cup {None}]
    /\ keyRows \in SUBSET Requests
    /\ outbox \in SUBSET (Requests \X EventTypes)
    /\ webhookRow \in [Requests -> WebhookStatuses]

StoreInit ==
    /\ req \in [Requests -> Params]
    /\ invoiceStatus = [i \in Invoices |-> "NONE"]
    /\ rowLock = [i \in Invoices |-> None]
    /\ attStatus = [a \in Requests |-> "NONE"]
    /\ attRef = [a \in Requests |-> None]
    /\ keyRows = {}
    /\ outbox = {}
    /\ webhookRow = [e \in Requests |-> "NONE"]

-----------------------------------------------------------------------------
(* invoices                                                                *)

\* CreateInvoice inserts the row as a DRAFT of the authenticated business.
CreateInvoice(i) ==
    /\ invoiceStatus[i] = "NONE"
    /\ invoiceStatus' = [invoiceStatus EXCEPT ![i] = "DRAFT"]

\* Mutant of GetByIDForUpdate: a plain SELECT.
GetByIDUnlocked(i, p) == UNCHANGED rowLock

\* SELECT ... FOR UPDATE: waits while another transaction holds the row.
GetByIDForUpdate(i, p) ==
    /\ rowLock[i] = None
    /\ rowLock' = [rowLock EXCEPT ![i] = p]

\* Mutant of ReleaseLocks: a transaction is left open.
ReleaseLocksLeak(p) == UNCHANGED rowLock

\* COMMIT or ROLLBACK: every row lock of p's transaction is released.
ReleaseLocks(p) ==
    rowLock' = [i \in Invoices |-> IF rowLock[i] = p THEN None ELSE rowLock[i]]

InvoiceUpdateStatus(i, s) == invoiceStatus' = [invoiceStatus EXCEPT ![i] = s]

\* Mutant of MarkPaidIfOpen: only a draft is marked.
MarkPaidIfDraft(i) ==
    invoiceStatus' = [invoiceStatus EXCEPT ![i] = IF @ = "DRAFT" THEN "PAID" ELSE @]

MarkPaidIfOpen(i) ==
    invoiceStatus' = [invoiceStatus EXCEPT
        ![i] = IF @ \in {"DRAFT", "OPEN"} THEN "PAID" ELSE @]

-----------------------------------------------------------------------------
(* payment_attempts                                                        *)

\* The attempts of invoice i in status PENDING.
GetPendingByInvoiceID(i) ==
    {a \in Requests : attStatus[a] = "PENDING" /\ req[a].inv = i}

\* idx_one_pending_attempt_per_invoice lets the insert of a through.
PendingIndexAllows(a) == GetPendingByInvoiceID(req[a].inv) = {}

AttemptCreate(a) == attStatus' = [attStatus EXCEPT ![a] = "PENDING"]

\* Mutant of UpdateStatusIfPending: the row is updated by its id alone.
UpdateStatusAlways(a, s, psp) ==
    /\ attStatus' = [attStatus EXCEPT ![a] = s]
    /\ attRef' = [attRef EXCEPT ![a] = psp]

\* UPDATE ... WHERE id = a AND status = 'PENDING': no row matches once the
\* attempt is settled.
UpdateStatusIfPending(a, s, psp) ==
    /\ attStatus' = [attStatus EXCEPT ![a] = IF @ = "PENDING" THEN s ELSE @]
    /\ attRef' = [attRef EXCEPT ![a] = IF attStatus[a] = "PENDING" THEN psp ELSE @]

-----------------------------------------------------------------------------
(* idempotency_keys, UNIQUE (business_id, idempotency_key)                 *)

\* The row a request's business and key find, named by the request that
\* inserted it; the row's invoice, hash and attempt are that request's.
IdempotencyGetByKey(r) == {o \in keyRows : SameKey(o, r)}

IdempotencyCreate(r) == keyRows' = keyRows \cup {r}

-----------------------------------------------------------------------------
(* webhook_events and outbound_events                                      *)

WebhookEventCreate(e) ==
    /\ webhookRow[e] = "NONE"
    /\ webhookRow' = [webhookRow EXCEPT ![e] = "PENDING"]

MarkProcessed(e) == webhookRow' = [webhookRow EXCEPT ![e] = "PROCESSED"]

WebhookMarkFailed(e) == webhookRow' = [webhookRow EXCEPT ![e] = "FAILED"]

\* ON CONFLICT (event_type, source_id) DO NOTHING, source_id = attempt:type.
EnqueueOutboundEvent(a, type) == outbox' = outbox \cup {<<a, type>>}
=============================================================================
