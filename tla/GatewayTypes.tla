---------------------------- MODULE GatewayTypes ----------------------------
(***************************************************************************)
(* What the payment modules share: the merchants' pay requests, the card   *)
(* tokens the mock PSP recognises and the status columns of the schema.    *)
(*                                                                         *)
(* A request is one POST /invoices/{id}/pay.  A merchant's retry is        *)
(* another request that carries the same key.  Rows and PSP objects get    *)
(* fresh UUIDs in the code; here an object created by a request is named   *)
(* by it: the attempt a request inserts, the PSP call it makes, the charge *)
(* (psp_ref) that call performs and the webhook event of that charge.      *)
(***************************************************************************)
EXTENDS Naturals

CONSTANTS
    Requests,         \* pay requests, each handled once
    Businesses,       \* merchants, as authenticated by middleware.APIKeyAuth
    Invoices,         \* invoice ids a request may name
    Keys,             \* values of the Idempotency-Key header
    Tokens,           \* card tokens the requests carry
    Owner,            \* the business_id an invoice is created with
    MaxWebhookTries,  \* len(delays) in notifyWebhook: 3 in the code
    NotifyDeclines,   \* a PSP that also sends charge.failed; the mock does not
    ReadFaults,       \* a transient error may hit applyWebhook's read
    MaxPSPRestarts,   \* bound on the PSP restarts of a behaviour
    None              \* SQL NULL, a nil pointer, "no one"

\* The switch of completeCharge; "tok_other" stands for its default branch.
ChargedTokens == {"tok_success", "tok_timeout"}
DeclinedTokens == {"tok_insufficient_funds", "tok_card_declined"}
UncachedTokens == {"tok_network_error", "tok_other"}
CardTokens == ChargedTokens \cup DeclinedTokens \cup UncachedTokens

\* One delivery of a PSP event: the event and the number of the try.
Deliveries == Requests \X (1 .. MaxWebhookTries)

ASSUME OwnerAssumption == Owner \in [Invoices -> Businesses]
ASSUME TokenAssumption == Tokens \subseteq CardTokens
ASSUME BoundAssumption == MaxWebhookTries \in Nat \ {0} /\ MaxPSPRestarts \in Nat
ASSUME FlagAssumption == NotifyDeclines \in BOOLEAN /\ ReadFaults \in BOOLEAN
ASSUME NameAssumption == /\ None \notin Requests \cup Deliveries
                         /\ Requests \cap Deliveries = {}

\* "NONE": the row does not exist yet.
InvoiceStatuses == {"NONE", "DRAFT", "OPEN", "PAID", "VOID", "UNCOLLECTIBLE"}
AttemptStatuses == {"NONE", "PENDING", "SUCCEEDED", "FAILED"}
WebhookStatuses == {"NONE", "PENDING", "PROCESSED", "FAILED"}
EventTypes == {"payment.succeeded", "payment.failed"}

Params == [biz : Businesses, inv : Invoices, key : Keys, tok : Tokens]

\* What each request carries; it never changes.
VARIABLE req

SameKey(r, s) == req[r].biz = req[s].biz /\ req[r].key = req[s].key

\* hashPayRequest: sha256 over the invoice and the card token.
RequestHash(r) == <<req[r].inv, req[r].tok>>
=============================================================================
