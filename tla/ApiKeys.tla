------------------------------- MODULE ApiKeys -------------------------------
(***************************************************************************)
(* API keys: the api_keys table, the middleware that authenticates a call  *)
(* by its bearer key, and the handlers that create, revoke and rotate      *)
(* keys.  Every call is a process; between two of its database statements  *)
(* others run, because none of these handlers opens a transaction.         *)
(*                                                                         *)
(* A key is named by the call that issued it, and a merchant presents only *)
(* secrets that an answer has brought it.                                  *)
(***************************************************************************)
CONSTANTS
    Calls,        \* HTTP calls
    BusinessIds,  \* business ids a call may name, registered or not
    None

ASSUME NoneIsNoId == None \notin Calls \cup BusinessIds

VARIABLES
    businesses,   \* the rows of businesses
    keyState,     \* api_keys: no row, revoked_at IS NULL, revoked_at set
    owner,        \* api_keys.business_id
    used,         \* the keys whose last_used_at is set
    pc,           \* where the call's handler is
    kind,         \* the endpoint called
    bearer,       \* the key in its Authorization header
    target,       \* the key id in its path
    biz,          \* the business the handler works for
    touch,        \* the calls whose TouchLastUsed goroutine is running
    answer,       \* what the merchant was told
    activeAtSend, \* history: the active keys when the call was sent
    revoker,      \* history: the call whose UPDATE revoked the key
    latest        \* history: the key last issued to a business

rowVars == <<businesses, keyState, owner>>
callVars == <<kind, bearer, target, activeAtSend>>
historyVars == <<revoker, latest>>
vars == <<rowVars, used, pc, callVars, biz, touch, answer, historyVars>>

\* POST /api-keys, GET /api-keys, POST /api-keys/:id/revoke and /rotate.
Kinds == {"create", "list", "revoke", "rotate"}
Refusals == {"unauthorized", "badRequest", "notFound", "notOwned", "revoked", "bootstrap"}
Running == {"handler", "count", "issue", "owned", "revoke", "reply"}

Init ==
    /\ businesses = {}
    /\ keyState = [k \in Calls |-> "none"]
    /\ owner = [k \in Calls |-> None]
    /\ used = {}
    /\ pc = [c \in Calls |-> "idle"]
    /\ kind = [c \in Calls |-> "list"]
    /\ bearer = [c \in Calls |-> None]
    /\ target = [c \in Calls |-> None]
    /\ biz = [c \in Calls |-> None]
    /\ touch = {}
    /\ answer = [c \in Calls |-> "none"]
    /\ activeAtSend = [c \in Calls |-> {}]
    /\ revoker = [k \in Calls |-> None]
    /\ latest = [b \in BusinessIds |-> None]

Active(k) == keyState[k] = "active"

\* The merchant was given the key's secret; it is shown once.
SecretKnown(k) == answer[k] \in {"created", "rotated"}

Goto(c, l) == pc' = [pc EXCEPT ![c] = l] /\ UNCHANGED answer

Answer(c, a) ==
    /\ pc' = [pc EXCEPT ![c] = "done"]
    /\ answer' = [answer EXCEPT ![c] = a]

-----------------------------------------------------------------------------
(* The repositories                                                        *)

Exists(b) == b \in businesses

GetByID(k) == keyState[k] # "none"

\* Mutant of CountActive: it counts the revoked keys.
CountRevoked(b) == {k \in Calls : keyState[k] = "revoked" /\ owner[k] = b}

\* CountActive, as the set it counts.
CountActive(b) == {k \in Calls : Active(k) /\ owner[k] = b}

\* Mutant of GetByHash: without AND revoked_at IS NULL.
GetByHashAny(key) == keyState[key] # "none"

\* The row a bearer finds: not revoked.
GetByHash(key) == Active(key)

Create(k, b) ==
    /\ keyState' = [keyState EXCEPT ![k] = "active"]
    /\ owner' = [owner EXCEPT ![k] = b]
    /\ latest' = [latest EXCEPT ![b] = k]

\* UPDATE ... WHERE id = k AND revoked_at IS NULL; that no row matched is not
\* noticed.
Revoke(k, c) ==
    /\ keyState' = [keyState EXCEPT ![k] = IF @ = "active" THEN "revoked" ELSE @]
    /\ revoker' = [revoker EXCEPT ![k] = IF Active(k) THEN c ELSE @]

-----------------------------------------------------------------------------
\* POST /businesses needs no key.
CreateBusiness(b) ==
    /\ businesses' = businesses \cup {b}
    /\ UNCHANGED <<keyState, owner, used, pc, callVars, biz, touch, answer, historyVars>>

\* A merchant sends a call, with a secret it was given or without one.  Only
\* the body of POST /api-keys names a business, and it may not.
Send(c, k, key, t, b) ==
    /\ pc[c] = "idle"
    /\ key # None => SecretKnown(key)
    /\ IF k \in {"revoke", "rotate"} THEN t # None ELSE t = None
    /\ k # "create" => b = None
    /\ kind' = [kind EXCEPT ![c] = k]
    /\ bearer' = [bearer EXCEPT ![c] = key]
    /\ target' = [target EXCEPT ![c] = t]
    /\ biz' = [biz EXCEPT ![c] = b]
    /\ activeAtSend' = [activeAtSend EXCEPT ![c] = {x \in Calls : Active(x)}]
    /\ Goto(c, "auth")
    /\ UNCHANGED <<rowVars, used, touch, historyVars>>

-----------------------------------------------------------------------------
(* middleware/auth.go                                                      *)

\* The routes: POST /api-keys lets a call without a key through, the others
\* do not; only the latter record the use.
OptionalAuth(k) == k = "create"

\* APIKeyAuth and OptionalAPIKeyAuth.  The handler works for the business of
\* the key, whatever the body says; an error of the read counts as no row.
Authenticate(c) ==
    /\ pc[c] = "auth"
    /\ \/ /\ bearer[c] = None
          /\ OptionalAuth(kind[c])
          /\ Goto(c, "handler")
          /\ UNCHANGED <<biz, touch>>
       \/ /\ bearer[c] # None
          /\ GetByHash(bearer[c])
          /\ biz' = [biz EXCEPT ![c] = owner[bearer[c]]]
          /\ touch' = IF OptionalAuth(kind[c]) THEN touch ELSE touch \cup {c}
          /\ Goto(c, IF kind[c] \in {"revoke", "rotate"} THEN "owned" ELSE "handler")
       \/ /\ bearer[c] # None \/ ~OptionalAuth(kind[c])
          /\ Answer(c, "unauthorized")
          /\ UNCHANGED <<biz, touch>>
    /\ UNCHANGED <<rowVars, used, callVars, historyVars>>

\* The goroutine's UPDATE, which ignores its own failure.
TouchLastUsed(c) ==
    /\ c \in touch
    /\ touch' = touch \ {c}
    /\ \/ used' = used \cup {bearer[c]}
       \/ UNCHANGED used
    /\ UNCHANGED <<rowVars, pc, callVars, biz, answer, historyVars>>

-----------------------------------------------------------------------------
(* The handlers and api_key_service.go                                     *)

\* GET /api-keys, and with it every other call that only needs a key.
ListAPIKeys(c) ==
    /\ pc[c] = "handler" /\ kind[c] = "list"
    /\ Answer(c, "ok")
    /\ UNCHANGED <<rowVars, used, callVars, biz, touch, historyVars>>

\* Mutant of CreateAPIKey: the business is not looked up.
CreateUnchecked(c) ==
    /\ pc[c] = "handler" /\ kind[c] = "create"
    /\ \/ biz[c] = None /\ Answer(c, "badRequest")
       \/ biz[c] # None /\ Goto(c, IF bearer[c] = None THEN "count" ELSE "issue")
    /\ UNCHANGED <<rowVars, used, callVars, biz, touch, historyVars>>

\* CreateAPIKey up to Exists: a call without a key goes on to the bootstrap
\* rule, an authenticated one does not.
CreateAPIKey(c) ==
    /\ pc[c] = "handler" /\ kind[c] = "create"
    /\ \/ biz[c] = None /\ Answer(c, "badRequest")
       \/ biz[c] # None /\ ~Exists(biz[c]) /\ Answer(c, "notFound")
       \/ /\ Exists(biz[c])
          /\ Goto(c, IF bearer[c] = None THEN "count" ELSE "issue")
    /\ UNCHANGED <<rowVars, used, callVars, biz, touch, historyVars>>

\* The bootstrap rule: without a key, only if the business has no active one.
CountActiveKeys(c) ==
    /\ pc[c] = "count"
    /\ \/ CountActive(biz[c]) = {} /\ Goto(c, "issue")
       \/ CountActive(biz[c]) # {} /\ Answer(c, "bootstrap")
    /\ UNCHANGED <<rowVars, used, callVars, biz, touch, historyVars>>

\* issueKey inserts the row; a rotation then revokes the old key.
IssueKey(c) ==
    /\ pc[c] = "issue"
    /\ Create(c, biz[c])
    /\ Goto(c, IF kind[c] = "rotate" THEN "revoke" ELSE "reply")
    /\ UNCHANGED <<businesses, used, callVars, biz, touch, revoker>>

\* Mutant of OwnedKey: the key's business is not compared.
AnyKey(c) ==
    /\ pc[c] = "owned"
    /\ \/ Answer(c, "notFound")
       \/ keyState[target[c]] = "revoked" /\ Answer(c, "revoked")
       \/ Active(target[c]) /\ Goto(c, IF kind[c] = "rotate" THEN "issue" ELSE "revoke")
    /\ UNCHANGED <<rowVars, used, callVars, biz, touch, historyVars>>

\* ownedKey and the check of RevokedAt, in RevokeAPIKey and RotateAPIKey.  An
\* error of the read counts as no row.  What it saw is not looked at again.
OwnedKey(c) ==
    LET k == target[c]
    IN  /\ pc[c] = "owned"
        /\ \/ Answer(c, "notFound")
           \/ GetByID(k) /\ owner[k] # biz[c] /\ Answer(c, "notOwned")
           \/ keyState[k] = "revoked" /\ owner[k] = biz[c] /\ Answer(c, "revoked")
           \/ /\ Active(k) /\ owner[k] = biz[c]
              /\ Goto(c, IF kind[c] = "rotate" THEN "issue" ELSE "revoke")
        /\ UNCHANGED <<rowVars, used, callVars, biz, touch, historyVars>>

\* Mutant of RevokeKey: a rotation passes the id of the key it has issued.
RevokeIssued(c) ==
    /\ pc[c] = "revoke"
    /\ Revoke(IF kind[c] = "rotate" THEN c ELSE target[c], c)
    /\ Goto(c, "reply")
    /\ UNCHANGED <<businesses, owner, used, callVars, biz, touch, latest>>

\* The last statement of RevokeAPIKey and RotateAPIKey.
RevokeKey(c) ==
    /\ pc[c] = "revoke"
    /\ Revoke(target[c], c)
    /\ Goto(c, "reply")
    /\ UNCHANGED <<businesses, owner, used, callVars, biz, touch, latest>>

\* The answer reaches the merchant, with the secret if there is one.
Reply(c) ==
    /\ pc[c] = "reply"
    /\ Answer(c, CASE kind[c] = "create" -> "created"
                   [] kind[c] = "rotate" -> "rotated"
                   [] OTHER -> "ok")
    /\ UNCHANGED <<rowVars, used, callVars, biz, touch, historyVars>>

\* A statement fails, the server stops or the answer is lost.  What was
\* written stays.
Fail(c) ==
    /\ pc[c] \in Running
    /\ Answer(c, "error")
    /\ UNCHANGED <<rowVars, used, callVars, biz, touch, historyVars>>

-----------------------------------------------------------------------------
Step(c) ==
    \/ Authenticate(c) \/ TouchLastUsed(c)
    \/ ListAPIKeys(c) \/ CreateAPIKey(c) \/ CountActiveKeys(c) \/ IssueKey(c)
    \/ OwnedKey(c) \/ RevokeKey(c) \/ Reply(c) \/ Fail(c)

Next ==
    \/ \E b \in BusinessIds : CreateBusiness(b)
    \/ \E c \in Calls, k \in Kinds, key, t \in Calls \cup {None},
          b \in BusinessIds \cup {None} : Send(c, k, key, t, b)
    \/ \E c \in Calls : Step(c)

Spec == Init /\ [][Next]_vars

-----------------------------------------------------------------------------
(* Properties                                                              *)

\* Types, and the foreign key of api_keys: a row's business exists.
TypeOK ==
    /\ businesses \in SUBSET BusinessIds
    /\ keyState \in [Calls -> {"none", "active", "revoked"}]
    /\ owner \in [Calls -> BusinessIds \cup {None}]
    /\ used \in SUBSET Calls
    /\ pc \in [Calls -> {"idle", "auth", "done"} \cup Running]
    /\ kind \in [Calls -> Kinds]
    /\ bearer \in [Calls -> Calls \cup {None}]
    /\ target \in [Calls -> Calls \cup {None}]
    /\ biz \in [Calls -> BusinessIds \cup {None}]
    /\ touch \in SUBSET Calls
    /\ answer \in [Calls -> {"none", "created", "rotated", "ok", "error"} \cup Refusals]
    /\ activeAtSend \in [Calls -> SUBSET Calls]
    /\ revoker \in [Calls -> Calls \cup {None}]
    /\ latest \in [BusinessIds -> Calls \cup {None}]
    /\ \A k \in Calls : keyState[k] # "none" => owner[k] \in businesses

\* The middleware has let the call through on the strength of its key.
Authenticated(c) ==
    /\ bearer[c] # None
    /\ pc[c] \in Running \cup {"done"}
    /\ answer[c] # "unauthorized"

\* A revocation is immediate: a call sent after revoked_at was set is never
\* let through, whoever revoked the key and whatever other calls with the
\* same key are still running.
ImmediateRevocation ==
    \A c \in Calls : Authenticated(c) => bearer[c] \in activeAtSend[c]

\* Keys stay within their business: an authenticated call issues keys only
\* to, and revokes keys only of, the business whose key it presented.
KeysStayInTenant ==
    \A c \in Calls :
        /\ bearer[c] # None /\ keyState[c] # "none" => owner[c] = owner[bearer[c]]
        /\ \A k \in Calls : revoker[k] = c => bearer[c] # None /\ owner[k] = owner[bearer[c]]

\* Rotations never leave a business without an active key, however many
\* overlap, fail half-way or rotate each other's keys: the key issued last is
\* active unless the revocation of that very key was asked for.
RotationKeepsAKey ==
    \A b \in BusinessIds :
        LET k == latest[b]
        IN  \/ k = None \/ Active(k)
            \/ revoker[k] # None /\ kind[revoker[k]] = "revoke"

\* A key is issued to a call without a key only if every key the business
\* had when the call was sent has been revoked by now: a business that can
\* still use a key is not given another by whoever comes later.  The comment
\* in CreateAPIKey and openapi.yaml promise more, see FirstKeyOnly below.
BootstrapOnlyWhenLockedOut ==
    \A c, k \in Calls :
        /\ bearer[c] = None /\ keyState[c] # "none"
        /\ k \in activeAtSend[c] /\ owner[k] = biz[c]
        => keyState[k] = "revoked"

-----------------------------------------------------------------------------
(* What the repository's documents say and the code does not keep          *)

\* openapi.yaml: without Bearer, a key is created only if the business has
\* no active key.
BootstrapOnlyWithoutKey ==
    [][ \A c \in Calls :
          bearer[c] = None /\ keyState[c] = "none" /\ keyState'[c] = "active"
          => CountActive(biz[c]) = {} ]_vars

\* CreateAPIKey's comment and openapi.yaml: creating a key without Bearer is
\* for the first key only.  So a call without a key gets past the bootstrap
\* check only if its business has never had one, revoked ones included.
FirstKeyOnly ==
    [][ \A c \in Calls :
          bearer[c] = None /\ pc[c] = "count" /\ pc'[c] = "issue"
          => ~ \E k \in Calls : keyState[k] # "none" /\ owner[k] = biz[c] ]_vars
=============================================================================
