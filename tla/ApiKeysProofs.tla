---------------------------- MODULE ApiKeysProofs ----------------------------
(***************************************************************************)
(* Proofs of the safety properties of ApiKeys for all sets of calls and    *)
(* businesses.                                                             *)
(***************************************************************************)
EXTENDS ApiKeys, TLAPS

Issued(k) == keyState[k] # "none"

\* What a key row says of the call that made it and of the calls that know it.
RowInv ==
    /\ \A k \in Calls :
          /\ Issued(k) => pc[k] \in {"revoke", "reply", "done"}
          /\ SecretKnown(k) => Issued(k)
          /\ pc[k] = "reply" /\ kind[k] \in {"create", "rotate"} => Issued(k)
          /\ pc[k] = "revoke" /\ kind[k] = "rotate" => Issued(k)
    /\ \A c \in Calls :
          /\ bearer[c] # None => Issued(bearer[c])
          /\ \A k \in activeAtSend[c] : Issued(k)
    /\ \A b \in BusinessIds :
          latest[b] # None => Issued(latest[b]) /\ owner[latest[b]] = b

\* What a handler has checked stays true until it acts on it.
HandlerInv ==
    \A c \in Calls :
        /\ pc[c] # "done" => answer[c] = "none"
        /\ pc[c] \in {"count", "issue", "owned", "revoke"} => biz[c] \in businesses
        /\ pc[c] \in Running /\ bearer[c] # None => biz[c] = owner[bearer[c]]
        /\ pc[c] = "count" => kind[c] = "create"
        /\ pc[c] = "issue" => kind[c] \in {"create", "rotate"}
        /\ pc[c] \in {"owned", "revoke"} => kind[c] \in {"revoke", "rotate"}
        /\ kind[c] \in {"revoke", "rotate"} /\ pc[c] # "idle" => target[c] \in Calls
        /\ c \in touch => bearer[c] # None
        /\ pc[c] = "idle" => c \notin touch
        /\ kind[c] \in {"revoke", "rotate"} /\ pc[c] \in Running => bearer[c] # None
        /\ pc[c] = "revoke" \/ (pc[c] = "issue" /\ kind[c] = "rotate") =>
              Issued(target[c]) /\ owner[target[c]] = biz[c]

\* A key is revoked once and for good, by a call that is past its checks.
RevokedInv ==
    \A k \in Calls :
        /\ keyState[k] = "revoked" => revoker[k] # None
        /\ revoker[k] # None => keyState[k] = "revoked" /\ pc[revoker[k]] \in {"reply", "done"}

\* A key that was not active when it was sent is revoked.
SentInv ==
    \A c \in Calls :
        bearer[c] # None => bearer[c] \in activeAtSend[c] \/ keyState[bearer[c]] = "revoked"

\* A rotation that has issued its key is not about to revoke a newest one.
RotationInv ==
    \A c \in Calls, b \in BusinessIds :
        pc[c] = "revoke" /\ kind[c] = "rotate" => latest[b] # target[c]

\* A bootstrap that has passed the count found every earlier key revoked.
BootstrapInv ==
    \A c, k \in Calls :
        /\ bearer[c] = None /\ pc[c] = "issue"
        /\ k \in activeAtSend[c] /\ owner[k] = biz[c]
        => keyState[k] = "revoked"

IInv ==
    /\ TypeOK /\ RowInv /\ HandlerInv /\ RevokedInv /\ SentInv
    /\ RotationInv /\ BootstrapInv
    /\ ImmediateRevocation /\ KeysStayInTenant /\ RotationKeepsAKey
    /\ BootstrapOnlyWhenLockedOut

-----------------------------------------------------------------------------
\* The empty database satisfies the invariant.
LEMMA InitIInv == Init => IInv
  BY NoneIsNoId DEF Init, IInv, TypeOK, RowInv, HandlerInv, RevokedInv, SentInv, RotationInv,
     BootstrapInv, ImmediateRevocation, KeysStayInTenant, RotationKeepsAKey,
     BootstrapOnlyWhenLockedOut, Authenticated, Issued, Kinds, Running, Refusals, SecretKnown

\* Types, and that an issued key's business exists: the handler looked it up.
LEMMA TypeStep ==
    ASSUME TypeOK, RowInv, HandlerInv, Next
    PROVE  TypeOK'
<1> USE NoneIsNoId DEF HandlerInv, RowInv, TypeOK,
          Kinds, Refusals, Running, Goto, Answer, rowVars, callVars, historyVars
<1>1. CASE \E b \in BusinessIds : CreateBusiness(b)
  BY <1>1 DEF CreateBusiness
<1>2. CASE \E c \in Calls, k \in Kinds, key, t \in Calls \cup {None},
                 b \in BusinessIds \cup {None} : Send(c, k, key, t, b)
  BY <1>2 DEF Send
<1>3. CASE \E c \in Calls : Authenticate(c)
  BY <1>3 DEF Authenticate, OptionalAuth, GetByHash, Active
<1>4. CASE \E c \in Calls : TouchLastUsed(c)
  BY <1>4 DEF TouchLastUsed
<1>5. CASE \E c \in Calls : ListAPIKeys(c)
  BY <1>5 DEF ListAPIKeys
<1>6. CASE \E c \in Calls : CreateAPIKey(c)
  BY <1>6 DEF CreateAPIKey, Exists
<1>7. CASE \E c \in Calls : CountActiveKeys(c)
  BY <1>7 DEF CountActiveKeys, CountActive, Active
<1>8. CASE \E c \in Calls : IssueKey(c)
  BY <1>8 DEF IssueKey, Create
<1>9. CASE \E c \in Calls : OwnedKey(c)
  BY <1>9 DEF OwnedKey, GetByID, Active
<1>10. CASE \E c \in Calls : RevokeKey(c)
  BY <1>10 DEF RevokeKey, Revoke, Active
<1>11. CASE \E c \in Calls : Reply(c)
  BY <1>11 DEF Reply
<1>12. CASE \E c \in Calls : Fail(c)
  BY <1>12 DEF Fail
<1> QED  BY <1>1, <1>2, <1>3, <1>4, <1>5, <1>6, <1>7, <1>8, <1>9, <1>10, <1>11, <1>12 DEF Next, Step

\* Keys are issued once, and known once issued.
LEMMA RowStep ==
    ASSUME TypeOK, RowInv, HandlerInv, Next
    PROVE  RowInv'
<1> USE NoneIsNoId DEF HandlerInv, RowInv, TypeOK,
          Issued, SecretKnown, Running, Active, Goto, Answer, rowVars, callVars, historyVars
<1>1. CASE \E b \in BusinessIds : CreateBusiness(b)
  BY <1>1 DEF CreateBusiness
<1>2. CASE \E c \in Calls, k \in Kinds, key, t \in Calls \cup {None},
                 b \in BusinessIds \cup {None} : Send(c, k, key, t, b)
  BY <1>2 DEF Send
<1>3. CASE \E c \in Calls : Authenticate(c)
  BY <1>3 DEF Authenticate, OptionalAuth, GetByHash
<1>4. CASE \E c \in Calls : TouchLastUsed(c)
  BY <1>4 DEF TouchLastUsed
<1>5. CASE \E c \in Calls : ListAPIKeys(c)
  BY <1>5 DEF ListAPIKeys
<1>6. CASE \E c \in Calls : CreateAPIKey(c)
  BY <1>6 DEF CreateAPIKey, Exists
<1>7. CASE \E c \in Calls : CountActiveKeys(c)
  BY <1>7 DEF CountActiveKeys, CountActive
<1>8. CASE \E c \in Calls : IssueKey(c)
  BY <1>8 DEF IssueKey, Create
<1>9. CASE \E c \in Calls : OwnedKey(c)
  BY <1>9 DEF OwnedKey, GetByID
<1>10. CASE \E c \in Calls : RevokeKey(c)
  BY <1>10 DEF RevokeKey, Revoke
<1>11. CASE \E c \in Calls : Reply(c)
  BY <1>11 DEF Reply
<1>12. CASE \E c \in Calls : Fail(c)
  BY <1>12 DEF Fail
<1> QED  BY <1>1, <1>2, <1>3, <1>4, <1>5, <1>6, <1>7, <1>8, <1>9, <1>10, <1>11, <1>12 DEF Next, Step

\* Owners and business rows never change.
LEMMA HandlerStep ==
    ASSUME TypeOK, RowInv, HandlerInv, Next
    PROVE  HandlerInv'
<1> USE NoneIsNoId DEF HandlerInv, RowInv, TypeOK,
          Issued, SecretKnown, Running, Kinds, Active, Goto, Answer, rowVars, callVars, historyVars
<1>1. CASE \E b \in BusinessIds : CreateBusiness(b)
  BY <1>1 DEF CreateBusiness
<1>2. CASE \E c \in Calls, k \in Kinds, key, t \in Calls \cup {None},
                 b \in BusinessIds \cup {None} : Send(c, k, key, t, b)
  BY <1>2 DEF Send
<1>3. CASE \E c \in Calls : Authenticate(c)
  BY <1>3 DEF Authenticate, OptionalAuth, GetByHash
<1>4. CASE \E c \in Calls : TouchLastUsed(c)
  BY <1>4 DEF TouchLastUsed
<1>5. CASE \E c \in Calls : ListAPIKeys(c)
  BY <1>5 DEF ListAPIKeys
<1>6. CASE \E c \in Calls : CreateAPIKey(c)
  BY <1>6 DEF CreateAPIKey, Exists
<1>7. CASE \E c \in Calls : CountActiveKeys(c)
  BY <1>7 DEF CountActiveKeys, CountActive
<1>8. CASE \E c \in Calls : IssueKey(c)
  <2> PICK c \in Calls : IssueKey(c)
    BY <1>8
  <2>1. ~Issued(c) /\ biz[c] \in BusinessIds
    BY DEF IssueKey
  <2>2. /\ \A k \in Calls : Issued(k) => Issued(k)' /\ owner'[k] = owner[k]
        /\ pc' = [pc EXCEPT ![c] = IF kind[c] = "rotate" THEN "revoke" ELSE "reply"]
        /\ UNCHANGED <<answer, businesses, callVars, biz, touch>>
    BY <2>1 DEF IssueKey, Create
  <2>3. pc[c] = "issue"
    BY DEF IssueKey
  <2>4. \A d \in Calls : bearer[d] # None => bearer[d] \in Calls
    OBVIOUS
  <2> QED
    <3> TAKE d \in Calls
    <3>1. CASE d = c
      BY <3>1, <2>2, <2>3, <2>4
    <3>2. CASE d # c
      BY <3>2, <2>2, <2>4
    <3> QED  BY <3>1, <3>2
<1>9. CASE \E c \in Calls : OwnedKey(c)
  BY <1>9 DEF OwnedKey, GetByID
<1>10. CASE \E c \in Calls : RevokeKey(c)
  BY <1>10 DEF RevokeKey, Revoke
<1>11. CASE \E c \in Calls : Reply(c)
  BY <1>11 DEF Reply
<1>12. CASE \E c \in Calls : Fail(c)
  BY <1>12 DEF Fail
<1> QED  BY <1>1, <1>2, <1>3, <1>4, <1>5, <1>6, <1>7, <1>8, <1>9, <1>10, <1>11, <1>12 DEF Next, Step

\* No step makes a revoked key active.
LEMMA RevokedStep ==
    ASSUME TypeOK, RowInv, HandlerInv, RevokedInv, Next
    PROVE  RevokedInv'
<1> USE NoneIsNoId DEF HandlerInv, RevokedInv, RowInv, TypeOK,
          Issued, Running, Goto, Answer, rowVars, callVars, historyVars
<1>1. CASE \E b \in BusinessIds : CreateBusiness(b)
  BY <1>1 DEF CreateBusiness
<1>2. CASE \E c \in Calls, k \in Kinds, key, t \in Calls \cup {None},
                 b \in BusinessIds \cup {None} : Send(c, k, key, t, b)
  BY <1>2 DEF Send
<1>3. CASE \E c \in Calls : Authenticate(c)
  BY <1>3 DEF Authenticate, OptionalAuth, GetByHash, Active
<1>4. CASE \E c \in Calls : TouchLastUsed(c)
  BY <1>4 DEF TouchLastUsed
<1>5. CASE \E c \in Calls : ListAPIKeys(c)
  BY <1>5 DEF ListAPIKeys
<1>6. CASE \E c \in Calls : CreateAPIKey(c)
  BY <1>6 DEF CreateAPIKey, Exists
<1>7. CASE \E c \in Calls : CountActiveKeys(c)
  BY <1>7 DEF CountActiveKeys, CountActive, Active
<1>8. CASE \E c \in Calls : IssueKey(c)
  BY <1>8 DEF IssueKey, Create
<1>9. CASE \E c \in Calls : OwnedKey(c)
  BY <1>9 DEF OwnedKey, GetByID, Active
<1>10. CASE \E c \in Calls : RevokeKey(c)
  BY <1>10 DEF RevokeKey, Revoke, Active
<1>11. CASE \E c \in Calls : Reply(c)
  BY <1>11 DEF Reply
<1>12. CASE \E c \in Calls : Fail(c)
  BY <1>12 DEF Fail
<1> QED  BY <1>1, <1>2, <1>3, <1>4, <1>5, <1>6, <1>7, <1>8, <1>9, <1>10, <1>11, <1>12 DEF Next, Step

\* The middleware lets an active key pass; it was active when sent.
LEMMA RevocationStep ==
    ASSUME TypeOK, RowInv, HandlerInv, SentInv, ImmediateRevocation, Next
    PROVE  SentInv' /\ ImmediateRevocation'
<1> USE NoneIsNoId DEF HandlerInv, ImmediateRevocation, RowInv, SentInv, TypeOK,
          Issued, Running, Authenticated, Active, SecretKnown, Goto, Answer, rowVars, callVars, historyVars
<1>1. CASE \E b \in BusinessIds : CreateBusiness(b)
  BY <1>1 DEF CreateBusiness
<1>2. CASE \E c \in Calls, k \in Kinds, key, t \in Calls \cup {None},
                 b \in BusinessIds \cup {None} : Send(c, k, key, t, b)
  BY <1>2 DEF Send
<1>3. CASE \E c \in Calls : Authenticate(c)
  BY <1>3 DEF Authenticate, OptionalAuth, GetByHash
<1>4. CASE \E c \in Calls : TouchLastUsed(c)
  BY <1>4 DEF TouchLastUsed
<1>5. CASE \E c \in Calls : ListAPIKeys(c)
  BY <1>5 DEF ListAPIKeys
<1>6. CASE \E c \in Calls : CreateAPIKey(c)
  BY <1>6 DEF CreateAPIKey, Exists
<1>7. CASE \E c \in Calls : CountActiveKeys(c)
  BY <1>7 DEF CountActiveKeys, CountActive
<1>8. CASE \E c \in Calls : IssueKey(c)
  BY <1>8 DEF IssueKey, Create
<1>9. CASE \E c \in Calls : OwnedKey(c)
  BY <1>9 DEF OwnedKey, GetByID
<1>10. CASE \E c \in Calls : RevokeKey(c)
  BY <1>10 DEF RevokeKey, Revoke
<1>11. CASE \E c \in Calls : Reply(c)
  BY <1>11 DEF Reply
<1>12. CASE \E c \in Calls : Fail(c)
  BY <1>12 DEF Fail
<1> QED  BY <1>1, <1>2, <1>3, <1>4, <1>5, <1>6, <1>7, <1>8, <1>9, <1>10, <1>11, <1>12 DEF Next, Step

\* What ownedKey compared still holds when the key is revoked.
LEMMA TenantStep ==
    ASSUME TypeOK, RowInv, HandlerInv, RevokedInv, KeysStayInTenant, Next
    PROVE  KeysStayInTenant'
<1> USE NoneIsNoId DEF HandlerInv, KeysStayInTenant, RevokedInv, RowInv, TypeOK,
          Issued, Running, Goto, Answer, rowVars, callVars, historyVars
<1>1. CASE \E b \in BusinessIds : CreateBusiness(b)
  BY <1>1 DEF CreateBusiness
<1>2. CASE \E c \in Calls, k \in Kinds, key, t \in Calls \cup {None},
                 b \in BusinessIds \cup {None} : Send(c, k, key, t, b)
  BY <1>2 DEF Send
<1>3. CASE \E c \in Calls : Authenticate(c)
  BY <1>3 DEF Authenticate, OptionalAuth, GetByHash, Active
<1>4. CASE \E c \in Calls : TouchLastUsed(c)
  BY <1>4 DEF TouchLastUsed
<1>5. CASE \E c \in Calls : ListAPIKeys(c)
  BY <1>5 DEF ListAPIKeys
<1>6. CASE \E c \in Calls : CreateAPIKey(c)
  BY <1>6 DEF CreateAPIKey, Exists
<1>7. CASE \E c \in Calls : CountActiveKeys(c)
  BY <1>7 DEF CountActiveKeys, CountActive, Active
<1>8. CASE \E c \in Calls : IssueKey(c)
  BY <1>8 DEF IssueKey, Create
<1>9. CASE \E c \in Calls : OwnedKey(c)
  BY <1>9 DEF OwnedKey, GetByID, Active
<1>10. CASE \E c \in Calls : RevokeKey(c)
  BY <1>10 DEF RevokeKey, Revoke, Active
<1>11. CASE \E c \in Calls : Reply(c)
  BY <1>11 DEF Reply
<1>12. CASE \E c \in Calls : Fail(c)
  BY <1>12 DEF Fail
<1> QED  BY <1>1, <1>2, <1>3, <1>4, <1>5, <1>6, <1>7, <1>8, <1>9, <1>10, <1>11, <1>12 DEF Next, Step

\* A rotation issues first, so what it revokes is not the newest key.
LEMMA RotationStep ==
    ASSUME TypeOK, RowInv, HandlerInv, RevokedInv, RotationInv, RotationKeepsAKey, Next
    PROVE  RotationInv' /\ RotationKeepsAKey'
<1> USE NoneIsNoId DEF HandlerInv, RevokedInv, RotationInv, RotationKeepsAKey, RowInv, TypeOK,
          Issued, Running, Active, Goto, Answer, rowVars, callVars, historyVars
<1>1. CASE \E b \in BusinessIds : CreateBusiness(b)
  BY <1>1 DEF CreateBusiness
<1>2. CASE \E c \in Calls, k \in Kinds, key, t \in Calls \cup {None},
                 b \in BusinessIds \cup {None} : Send(c, k, key, t, b)
  BY <1>2 DEF Send
<1>3. CASE \E c \in Calls : Authenticate(c)
  BY <1>3 DEF Authenticate, OptionalAuth, GetByHash
<1>4. CASE \E c \in Calls : TouchLastUsed(c)
  BY <1>4 DEF TouchLastUsed
<1>5. CASE \E c \in Calls : ListAPIKeys(c)
  BY <1>5 DEF ListAPIKeys
<1>6. CASE \E c \in Calls : CreateAPIKey(c)
  BY <1>6 DEF CreateAPIKey, Exists
<1>7. CASE \E c \in Calls : CountActiveKeys(c)
  BY <1>7 DEF CountActiveKeys, CountActive
<1>8. CASE \E c \in Calls : IssueKey(c)
  BY <1>8 DEF IssueKey, Create
<1>9. CASE \E c \in Calls : OwnedKey(c)
  BY <1>9 DEF OwnedKey, GetByID
<1>10. CASE \E c \in Calls : RevokeKey(c)
  BY <1>10 DEF RevokeKey, Revoke
<1>11. CASE \E c \in Calls : Reply(c)
  BY <1>11 DEF Reply
<1>12. CASE \E c \in Calls : Fail(c)
  BY <1>12 DEF Fail
<1> QED  BY <1>1, <1>2, <1>3, <1>4, <1>5, <1>6, <1>7, <1>8, <1>9, <1>10, <1>11, <1>12 DEF Next, Step

\* Keys known when a call was sent can only become revoked.
LEMMA BootstrapStep ==
    ASSUME TypeOK, RowInv, HandlerInv, BootstrapInv, BootstrapOnlyWhenLockedOut, Next
    PROVE  BootstrapInv' /\ BootstrapOnlyWhenLockedOut'
<1> USE NoneIsNoId DEF BootstrapInv, BootstrapOnlyWhenLockedOut, HandlerInv, RowInv, TypeOK,
          Issued, Running, Active, Goto, Answer, rowVars, callVars, historyVars
<1>1. CASE \E b \in BusinessIds : CreateBusiness(b)
  BY <1>1 DEF CreateBusiness
<1>2. CASE \E c \in Calls, k \in Kinds, key, t \in Calls \cup {None},
                 b \in BusinessIds \cup {None} : Send(c, k, key, t, b)
  BY <1>2 DEF Send
<1>3. CASE \E c \in Calls : Authenticate(c)
  BY <1>3 DEF Authenticate, OptionalAuth, GetByHash
<1>4. CASE \E c \in Calls : TouchLastUsed(c)
  BY <1>4 DEF TouchLastUsed
<1>5. CASE \E c \in Calls : ListAPIKeys(c)
  BY <1>5 DEF ListAPIKeys
<1>6. CASE \E c \in Calls : CreateAPIKey(c)
  BY <1>6 DEF CreateAPIKey, Exists
<1>7. CASE \E c \in Calls : CountActiveKeys(c)
  BY <1>7 DEF CountActiveKeys, CountActive
<1>8. CASE \E c \in Calls : IssueKey(c)
  BY <1>8 DEF IssueKey, Create
<1>9. CASE \E c \in Calls : OwnedKey(c)
  BY <1>9 DEF OwnedKey, GetByID
<1>10. CASE \E c \in Calls : RevokeKey(c)
  BY <1>10 DEF RevokeKey, Revoke
<1>11. CASE \E c \in Calls : Reply(c)
  BY <1>11 DEF Reply
<1>12. CASE \E c \in Calls : Fail(c)
  BY <1>12 DEF Fail
<1> QED  BY <1>1, <1>2, <1>3, <1>4, <1>5, <1>6, <1>7, <1>8, <1>9, <1>10, <1>11, <1>12 DEF Next, Step

\* Every step preserves the invariant.
LEMMA NextIInv == IInv /\ [Next]_vars => IInv'
<1> SUFFICES ASSUME IInv, [Next]_vars PROVE IInv'
  OBVIOUS
<1>1. CASE Next
  BY <1>1, TypeStep, RowStep, HandlerStep, RevokedStep, RevocationStep, TenantStep,
     RotationStep, BootstrapStep DEF IInv
<1>2. CASE UNCHANGED vars
  BY <1>2 DEF vars, rowVars, callVars, historyVars, IInv, TypeOK, RowInv, HandlerInv,
     RevokedInv, SentInv, RotationInv, BootstrapInv, ImmediateRevocation, KeysStayInTenant,
     RotationKeepsAKey, BootstrapOnlyWhenLockedOut, Authenticated, Issued, Active, SecretKnown
<1> QED  BY <1>1, <1>2

\* Whatever calls merchants send and however their handlers interleave and
\* fail, the invariant holds.
THEOREM Invariance == Spec => []IInv
  BY InitIInv, NextIInv, PTL DEF Spec

\* The tables and the handlers keep their types, and no key is issued to a
\* business that does not exist.
THEOREM TypeCorrect == Spec => []TypeOK
<1>1. IInv => TypeOK
  BY DEF IInv
<1> QED  BY Invariance, <1>1, PTL

\* The middleware never lets a call through that was sent after its key was
\* revoked.
THEOREM ImmediateRevocationHolds == Spec => []ImmediateRevocation
<1>1. IInv => ImmediateRevocation
  BY DEF IInv
<1> QED  BY Invariance, <1>1, PTL

\* No call issues or revokes a key of another business than its own key's.
THEOREM KeysStayInTenantHolds == Spec => []KeysStayInTenant
<1>1. IInv => KeysStayInTenant
  BY DEF IInv
<1> QED  BY Invariance, <1>1, PTL

\* Rotations, however they overlap and wherever they fail, leave the newest
\* key of a business active.
THEOREM RotationKeepsAKeyHolds == Spec => []RotationKeepsAKey
<1>1. IInv => RotationKeepsAKey
  BY DEF IInv
<1> QED  BY Invariance, <1>1, PTL

\* A key is issued without authentication only when the keys that were active
\* at the call's arrival are revoked.
THEOREM BootstrapOnlyWhenLockedOutHolds == Spec => []BootstrapOnlyWhenLockedOut
<1>1. IInv => BootstrapOnlyWhenLockedOut
  BY DEF IInv
<1> QED  BY Invariance, <1>1, PTL
==============================================================================
