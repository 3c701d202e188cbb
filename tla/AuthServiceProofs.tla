-------------------------- MODULE AuthServiceProofs --------------------------
(* What AuthService guarantees for any users, tokens and requests.          *)
EXTENDS AuthService, TLAPS

\* After the answer nothing of it is usable, nor can it be generated again.
WipeAnswered ==
  \A r \in Requests : reply[r] = "reuse detected" =>
    /\ pc[r] = "done"
    /\ \A k \in snapshot[r] : k \in issued /\ store[k] # "unused"

AuthInv == TypeOK /\ KeysIssued /\ WipeOwes /\ WipeAnswered

LEMMA InitInv == ASSUME Init PROVE AuthInv
BY TokenAssumption
   DEF Init, AuthInv, TypeOK, KeysIssued, WipeOwes, WipeAnswered, Steps, Replies

\* The type invariant is inductive by itself.
LEMMA TypeStep == ASSUME TypeOK, [Next]_vars PROVE TypeOK'
<1> USE TokenAssumption DEF TypeOK, Steps, Replies, Goto, Answer
<1>1. ASSUME NEW r \in Requests, NEW u \in Users, Login(r, u) PROVE TypeOK'
  BY <1>1 DEF Login
<1>2. ASSUME NEW r \in Requests, NEW k \in TokenIds, RefreshRead(r, k) PROVE TypeOK'
  <2>1. TokenUser[k] \in Users
    OBVIOUS
  <2>2. Present(TokenUser[k]) \subseteq TokenIds /\ Unused(TokenUser[k]) \subseteq TokenIds
    BY DEF Present, Unused
  <2>3. usr' \in [Requests -> Users] /\ tok' \in [Requests -> TokenIds \cup {NoToken}]
    BY <1>2, <2>1 DEF RefreshRead
  <2>4. UNCHANGED <<accounts, issued, store, successors>> /\ raced' \in SUBSET TokenIds
    BY <1>2 DEF RefreshRead
  <2>5. pc' \in [Requests -> Steps] /\ reply' \in [Requests -> Replies]
    BY <1>2 DEF RefreshRead
  <2>6. \/ UNCHANGED <<pending, snapshot>>
        \/ /\ pending' = [pending EXCEPT ![r] = Present(TokenUser[k])]
           /\ snapshot' = [snapshot EXCEPT ![r] = Unused(TokenUser[k])]
    BY <1>2 DEF RefreshRead
  <2>7. /\ pending' \in [Requests -> SUBSET TokenIds]
        /\ snapshot' \in [Requests -> SUBSET TokenIds]
    <3>1. CASE UNCHANGED <<pending, snapshot>>
      BY <3>1
    <3>2. CASE pending' = [pending EXCEPT ![r] = Present(TokenUser[k])]
      <4>1. snapshot' = [snapshot EXCEPT ![r] = Unused(TokenUser[k])]
               \/ UNCHANGED snapshot
        BY <2>6
      <4>2. pending' \in [Requests -> SUBSET TokenIds]
        BY <2>2, <3>2
      <4>3. snapshot' \in [Requests -> SUBSET TokenIds]
        BY <2>2, <4>1
      <4> QED BY <4>2, <4>3
    <3> QED BY <2>6, <3>1, <3>2
  <2> QED BY <2>3, <2>4, <2>5, <2>7
<1>3. ASSUME NEW r \in Requests, NEW k \in TokenIds, Logout(r, k) PROVE TypeOK'
  BY <1>3 DEF Logout, Delete
<1>4. ASSUME NEW r \in Requests, MarkUsed(r) PROVE TypeOK'
  BY <1>4 DEF MarkUsed
<1>5. ASSUME NEW r \in Requests, FetchUser(r) PROVE TypeOK'
  BY <1>5 DEF FetchUser
<1>6. ASSUME NEW r \in Requests, GenerateTokens(r) PROVE TypeOK'
  <2>1. PICK k \in TokenIds \ issued :
          /\ issued' = issued \cup {k}
          /\ store' = [store EXCEPT ![k] = "unused"]
          /\ successors' = IF tok[r] = NoToken THEN successors
                           ELSE [successors EXCEPT ![tok[r]] = @ \cup {k}]
    BY <1>6 DEF GenerateTokens
  <2>2. tok[r] # NoToken => tok[r] \in TokenIds
    OBVIOUS
  <2>3. successors' \in [TokenIds -> SUBSET TokenIds]
    BY <2>1, <2>2
  <2>4. issued' \in SUBSET TokenIds /\ store' \in [TokenIds -> {"absent", "unused", "used"}]
    BY <2>1
  <2>5. UNCHANGED <<accounts, usr, tok, pending, snapshot, raced>>
    BY <1>6 DEF GenerateTokens
  <2>6. pc' \in [Requests -> Steps] /\ reply' \in [Requests -> Replies]
    BY <1>6 DEF GenerateTokens
  <2> QED BY <2>3, <2>4, <2>5, <2>6
<1>7. ASSUME NEW r \in Requests, WipeBatch(r) PROVE TypeOK'
  <2>1. PICK keys : Delete(keys)
    BY <1>7 DEF WipeBatch
  <2>2. /\ store' \in [TokenIds -> {"absent", "unused", "used"}]
        /\ pending' \in [Requests -> SUBSET TokenIds]
    BY <2>1 DEF Delete
  <2> QED BY <1>7, <2>2 DEF WipeBatch
<1>8. ASSUME NEW r \in Requests, WipeEnd(r) PROVE TypeOK'
  BY <1>8 DEF WipeEnd
<1>9. ASSUME NEW r \in Requests, Finish(r) PROVE TypeOK'
  BY <1>9 DEF Finish
<1>10. ASSUME NEW k \in TokenIds, Expire(k) PROVE TypeOK'
  BY <1>10 DEF Expire, Delete
<1>11. ASSUME NEW u \in Users, RemoveUser(u) PROVE TypeOK'
  BY <1>11 DEF RemoveUser, reqVars
<1>12. CASE UNCHANGED vars
  BY <1>12 DEF vars, reqVars
<1> QED
  BY <1>1, <1>2, <1>3, <1>4, <1>5, <1>6, <1>7, <1>8, <1>9, <1>10, <1>11, <1>12
     DEF Next, Progress

\* Deleting keys disturbs none of the three parts: it makes no key usable and
\* clears from every SCAN exactly the keys that are gone.
LEMMA DeleteKeeps ==
  ASSUME AuthInv, NEW keys \in SUBSET TokenIds, Delete(keys),
         UNCHANGED <<issued, pc, tok, reply, snapshot>>
  PROVE  KeysIssued' /\ WipeOwes' /\ WipeAnswered'
BY DEF AuthInv, TypeOK, KeysIssued, WipeOwes, WipeAnswered, Delete

LEMMA StepInv == ASSUME AuthInv, [Next]_vars PROVE AuthInv'
<1>0. TypeOK'
  BY TypeStep DEF AuthInv
<1> SUFFICES KeysIssued' /\ WipeOwes' /\ WipeAnswered'
  BY <1>0 DEF AuthInv
<1> USE TokenAssumption DEF AuthInv, TypeOK, KeysIssued, WipeOwes, WipeAnswered, Goto, Answer
<1>1. ASSUME NEW r \in Requests, NEW u \in Users, Login(r, u)
      PROVE  KeysIssued' /\ WipeOwes' /\ WipeAnswered'
  BY <1>1 DEF Login
<1>2. ASSUME NEW r \in Requests, NEW k \in TokenIds, RefreshRead(r, k)
      PROVE  KeysIssued' /\ WipeOwes' /\ WipeAnswered'
  <2>1. CASE pc'[r] = "wipe"
    <3>1. /\ pending'[r] = Present(TokenUser[k]) /\ snapshot'[r] = Unused(TokenUser[k])
          /\ store' = store /\ issued' = issued /\ reply' = reply
          /\ \A q \in Requests \ {r} : /\ pc'[q] = pc[q] /\ tok'[q] = tok[q]
                                       /\ pending'[q] = pending[q] /\ snapshot'[q] = snapshot[q]
      BY <1>2, <2>1 DEF RefreshRead
    <3>2. \A j \in Unused(TokenUser[k]) : j \in issued /\ j \in Present(TokenUser[k])
      BY DEF Unused, Present
    <3>3. pc[r] = "idle" /\ pc'[r] # "mark"
      BY <1>2, <2>1 DEF RefreshRead
    <3>4. KeysIssued'
      BY <3>1, <3>3
    <3>5. ASSUME NEW q \in Requests, pc'[q] = "wipe", NEW j \in snapshot'[q]
          PROVE  j \in issued' /\ (store'[j] = "unused" => j \in pending'[q])
      <4>1. CASE q = r
        <5>1. j \in Unused(TokenUser[k])
          BY <3>1, <3>5, <4>1
        <5>2. j \in issued /\ j \in Present(TokenUser[k])
          BY <3>2, <5>1
        <5>3. issued' = issued /\ pending'[q] = Present(TokenUser[k])
          BY <3>1, <4>1
        <5> QED BY <5>2, <5>3
      <4>2. CASE q # r
        BY <3>1, <3>5, <4>2
      <4> QED BY <4>1, <4>2
    <3>6. ASSUME NEW q \in Requests, reply'[q] = "reuse detected"
          PROVE  /\ pc'[q] = "done"
                 /\ \A j \in snapshot'[q] : j \in issued' /\ store'[j] # "unused"
      <4>1. q # r
        BY <3>1, <3>3, <3>6
      <4> QED BY <3>1, <3>6, <4>1
    <3> QED BY <3>4, <3>5, <3>6
  <2>2. CASE pc'[r] # "wipe"
    <3>1. /\ UNCHANGED <<store, issued, pending, snapshot>>
          /\ pc[r] = "idle" /\ tok'[r] = k /\ k \in issued
          /\ reply'[r] = "reuse detected" => reply[r] = "reuse detected"
      BY <1>2, <2>2 DEF RefreshRead
    <3>2. \A q \in Requests \ {r} : pc'[q] = pc[q] /\ tok'[q] = tok[q] /\ reply'[q] = reply[q]
      BY <1>2 DEF RefreshRead
    <3>3. KeysIssued'
      BY <3>1, <3>2
    <3>4. WipeOwes'
      BY <2>2, <3>1, <3>2
    <3>5. WipeAnswered'
      BY <3>1, <3>2
    <3> QED BY <3>3, <3>4, <3>5
  <2> QED BY <2>1, <2>2
<1>3. ASSUME NEW r \in Requests, NEW k \in TokenIds, Logout(r, k)
      PROVE  KeysIssued' /\ WipeOwes' /\ WipeAnswered'
  BY <1>3 DEF Logout, Delete
<1>4. ASSUME NEW r \in Requests, MarkUsed(r)
      PROVE  KeysIssued' /\ WipeOwes' /\ WipeAnswered'
  BY <1>4 DEF MarkUsed
<1>5. ASSUME NEW r \in Requests, FetchUser(r)
      PROVE  KeysIssued' /\ WipeOwes' /\ WipeAnswered'
  BY ZenonT(60), <1>5 DEF FetchUser
<1>6. ASSUME NEW r \in Requests, GenerateTokens(r)
      PROVE  KeysIssued' /\ WipeOwes' /\ WipeAnswered'
  <2>1. PICK k \in TokenIds \ issued :
          issued' = issued \cup {k} /\ store' = [store EXCEPT ![k] = "unused"]
    BY <1>6 DEF GenerateTokens
  <2>2. /\ UNCHANGED <<tok, pending, snapshot>>
        /\ pc' = [pc EXCEPT ![r] = "done"] /\ reply' = [reply EXCEPT ![r] = "ok"]
    BY <1>6 DEF GenerateTokens
  <2>3. \A j \in issued : j \in issued' /\ store'[j] = store[j]
    BY <2>1
  <2>4. KeysIssued'
    BY <2>1, <2>2
  <2>5. WipeOwes'
    BY <2>2, <2>3
  <2>6. WipeAnswered'
    BY <2>2, <2>3
  <2> QED BY <2>4, <2>5, <2>6
<1>7. ASSUME NEW r \in Requests, WipeBatch(r)
      PROVE  KeysIssued' /\ WipeOwes' /\ WipeAnswered'
  BY <1>7, DeleteKeeps DEF WipeBatch, Present
<1>8. ASSUME NEW r \in Requests, WipeEnd(r)
      PROVE  KeysIssued' /\ WipeOwes' /\ WipeAnswered'
  BY <1>8 DEF WipeEnd, ScanDone
<1>9. ASSUME NEW r \in Requests, Finish(r)
      PROVE  KeysIssued' /\ WipeOwes' /\ WipeAnswered'
  BY <1>9 DEF Finish
<1>10. ASSUME NEW k \in TokenIds, Expire(k)
      PROVE  KeysIssued' /\ WipeOwes' /\ WipeAnswered'
  BY <1>10, DeleteKeeps DEF Expire
<1>11. ASSUME NEW u \in Users, RemoveUser(u)
      PROVE  KeysIssued' /\ WipeOwes' /\ WipeAnswered'
  BY <1>11 DEF RemoveUser, reqVars
<1>12. CASE UNCHANGED vars
  BY <1>12 DEF vars, reqVars
<1> QED
  BY <1>1, <1>2, <1>3, <1>4, <1>5, <1>6, <1>7, <1>8, <1>9, <1>10, <1>11, <1>12
     DEF Next, Progress

THEOREM AuthInvariant == Spec => []AuthInv
BY InitInv, StepInv, PTL DEF Spec

\* auth.service.ts: state and requests are well typed, a key belongs to a token that
\* was generated, and a running wipe has all it found and is usable before it.
THEOREM SessionsCorrect == Spec => []SessionsInv
<1>1. AuthInv => SessionsInv
  BY DEF AuthInv, SessionsInv
<1> QED BY <1>1, AuthInvariant, PTL

\* invalidateAllSessions: when "reuse detected" is answered, no refresh token
\* usable when it began is usable, however requests interleave.
THEOREM WipeCorrect == Spec => []ReuseWipesSnapshot
<1>1. AuthInv => ReuseWipesSnapshot
  BY DEF AuthInv, WipeAnswered, ReuseWipesSnapshot
<1> QED BY <1>1, AuthInvariant, PTL

\* What was spent stays so in a step.
LEMMA SpentStep ==
  ASSUME AuthInv, [Next]_vars, NEW k \in issued, store[k] # "unused"
  PROVE  store'[k] # "unused" /\ k \in issued'
<1> USE DEF AuthInv, TypeOK
<1>1. CASE \E r \in Requests : GenerateTokens(r)
  BY <1>1 DEF GenerateTokens
<1>2. CASE \E r \in Requests : MarkUsed(r)
  BY <1>2 DEF MarkUsed
<1>3. CASE \/ \E r \in Requests, j \in TokenIds : Logout(r, j)
           \/ \E r \in Requests : WipeBatch(r)
           \/ \E j \in TokenIds : Expire(j)
  BY <1>3 DEF Logout, WipeBatch, Expire, Delete
<1>4. CASE store' = store /\ issued' = issued
  BY <1>4
<1> QED
  BY <1>1, <1>2, <1>3, <1>4
     DEF Next, Progress, Login, RefreshRead, FetchUser, WipeEnd, Finish, RemoveUser, vars

\* refresh and logout: a token spent, revoked or expired is never usable again.
THEOREM SpentCorrect == Spec => SpentStaysSpent
<1>1. ASSUME AuthInv, [Next]_vars
      PROVE  [\A k \in issued : store[k] # "unused" => store'[k] # "unused"]_vars
  BY <1>1, SpentStep
<1> QED BY <1>1, AuthInvariant, PTL DEF Spec, SpentStaysSpent

-----------------------------------------------------------------------------
(* Rotation.                                                               *)

\* r has read token k unused and has not exchanged it yet.
Exchanging(r, k) == pc[r] \in {"mark", "fetch user", "generate"} /\ tok[r] = k

\* A token that was not read twice has one request exchanging it, which has marked
\* it before it fetches the user, or has been exchanged; not both.
RotatesOnce(k) ==
  /\ \A p, q \in Requests : Exchanging(p, k) /\ Exchanging(q, k) => p = q
  /\ \A q \in Requests : Exchanging(q, k) =>
       /\ k \in issued /\ successors[k] = {}
       /\ pc[q] # "mark" => store[k] # "unused"
  /\ successors[k] # {} => k \in issued /\ store[k] # "unused"
  /\ \A a, b \in successors[k] : a = b

Rotation == \A k \in TokenIds \ raced : RotatesOnce(k)

LEMMA RotationInit == ASSUME Init PROVE Rotation
BY DEF Init, Rotation, RotatesOnce, Exchanging

\* A step that begins no exchange and ends none keeps it.
LEMMA RotationKept ==
  ASSUME AuthInv, Rotation, [Next]_vars, successors' = successors, raced' = raced,
         \A q \in Requests, k \in TokenIds : Exchanging(q, k)' =>
           Exchanging(q, k) /\ (pc'[q] # "mark" => pc[q] # "mark" \/ store'[k] # "unused")
  PROVE  Rotation'
<1> SUFFICES ASSUME NEW k \in TokenIds \ raced PROVE RotatesOnce(k)'
  BY DEF Rotation
<1>1. RotatesOnce(k)
  BY DEF Rotation
<1>2. k \in issued /\ store[k] # "unused" => k \in issued' /\ store'[k] # "unused"
  BY SpentStep
<1>3. k \in issued => k \in issued'
  BY DEF Next, Progress, Login, RefreshRead, Logout, MarkUsed, FetchUser, GenerateTokens, WipeBatch,
         WipeEnd, Finish, Expire, RemoveUser, vars
<1>4. \A p, q \in Requests : Exchanging(p, k)' /\ Exchanging(q, k)' => p = q
  BY <1>1 DEF RotatesOnce
<1>5. ASSUME NEW q \in Requests, Exchanging(q, k)'
      PROVE  /\ k \in issued' /\ successors'[k] = {}
             /\ pc'[q] # "mark" => store'[k] # "unused"
  BY <1>1, <1>2, <1>3, <1>5 DEF RotatesOnce
<1>6. successors'[k] # {} => k \in issued' /\ store'[k] # "unused"
  BY <1>1, <1>2 DEF RotatesOnce
<1>7. \A a, b \in successors'[k] : a = b
  BY <1>1 DEF RotatesOnce
<1> QED BY <1>4, <1>5, <1>6, <1>7 DEF RotatesOnce

LEMMA RotationStep == ASSUME AuthInv, Rotation, [Next]_vars PROVE Rotation'
<1> USE DEF AuthInv, TypeOK, Goto, Answer
<1>1. ASSUME NEW r \in Requests, NEW u \in Users, Login(r, u) PROVE Rotation'
  <2>1. \A q \in Requests, k \in TokenIds : Exchanging(q, k)' => Exchanging(q, k) /\ pc'[q] = pc[q]
    BY <1>1, TokenAssumption DEF Login, Exchanging
  <2> QED BY <1>1, <2>1, RotationKept DEF Login
<1>2. ASSUME NEW r \in Requests, NEW j \in TokenIds, RefreshRead(r, j) PROVE Rotation'
  <2>1. /\ UNCHANGED <<issued, store, successors>> /\ pc[r] = "idle" /\ j \in issued
        /\ \A q \in Requests \ {r} : pc'[q] = pc[q] /\ tok'[q] = tok[q]
        /\ tok'[r] = j
    BY <1>2 DEF RefreshRead
  <2>2. pc'[r] \in {"mark", "fetch user", "generate"} => pc'[r] = "mark" /\ store[j] = "unused"
    BY <1>2 DEF RefreshRead
  <2>3. SUFFICES ASSUME NEW k \in TokenIds \ raced' PROVE RotatesOnce(k)'
    BY DEF Rotation
  <2>4. k \notin raced
    BY <1>2 DEF RefreshRead
  <2>5. RotatesOnce(k)
    BY <2>4 DEF Rotation
  <2>6. CASE Exchanging(r, k)'
    <3>1. k = j /\ pc'[r] = "mark" /\ store[k] = "unused"
      BY <2>1, <2>2, <2>6 DEF Exchanging
    <3>2. \A q \in Requests : ~(pc[q] = "mark" /\ tok[q] = k)
      BY <1>2, <3>1 DEF RefreshRead
    <3>3. \A q \in Requests : ~Exchanging(q, k)
      BY <2>5, <3>1, <3>2 DEF RotatesOnce, Exchanging
    <3>4. \A q \in Requests : Exchanging(q, k)' => q = r
      BY <2>1, <3>3 DEF Exchanging
    <3>5. successors[k] = {}
      BY <2>5, <3>1 DEF RotatesOnce
    <3> QED BY <2>1, <3>1, <3>4, <3>5 DEF RotatesOnce
  <2>7. CASE ~Exchanging(r, k)'
    <3>1. \A q \in Requests : Exchanging(q, k)' => Exchanging(q, k) /\ pc'[q] = pc[q]
      BY <2>1, <2>7 DEF Exchanging
    <3> QED BY <2>1, <2>5, <3>1 DEF RotatesOnce
  <2> QED BY <2>6, <2>7
<1>3. ASSUME NEW r \in Requests, NEW j \in TokenIds, Logout(r, j) PROVE Rotation'
  <2>1. \A q \in Requests, k \in TokenIds : Exchanging(q, k)' => Exchanging(q, k) /\ pc'[q] = pc[q]
    BY <1>3 DEF Logout, Exchanging
  <2> QED BY <1>3, <2>1, RotationKept DEF Logout
<1>4. ASSUME NEW r \in Requests, MarkUsed(r) PROVE Rotation'
  <2>1. \A q \in Requests, k \in TokenIds : Exchanging(q, k)' =>
          Exchanging(q, k) /\ (pc'[q] # "mark" => pc[q] # "mark" \/ store'[k] # "unused")
    BY <1>4 DEF MarkUsed, Exchanging
  <2> QED BY <1>4, <2>1, RotationKept DEF MarkUsed
<1>5. ASSUME NEW r \in Requests, FetchUser(r) PROVE Rotation'
  <2>1. \A q \in Requests, k \in TokenIds : Exchanging(q, k)' =>
          Exchanging(q, k) /\ (pc'[q] # "mark" => pc[q] # "mark")
    BY <1>5 DEF FetchUser, Exchanging
  <2> QED BY <1>5, <2>1, RotationKept DEF FetchUser
<1>6. ASSUME NEW r \in Requests, GenerateTokens(r) PROVE Rotation'
  <2>1. PICK j \in TokenIds \ issued :
          /\ issued' = issued \cup {j} /\ store' = [store EXCEPT ![j] = "unused"]
          /\ successors' = IF tok[r] = NoToken THEN successors
                           ELSE [successors EXCEPT ![tok[r]] = @ \cup {j}]
    BY <1>6 DEF GenerateTokens
  <2>2. UNCHANGED <<tok, raced>> /\ pc[r] = "generate" /\ pc' = [pc EXCEPT ![r] = "done"]
    BY <1>6 DEF GenerateTokens
  <2>3. SUFFICES ASSUME NEW k \in TokenIds \ raced PROVE RotatesOnce(k)'
    BY <2>2 DEF Rotation
  <2>4. RotatesOnce(k)
    BY DEF Rotation
  <2>5. \A q \in Requests : Exchanging(q, k)' => q # r /\ Exchanging(q, k) /\ pc'[q] = pc[q]
    BY <2>2 DEF Exchanging
  <2>6. k \in issued => k \in issued' /\ store'[k] = store[k]
    BY <2>1
  <2>7. CASE tok[r] = k
    <3>1. Exchanging(r, k)
      BY <2>2, <2>7 DEF Exchanging
    <3>2. \A q \in Requests : ~Exchanging(q, k)'
      BY <2>4, <2>5, <3>1 DEF RotatesOnce
    <3>3. k \in issued /\ store[k] # "unused" /\ successors[k] = {}
      BY <2>2, <2>4, <3>1 DEF RotatesOnce
    <3>4. successors'[k] = {j}
      BY <2>1, <2>7, <3>3, TokenAssumption
    <3> QED BY <2>6, <3>2, <3>3, <3>4 DEF RotatesOnce
  <2>8. CASE tok[r] # k
    <3>1. successors'[k] = successors[k]
      BY <2>1, <2>8
    <3> QED BY <2>4, <2>5, <2>6, <3>1 DEF RotatesOnce
  <2> QED BY <2>7, <2>8
<1>7. ASSUME NEW r \in Requests, WipeBatch(r) PROVE Rotation'
  BY <1>7, RotationKept DEF WipeBatch, Exchanging
<1>8. ASSUME NEW r \in Requests, WipeEnd(r) PROVE Rotation'
  <2>1. \A q \in Requests, k \in TokenIds : Exchanging(q, k)' => Exchanging(q, k) /\ pc'[q] = pc[q]
    BY <1>8 DEF WipeEnd, Exchanging
  <2> QED BY <1>8, <2>1, RotationKept DEF WipeEnd
<1>9. ASSUME NEW r \in Requests, Finish(r) PROVE Rotation'
  <2>1. \A q \in Requests, k \in TokenIds : Exchanging(q, k)' => Exchanging(q, k) /\ pc'[q] = pc[q]
    BY <1>9 DEF Finish, Exchanging
  <2> QED BY <1>9, <2>1, RotationKept DEF Finish
<1>10. ASSUME NEW k \in TokenIds, Expire(k) PROVE Rotation'
  BY <1>10, RotationKept DEF Expire, Exchanging
<1>11. ASSUME NEW u \in Users, RemoveUser(u) PROVE Rotation'
  BY <1>11, RotationKept DEF RemoveUser, reqVars, Exchanging
<1>12. CASE UNCHANGED vars
  BY <1>12, RotationKept DEF vars, reqVars, Exchanging
<1> QED
  BY <1>1, <1>2, <1>3, <1>4, <1>5, <1>6, <1>7, <1>8, <1>9, <1>10, <1>11, <1>12
     DEF Next, Progress

\* refresh: a token is exchanged for one other at most, for any number of requests,
\* unless two of them read it before either marked it.
THEOREM RotationCorrect == Spec => []ExchangedOnce
<1>1. Spec => []Rotation
  BY RotationInit, RotationStep, AuthInvariant, PTL DEF Spec
<1>2. Rotation => ExchangedOnce
  BY DEF Rotation, RotatesOnce, ExchangedOnce
<1> QED BY <1>1, <1>2, PTL
=============================================================================
