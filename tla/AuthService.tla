----------------------------- MODULE AuthService -----------------------------
(***************************************************************************)
(* Refresh tokens (apps/api/src/modules/auth/auth.service.ts): login,      *)
(* refresh with rotation and reuse detection, logout.  The state is in     *)
(* Redis, one key per token id; between two awaits of a request any other  *)
(* request may run, so each Redis or database round trip is an action.     *)
(*                                                                         *)
(* Token ids are fresh uuids.  A key expires by itself: after 60 seconds   *)
(* once marked used, after 30 days before that.                            *)
(***************************************************************************)
EXTENDS Naturals, FiniteSets

CONSTANTS
  Users,
  TokenIds,
  TokenUser,    \* [TokenIds -> Users], whom an id will be generated for
  Requests,     \* requests the server handles at a time
  NoToken

VARIABLES
  accounts,     \* users whose row exists
  issued,       \* token ids generated so far
  store,        \* Redis: token id -> "absent", or its `used` flag
  pc,           \* request -> the round trip it does next
  usr,          \* request -> the user it acts for
  tok,          \* request -> the refresh token it presents
  pending,      \* request -> keys its SCAN still has to return
  reply,        \* request -> what it answered
  snapshot,     \* history: the unused keys of the user when the wipe began
  successors,   \* history: token -> tokens it was exchanged for
  raced         \* history: tokens read by a refresh before another had marked them

reqVars == <<pc, usr, tok, pending, reply>>
vars == <<accounts, issued, store, reqVars, snapshot, successors, raced>>

ASSUME TokenAssumption ==
  /\ TokenUser \in [TokenIds -> Users]
  /\ NoToken \notin TokenIds

Steps   == {"idle", "mark", "fetch user", "generate", "wipe", "done"}
Replies == {"none", "ok", "not found", "reuse detected", "no user"}

TypeOK ==
  /\ accounts \in SUBSET Users
  /\ issued \in SUBSET TokenIds
  /\ store \in [TokenIds -> {"absent", "unused", "used"}]
  /\ pc \in [Requests -> Steps]
  /\ usr \in [Requests -> Users]
  /\ tok \in [Requests -> TokenIds \cup {NoToken}]
  /\ pending \in [Requests -> SUBSET TokenIds]
  /\ reply \in [Requests -> Replies]
  /\ snapshot \in [Requests -> SUBSET TokenIds]
  /\ successors \in [TokenIds -> SUBSET TokenIds]
  /\ raced \in SUBSET TokenIds

Init ==
  /\ accounts = Users
  /\ issued = {}
  /\ store = [k \in TokenIds |-> "absent"]
  /\ pc = [r \in Requests |-> "idle"]
  /\ usr \in [Requests -> Users]
  /\ tok = [r \in Requests |-> NoToken]
  /\ pending = [r \in Requests |-> {}]
  /\ reply = [r \in Requests |-> "none"]
  /\ snapshot = [r \in Requests |-> {}]
  /\ successors = [k \in TokenIds |-> {}]
  /\ raced = {}

Present(u) == {k \in TokenIds : TokenUser[k] = u /\ store[k] # "absent"}
Unused(u)  == {k \in TokenIds : TokenUser[k] = u /\ store[k] = "unused"}

\* DEL keys: a SCAN under way owes only keys that exist all the while.
Delete(keys) ==
  /\ store' = [k \in TokenIds |-> IF k \in keys THEN "absent" ELSE store[k]]
  /\ pending' = [r \in Requests |-> pending[r] \ keys]

Goto(r, step) == pc' = [pc EXCEPT ![r] = step]

Answer(r, what) ==
  /\ Goto(r, "done")
  /\ reply' = [reply EXCEPT ![r] = what]

-----------------------------------------------------------------------------

\* login: the user row is read and the password matches.
Login(r, u) ==
  /\ pc[r] = "idle" /\ u \in accounts
  /\ usr' = [usr EXCEPT ![r] = u]
  /\ tok' = [tok EXCEPT ![r] = NoToken]
  /\ Goto(r, "generate")
  /\ UNCHANGED <<accounts, issued, store, pending, reply, snapshot, successors, raced>>

\* refresh, up to the GET: the token verifies, so it was issued.
RefreshRead(r, k) ==
  /\ pc[r] = "idle" /\ k \in issued
  /\ usr' = [usr EXCEPT ![r] = TokenUser[k]]
  /\ tok' = [tok EXCEPT ![r] = k]
  /\ \/ /\ store[k] = "absent"
        /\ Answer(r, "not found")
        /\ UNCHANGED <<pending, snapshot>>
     \/ /\ store[k] = "used"
        /\ Goto(r, "wipe")
        /\ pending' = [pending EXCEPT ![r] = Present(TokenUser[k])]
        /\ snapshot' = [snapshot EXCEPT ![r] = Unused(TokenUser[k])]
        /\ UNCHANGED reply
     \/ /\ store[k] = "unused"
        /\ Goto(r, "mark")
        /\ UNCHANGED <<reply, pending, snapshot>>
  /\ raced' = IF store[k] = "unused" /\ \E q \in Requests : pc[q] = "mark" /\ tok[q] = k
              THEN raced \cup {k} ELSE raced
  /\ UNCHANGED <<accounts, issued, store, successors>>

\* Mutant of MarkUsed: the old token keeps its `used: false`.
MarkForgotten(r) ==
  /\ pc[r] = "mark"
  /\ store' = [store EXCEPT ![tok[r]] = "unused"]
  /\ Goto(r, "fetch user")
  /\ UNCHANGED <<accounts, issued, usr, tok, pending, reply, snapshot, successors, raced>>

\* SET key { used: true } EX 60, also when the key is gone by now.
MarkUsed(r) ==
  /\ pc[r] = "mark"
  /\ store' = [store EXCEPT ![tok[r]] = "used"]
  /\ Goto(r, "fetch user")
  /\ UNCHANGED <<accounts, issued, usr, tok, pending, reply, snapshot, successors, raced>>

FetchUser(r) ==
  /\ pc[r] = "fetch user"
  /\ \/ usr[r] \in accounts /\ Goto(r, "generate") /\ UNCHANGED reply
     \/ usr[r] \notin accounts /\ Answer(r, "no user")
  /\ UNCHANGED <<accounts, issued, store, usr, tok, pending, snapshot, successors, raced>>

\* generateTokens: a new id, SET key { used: false } EX 30 days, and the answer.
GenerateTokens(r) ==
  /\ pc[r] = "generate"
  /\ \E k \in TokenIds \ issued :
       /\ TokenUser[k] = usr[r]
       /\ issued' = issued \cup {k}
       /\ store' = [store EXCEPT ![k] = "unused"]
       /\ successors' = IF tok[r] = NoToken THEN successors
                        ELSE [successors EXCEPT ![tok[r]] = @ \cup {k}]
  /\ Answer(r, "ok")
  /\ UNCHANGED <<accounts, usr, tok, pending, snapshot, raced>>

\* Mutant of ScanDone: one batch is taken for the whole iteration.
ScanNeverWaits(r) == TRUE

\* The cursor is back at 0: every key there all along was returned.
ScanDone(r) == pending[r] = {}

\* Mutant of WipeBatch: one key of the batch goes into DEL.
OneOfBatch(r) ==
  /\ pc[r] = "wipe"
  /\ \E keys \in SUBSET Present(usr[r]) : \E k \in keys :
       /\ store' = [store EXCEPT ![k] = "absent"]
       /\ pending' = [pending EXCEPT ![r] = @ \ keys]
  /\ UNCHANGED <<accounts, issued, pc, usr, tok, reply, snapshot, successors, raced>>

\* invalidateAllSessions: SCAN returns some keys of the user and DEL follows;
\* a key set meanwhile may or may not be returned.  The step is the DEL: until
\* then the answer of SCAN is known to this request alone, and a key that went
\* in between needs no DEL any more.
WipeBatch(r) ==
  /\ pc[r] = "wipe"
  /\ \E keys \in SUBSET Present(usr[r]) : keys # {} /\ Delete(keys)
  /\ UNCHANGED <<accounts, issued, pc, usr, tok, reply, snapshot, successors, raced>>

WipeEnd(r) ==
  /\ pc[r] = "wipe"
  /\ ScanDone(r)
  /\ Answer(r, "reuse detected")
  /\ UNCHANGED <<accounts, issued, store, usr, tok, pending, snapshot, successors, raced>>

\* logout: DEL the key of the access token's tokenId.
Logout(r, k) ==
  /\ pc[r] = "idle" /\ k \in issued
  /\ usr' = [usr EXCEPT ![r] = TokenUser[k]]
  /\ tok' = [tok EXCEPT ![r] = k]
  /\ Delete({k})
  /\ Answer(r, "ok")
  /\ UNCHANGED <<accounts, issued, snapshot, successors, raced>>

\* The client has the answer; the request slot is free.
Finish(r) ==
  /\ pc[r] = "done"
  /\ Goto(r, "idle")
  /\ tok' = [tok EXCEPT ![r] = NoToken]
  /\ reply' = [reply EXCEPT ![r] = "none"]
  /\ snapshot' = [snapshot EXCEPT ![r] = {}]
  /\ UNCHANGED <<accounts, issued, store, usr, pending, successors, raced>>

\* The time to live of a key runs out.
Expire(k) ==
  /\ store[k] # "absent"
  /\ Delete({k})
  /\ UNCHANGED <<accounts, issued, pc, usr, tok, reply, snapshot, successors, raced>>

\* An administrator removes the user: the row goes, the Redis keys stay.
RemoveUser(u) ==
  /\ u \in accounts
  /\ accounts' = accounts \ {u}
  /\ UNCHANGED <<issued, store, reqVars, snapshot, successors, raced>>

\* What a request does by itself once it has started.
Progress(r) ==
  \/ MarkUsed(r) \/ FetchUser(r) \/ GenerateTokens(r)
  \/ WipeBatch(r) \/ WipeEnd(r)

Next ==
  \/ \E r \in Requests, u \in Users : Login(r, u)
  \/ \E r \in Requests, k \in TokenIds : RefreshRead(r, k) \/ Logout(r, k)
  \/ \E r \in Requests : Progress(r) \/ Finish(r)
  \/ \E k \in TokenIds : Expire(k)
  \/ \E u \in Users : RemoveUser(u)

Spec == Init /\ [][Next]_vars

-----------------------------------------------------------------------------
(* Properties.                                                             *)

\* A key in Redis belongs to a token that was generated, and so does the token a
\* refresh is about to mark.
KeysIssued ==
  /\ \A k \in TokenIds : store[k] # "absent" => k \in issued
  /\ \A r \in Requests : pc[r] = "mark" => tok[r] \in issued

\* What was usable when a wipe began is owed by its SCAN as long as it is usable.
WipeOwes ==
  \A r \in Requests : pc[r] = "wipe" =>
    \A k \in snapshot[r] : k \in issued /\ (store[k] = "unused" => k \in pending[r])

\* The session store and its requests are well typed, no key is there for a token
\* that was not generated, and a wipe under way still has before it every token it
\* found that is usable, whatever other wipes, logouts and refreshes do.
SessionsInv == TypeOK /\ KeysIssued /\ WipeOwes

\* Rotation never revives a token: once an issued token was marked used, logged
\* out, wiped or expired, no interleaving makes it unused again, not even the
\* late SET of a refresh that read it before.
SpentStaysSpent ==
  [][\A k \in issued : store[k] # "unused" => store'[k] # "unused"]_vars

\* When reuse detection answers, no refresh token that was usable when it began
\* is still usable, whatever logins, refreshes and logouts ran meanwhile.
ReuseWipesSnapshot ==
  \A r \in Requests : reply[r] = "reuse detected" =>
    \A k \in snapshot[r] : store[k] # "unused"

\* Rotation: a refresh token is exchanged for one other at most, whatever refreshes,
\* logouts, wipes and expiries meet, unless two refreshes had both read it before
\* either of them marked it.
ExchangedOnce ==
  \A k \in TokenIds \ raced : \A a, b \in successors[k] : a = b
=============================================================================
