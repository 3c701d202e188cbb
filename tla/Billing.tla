-------------------------------- MODULE Billing --------------------------------
(***************************************************************************)
(* The plan of one tenant: payments that raise it, PATCH /tenants/current, *)
(* the limits it sets on one resource, the caches in Redis, and the        *)
(* settings page of an administrator (apps/api/src/billing, middleware and *)
(* modules/tenants; apps/web/src/features/settings/TenantSettingsPage.tsx).*)
(*                                                                         *)
(* Each await of a handler ends an action.  YooKassa is external: it       *)
(* creates payments, and the customer pays or cancels them there.  A       *)
(* notification is taken as its body says.  Keys in Redis expire.          *)
(***************************************************************************)
EXTENDS Integers, FiniteSets

CONSTANTS
  Payments, Requests,  \* ids
  Limit,               \* PLAN_LIMITS of the resource: [plan -> Nat or Unlimited]
  Free, Priced,        \* the plan one registers with; the keys of PLAN_PRICES
  Unlimited, None,
  MaxRequests,         \* bound: requests in all
  MaxNotices,          \* bound: notifications in all
  MaxRows              \* bound: rows of the resource

VARIABLES
  plan,        \* tenants.plan
  rows,        \* how many of the resource the tenant has
  payment,     \* id -> its plan and status at YooKassa, or None
  pending,     \* yookassa:pending:<tenant>, a payment or None
  notices,     \* counter of the bound MaxNotices
  tenantCache, \* tenant:slug:<slug>, the plan in it or None
  countCache,  \* plan:count:<tenant>:<resource>, a number or None
  req,         \* request -> what it does, and how far it got
  page,        \* the settings page: plan of the store, ?upgraded=true, the answer
  meant,       \* history: the plan the last writer wanted
  clobbered,   \* history: a PATCH wrote back an older plan
  applied,     \* history: payments whose plan a verification wrote
  forgotten,   \* history: payments the key stopped naming before they were verified
  begun        \* counter of the bound MaxRequests

tenantVars == <<plan, meant, clobbered, applied, forgotten>>
payVars == <<payment, pending, notices>>
cacheVars == <<tenantCache, countCache>>
billingVars == <<tenantVars, payVars, cacheVars, rows, req, page, begun>>

Plans == DOMAIN Limit
Statuses == {"pending", "succeeded", "canceled"}
Answers == {"none", "succeeded", "pending", "canceled", "not_found", "error"}
Ops == {"checkout", "verify", "patch", "create", "visit"}
Steps == {"begun", "post", "key", "paid", "drop", "look", "count", "cache", "insert"}

Asks == [op : Ops, at : Steps, plan : Plans \cup {None}, want : Plans \cup {None},
         number : 0..MaxRows, pay : Payments \cup {None}]

ASSUME BillingAssumption ==
  /\ Free \in Plans /\ Priced \subseteq Plans
  /\ None \notin Plans \cup Payments \cup [plan : Priced, status : Statuses] \cup Asks
  /\ \A p \in Plans : Limit[p] \in Nat \/ Limit[p] = Unlimited
  /\ MaxRequests \in Nat /\ MaxNotices \in Nat /\ MaxRows \in Nat

BillingInit ==
  /\ plan = Free /\ meant = Free /\ clobbered = FALSE /\ applied = {} /\ forgotten = {}
  /\ payment = [p \in Payments |-> None] /\ pending = None /\ notices = 0
  /\ tenantCache = None /\ countCache = None
  /\ rows = 0
  /\ req = [r \in Requests |-> None]
  /\ page = [plan |-> Free, upgraded |-> FALSE, answer |-> "none"]
  /\ begun = 0

-----------------------------------------------------------------------------
(* Requests.  plan: what it read or wants; number: the count it has; pay:  *)
(* the payment it is about.                                                *)

At(r, op, at) == req[r] # None /\ req[r].op = op /\ req[r].at = at

Request(op, at, p) ==
  [op |-> op, at |-> at, plan |-> p, want |-> None, number |-> 0, pay |-> None]

Begin(r, what) ==
  /\ req[r] = None /\ begun < MaxRequests
  /\ begun' = begun + 1
  /\ req' = [req EXCEPT ![r] = what]

Step(r, what) == req' = [req EXCEPT ![r] = what]

-----------------------------------------------------------------------------
(* Payments.                                                               *)

WritePlan(p) == plan' = p /\ meant' = p /\ clobbered' = FALSE

\* The key names p from now on, or nothing: what it named, and was not verified, is forgotten.
NameOnly(p, verified) ==
  /\ pending' = p
  /\ forgotten' = forgotten \cup ({pending} \ {None, p, verified})
  /\ UNCHANGED <<plan, meant, clobbered, applied, payment, notices>>

\* The button is there while the store says FREE and nothing is being verified.
Checkout(r) ==
  /\ page.plan = Free /\ ~page.upgraded
  /\ \E p \in Priced : Begin(r, Request("checkout", "post", p))
  /\ UNCHANGED <<tenantVars, payVars, cacheVars, rows, page>>

\* POST /v3/payments, or an error and nothing.
CreatePayment(r) ==
  /\ At(r, "checkout", "post")
  /\ \/ \E p \in Payments :
          /\ payment[p] = None
          /\ payment' = [payment EXCEPT ![p] = [plan |-> req[r].plan, status |-> "pending"]]
          /\ Step(r, [req[r] EXCEPT !.at = "key", !.pay = p])
     \/ Step(r, None) /\ UNCHANGED payment
  /\ UNCHANGED <<tenantVars, pending, notices, cacheVars, rows, page, begun>>

\* The url is answered: the browser leaves for it.
StorePending(r) ==
  /\ At(r, "checkout", "key")
  /\ NameOnly(req[r].pay, None)
  /\ Step(r, None)
  /\ UNCHANGED <<cacheVars, rows, page, begun>>

\* The customer, whose url it was.
Settle(p) ==
  /\ payment[p] # None /\ payment[p].status = "pending"
  /\ \A r \in Requests : req[r] # None => ~(req[r].op = "checkout" /\ req[r].pay = p)
  /\ \E status \in {"succeeded", "canceled"} :
       payment' = [payment EXCEPT ![p].status = status]
  /\ UNCHANGED <<tenantVars, pending, notices, cacheVars, rows, req, page, begun>>

\* The browser comes back to return_url; the effect handles one answer.
Return ==
  /\ \E p \in Payments : payment[p] # None
  /\ ~page.upgraded
  /\ page' = [page EXCEPT !.upgraded = TRUE, !.answer = "none"]
  /\ UNCHANGED <<tenantVars, payVars, cacheVars, rows, req, begun>>

\* ?upgraded=true is still there after a pending answer.
Reload ==
  /\ page.upgraded /\ page.answer = "pending"
  /\ page' = [page EXCEPT !.answer = "none"]
  /\ UNCHANGED <<tenantVars, payVars, cacheVars, rows, req, begun>>

\* The answer reaches the page: all but "pending" take ?upgraded=true away.
Answered(answer, p) ==
  page' = [plan |-> IF answer = "succeeded" THEN p ELSE page.plan,
           upgraded |-> answer = "pending", answer |-> answer]

Verifying == \E r \in Requests : req[r] # None /\ req[r].op = "verify"

\* GET /billing/verify, once: retry of useQuery is asked about errors only.
VerifyKey(r) ==
  /\ page.upgraded /\ page.answer = "none" /\ ~Verifying
  /\ IF pending = None
     THEN Answered("not_found", None) /\ UNCHANGED <<req, begun>>
     ELSE /\ Begin(r, [Request("verify", "begun", None) EXCEPT !.pay = pending])
          /\ UNCHANGED page
  /\ UNCHANGED <<tenantVars, payVars, cacheVars, rows>>

\* Mutant of Over: a payment that is still pending is given up as well.
OverUnlessPaid(pay) == pay.status # "succeeded"

Over(pay) == pay.status = "canceled"

VerifyStatus(r) ==
  /\ At(r, "verify", "begun")
  /\ LET pay == payment[req[r].pay] IN
     \/ Answered("error", None) /\ Step(r, None)
     \/ pay.status = "pending" /\ ~Over(pay) /\ Answered("pending", None) /\ Step(r, None)
     \/ /\ pay.status = "succeeded"
        /\ Step(r, [req[r] EXCEPT !.at = "paid", !.plan = pay.plan])
        /\ UNCHANGED page
     \/ /\ Over(pay)
        /\ Step(r, [req[r] EXCEPT !.at = "drop", !.plan = None])
        /\ UNCHANGED page
  /\ UNCHANGED <<tenantVars, payVars, cacheVars, rows, begun>>

VerifyUpdate(r) ==
  /\ At(r, "verify", "paid")
  /\ WritePlan(req[r].plan)
  /\ applied' = applied \cup {req[r].pay}
  /\ Step(r, [req[r] EXCEPT !.at = "drop"])
  /\ UNCHANGED <<forgotten, payVars, cacheVars, rows, page, begun>>

\* DEL removes the key whatever payment it names by now.
VerifyDrop(r) ==
  /\ At(r, "verify", "drop")
  /\ NameOnly(None, req[r].pay)
  /\ Answered(IF req[r].plan = None THEN "canceled" ELSE "succeeded", req[r].plan)
  /\ Step(r, None)
  /\ UNCHANGED <<cacheVars, rows, begun>>

\* handleWebhook: a body that says payment.succeeded and names the tenant and a plan that
\* exists is applied; no payment is looked up, neither at YooKassa nor by the key.
Webhook ==
  /\ notices < MaxNotices /\ notices' = notices + 1
  /\ \E p \in Plans : WritePlan(p)
  /\ UNCHANGED <<applied, forgotten, payment, pending, cacheVars, rows, req, page, begun>>

-----------------------------------------------------------------------------
(* PATCH /tenants/current, by an administrator; the page sends a name only. *)

PatchRead(r) ==
  /\ \E want \in (Plans \ {plan}) \cup {None} :
       Begin(r, [Request("patch", "begun", plan) EXCEPT !.want = want])
  /\ UNCHANGED <<tenantVars, payVars, cacheVars, rows, page>>

Kept(r) == req[r].plan

\* save() writes the entity, and not a plan that changed after save() had read the
\* row again.  The page shows the plan of the entity.
PatchSave(r) ==
  /\ At(r, "patch", "begun")
  /\ \/ /\ req[r].want # None
        /\ WritePlan(req[r].want)
     \/ /\ req[r].want = None
        /\ plan' = Kept(r)
        /\ clobbered' = (clobbered \/ req[r].plan # plan)
        /\ UNCHANGED meant
     \/ req[r].plan # plan /\ UNCHANGED <<plan, meant, clobbered>>
  /\ \/ req[r].want = None /\ page' = [page EXCEPT !.plan = Kept(r)]
     \/ UNCHANGED page
  /\ Step(r, None)
  /\ UNCHANGED <<applied, forgotten, payVars, cacheVars, rows, begun>>

-----------------------------------------------------------------------------
(* TenantMiddleware.resolveTenant; the page has the tenant of its login,   *)
(* GET /tenants/current, which answers with what the middleware found.     *)

Login(p) == page' = [page EXCEPT !.plan = p] \/ UNCHANGED page

Visit(r) ==
  /\ IF tenantCache # None
     THEN Login(tenantCache) /\ UNCHANGED <<req, begun>>
     ELSE Begin(r, Request("visit", "cache", plan)) /\ UNCHANGED page
  /\ UNCHANGED <<tenantVars, payVars, cacheVars, rows>>

CacheTenant(r) ==
  /\ At(r, "visit", "cache")
  /\ tenantCache' = req[r].plan
  /\ Login(req[r].plan)
  /\ Step(r, None)
  /\ UNCHANGED <<tenantVars, payVars, countCache, rows, begun>>

-----------------------------------------------------------------------------
(* PlanGuard and the creation behind it.                                   *)

\* checkLimit reads the plan.
CheckPlan(r) ==
  /\ Begin(r, Request("create", IF Limit[plan] = Unlimited THEN "insert" ELSE "look", plan))
  /\ UNCHANGED <<tenantVars, payVars, cacheVars, rows, page>>

WithinLimit(n, p) == n < Limit[p]

\* Admitted, or 402.
Decide(r, what) == Step(r, IF WithinLimit(what.number, what.plan) THEN [what EXCEPT !.at = "insert"] ELSE None)

LookUpCount(r) ==
  /\ At(r, "create", "look")
  /\ IF countCache # None
     THEN Decide(r, [req[r] EXCEPT !.number = countCache])
     ELSE Step(r, [req[r] EXCEPT !.at = "count"])
  /\ UNCHANGED <<tenantVars, payVars, cacheVars, rows, page, begun>>

CountRows(r) ==
  /\ At(r, "create", "count")
  /\ Step(r, [req[r] EXCEPT !.at = "cache", !.number = rows])
  /\ UNCHANGED <<tenantVars, payVars, cacheVars, rows, page, begun>>

CacheCount(r) ==
  /\ At(r, "create", "cache")
  /\ countCache' = req[r].number
  /\ Decide(r, req[r])
  /\ UNCHANGED <<tenantVars, payVars, tenantCache, rows, page, begun>>

\* The handler creates the row, or fails by itself (a key that is taken, say).
Insert(r) ==
  /\ At(r, "create", "insert")
  /\ rows' \in {rows, rows + 1} /\ rows' <= MaxRows
  /\ Step(r, None)
  /\ UNCHANGED <<tenantVars, payVars, cacheVars, page, begun>>

RemoveRow ==
  /\ rows > 0 /\ rows' = rows - 1
  /\ UNCHANGED <<tenantVars, payVars, cacheVars, req, page, begun>>

-----------------------------------------------------------------------------

\* Mutant of Expiry: SET without EX.
NoExpiry(key) == FALSE

Expiry(key) == key # None

ExpireTenant ==
  /\ Expiry(tenantCache) /\ tenantCache' = None
  /\ UNCHANGED <<tenantVars, payVars, countCache, rows, req, page, begun>>

ExpireCount ==
  /\ Expiry(countCache) /\ countCache' = None
  /\ UNCHANGED <<tenantVars, payVars, tenantCache, rows, req, page, begun>>

ExpirePending ==
  /\ Expiry(pending) /\ NameOnly(None, None)
  /\ UNCHANGED <<cacheVars, rows, req, page, begun>>

Proceed(r) ==
  \/ CreatePayment(r) \/ StorePending(r)
  \/ VerifyStatus(r) \/ VerifyUpdate(r) \/ VerifyDrop(r)
  \/ PatchSave(r) \/ CacheTenant(r)
  \/ LookUpCount(r) \/ CountRows(r) \/ CacheCount(r) \/ Insert(r)

BillingNext ==
  \/ \E r \in Requests :
       Checkout(r) \/ VerifyKey(r) \/ PatchRead(r) \/ Visit(r) \/ CheckPlan(r) \/ Proceed(r)
  \/ \E p \in Payments : Settle(p)
  \/ Webhook \/ Return \/ Reload \/ RemoveRow
  \/ ExpireTenant \/ ExpireCount \/ ExpirePending

\* Requests go on, the caches expire, and a page that comes back asks.  Nothing makes a
\* notification arrive, nor the user come back or reload.
BillingFairness ==
  /\ \A r \in Requests : WF_billingVars(Proceed(r)) /\ WF_billingVars(VerifyKey(r))
  /\ WF_billingVars(ExpireTenant) /\ WF_billingVars(ExpireCount)

BillingSpec == BillingInit /\ [][BillingNext]_billingVars /\ BillingFairness

-----------------------------------------------------------------------------
(* Properties.                                                             *)

BillingTypeOK ==
  /\ plan \in Plans /\ meant \in Plans /\ clobbered \in BOOLEAN /\ applied \subseteq Payments /\ forgotten \subseteq Payments
  /\ \A p \in Payments : payment[p] = None \/ payment[p] \in [plan : Priced, status : Statuses]
  /\ pending \in Payments \cup {None} /\ notices \in 0..MaxNotices
  /\ tenantCache \in Plans \cup {None}
  /\ countCache = None \/ countCache \in 0..MaxRows
  /\ rows \in 0..MaxRows /\ begun \in 0..MaxRequests
  /\ \A r \in Requests : req[r] \in Asks \cup {None}
  /\ page \in [plan : Plans, upgraded : BOOLEAN, answer : Answers]

Paid(p) == payment[p] # None /\ payment[p].status = "succeeded"

\* The tenant has the plan the last verification, notification or PATCH with a plan gave
\* it, however they overlap, unless a PATCH of the name wrote back one it had read before.
PlanAsMeant == plan = meant \/ clobbered

\* A payment that succeeds is not lost to the verification, however checkouts, answers
\* "pending" and "error", cancellations and returns overlap: the next GET /billing/verify
\* finds it, or one has applied it.  Named exceptions: the key named it no more, because a
\* later checkout wrote another payment over it, the verification of another payment
\* deleted the key, or two hours had passed.
PaidIsFound == \A p \in Payments : Paid(p) => p \in applied \/ pending = p \/ p \in forgotten

\* A verification applies only what was paid, whichever payment the key names by then.
AppliedWasPaid == \A p \in applied : Paid(p)

\* The page asks again while the answer is "pending" (TenantSettingsPage.tsx l.42).  It does
\* not: retry of useQuery is asked about errors, and "pending" is an answer.
PendingIsAskedAgain == page.answer = "pending" ~> page.answer # "pending" \/ Verifying

\* What is cached does not stay wrong, though nothing ever invalidates it.
CachesSettle == <>[](tenantCache \in {None, plan} /\ countCache \in {None, rows})

\* The variables have their types, PlanAsMeant, PaidIsFound and AppliedWasPaid: payments
\* and PATCHes leave the plan that was last asked for, and no payment is lost or made up.
BillingInv == BillingTypeOK /\ PlanAsMeant /\ PaidIsFound /\ AppliedWasPaid
=============================================================================
