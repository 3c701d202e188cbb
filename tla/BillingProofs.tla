----------------------------- MODULE BillingProofs -----------------------------
(* What Billing guarantees for any payments, requests and limits.           *)
EXTENDS Billing, TLAPS

\* What a request is, by what it does and how far it got.
Ask(ops, ats, plans, pays) ==
  [op : ops, at : ats, plan : plans, want : Plans \cup {None}, number : 0..MaxRows, pay : pays]

Asked ==
  Ask({"checkout"}, {"post"}, Priced, {None}) \cup Ask({"checkout"}, {"key"}, Priced, Payments)
    \cup Ask({"verify"}, {"begun"}, {None}, Payments) \cup Ask({"verify"}, {"paid"}, Priced, Payments)
    \cup Ask({"verify"}, {"drop"}, Priced \cup {None}, Payments)
    \cup Ask({"patch"}, {"begun"}, Plans, {None}) \cup Ask({"visit"}, {"cache"}, Plans, {None})
    \cup Ask({"create"}, {"look", "count", "cache", "insert"}, Plans, {None})

PaymentRow == [plan : Priced, status : Statuses]

RowsTyped ==
  /\ plan \in Plans /\ meant \in Plans /\ clobbered \in BOOLEAN /\ applied \subseteq Payments /\ forgotten \subseteq Payments
  /\ payment \in [Payments -> PaymentRow \cup {None}]
  /\ pending \in Payments \cup {None} /\ notices \in 0..MaxNotices
  /\ tenantCache \in Plans \cup {None}
  /\ countCache = None \/ countCache \in 0..MaxRows
  /\ rows \in 0..MaxRows /\ begun \in 0..MaxRequests
  /\ page \in [plan : Plans, upgraded : BOOLEAN, answer : Answers]

\* BillingTypeOK, and what the steps of a request are.
Typed == RowsTyped /\ req \in [Requests -> Asked \cup {None}]

\* What request q knows when the payments in done are applied: its payment exists; a
\* verification goes on to the UPDATE only with what was paid, and to the DEL once that is
\* applied, or for what was cancelled.
KnownBy(q, done) ==
  /\ q.pay # None => payment[q.pay] # None
  /\ q.op = "verify" /\ q.at = "paid" => Paid(q.pay) /\ q.plan = payment[q.pay].plan
  /\ q.op = "verify" /\ q.at = "drop" =>
       IF q.plan = None THEN payment[q.pay].status = "canceled" ELSE q.pay \in done

Known(q) == KnownBy(q, applied)

\* The key in Redis names a payment that exists, and what was applied was paid.
PaymentsKnown ==
  /\ pending # None => payment[pending] # None
  /\ \A p \in applied : Paid(p)

\* The verification finds p, has applied it, or is excused; or its url is not answered yet.
Found(p) == p \in applied \/ pending = p \/ p \in forgotten
Held(p) == \E r \in Requests : At(r, "checkout", "key") /\ req[r].pay = p

\* PaidIsFound, and what makes it so: a payment that can still be paid is found, too, as
\* soon as its customer has the url.
PaymentsFound ==
  \A p \in Payments : payment[p] # None =>
    /\ payment[p].status = "succeeded" => Found(p)
    /\ payment[p].status = "pending" => Found(p) \/ Held(p)

\* A step that loses none of the payments found, but for those that were cancelled.
FoundKept ==
  /\ applied \subseteq applied'
  /\ \A p \in Payments : payment[p] # None /\ payment[p].status # "canceled" /\ Found(p) => Found(p)'

PlanInv ==
  Typed /\ (\A r \in Requests : req[r] # None => Known(req[r])) /\ PaymentsKnown /\ PaymentsFound /\ PlanAsMeant

-----------------------------------------------------------------------------

\* Requests are records that TypeOK knows.
LEMMA TypedIsTypeOK == ASSUME Typed PROVE BillingTypeOK
<1>1. Asked \subseteq Asks
  BY BillingAssumption DEF Asked, Ask, Asks, Ops, Steps
<1> QED BY <1>1 DEF Typed, RowsTyped, BillingTypeOK, PaymentRow

\* What a request of each kind holds.
LEMMA KindsTyped ==
  ASSUME Typed, NEW r \in Requests
  PROVE  /\ At(r, "checkout", "post") => req[r] \in Ask({"checkout"}, {"post"}, Priced, {None})
         /\ At(r, "checkout", "key") => req[r] \in Ask({"checkout"}, {"key"}, Priced, Payments)
         /\ At(r, "verify", "begun") => req[r] \in Ask({"verify"}, {"begun"}, {None}, Payments)
         /\ At(r, "verify", "paid") => req[r] \in Ask({"verify"}, {"paid"}, Priced, Payments)
         /\ At(r, "verify", "drop") => req[r] \in Ask({"verify"}, {"drop"}, Priced \cup {None}, Payments)
         /\ At(r, "patch", "begun") => req[r] \in Ask({"patch"}, {"begun"}, Plans, {None})
         /\ At(r, "visit", "cache") => req[r] \in Ask({"visit"}, {"cache"}, Plans, {None})
         /\ \A at \in {"look", "count", "cache", "insert"} :
              At(r, "create", at) => req[r] \in Ask({"create"}, {at}, Plans, {None})
<1>1. req[r] # None => req[r] \in Asked
  BY DEF Typed
<1> QED BY <1>1 DEF Asked, Ask, At

\* A request that begins is what Request says.
LEMMA RequestAsks ==
  ASSUME NEW op, NEW at, NEW p \in Plans \cup {None}, 0 \in 0..MaxRows
  PROVE  Request(op, at, p) \in Ask({op}, {at}, {p}, {None})
BY DEF Request, Ask

\* Nothing is lost while the payments stay as they are, the urls to be answered too.
LEMMA StillFound ==
  ASSUME PaymentsFound, UNCHANGED payment, FoundKept, \A p \in Payments : Held(p) => Held(p)' \/ Found(p)'
  PROVE  PaymentsFound'
<1>1. ASSUME NEW p \in Payments, payment'[p] # None
      PROVE  /\ payment'[p].status = "succeeded" => Found(p)'
             /\ payment'[p].status = "pending" => Found(p)' \/ Held(p)'
  <2>1. /\ payment[p] = payment'[p] /\ (payment[p].status # "canceled" /\ Found(p) => Found(p)')
        /\ (Held(p) => Held(p)' \/ Found(p)')
    BY <1>1 DEF FoundKept
  <2> QED BY <1>1, <2>1 DEF PaymentsFound
<1> QED BY <1>1 DEF PaymentsFound

\* A step of a request that leaves the payments alone.
LEMMA RequestGoes ==
  ASSUME PlanInv, NEW r \in Requests, NEW what \in Asked \cup {None}, req' = [req EXCEPT ![r] = what],
         what # None => KnownBy(what, applied'), UNCHANGED payment,
         ~At(r, "checkout", "key") \/ (\A p \in Payments : p = req[r].pay => Found(p)'),
         RowsTyped', PaymentsKnown', PlanAsMeant', FoundKept
  PROVE  PlanInv'
<1>1. req' \in [Requests -> Asked \cup {None}]
  BY DEF PlanInv, Typed
<1>2. ASSUME NEW q \in Requests, req'[q] # None PROVE Known(req[q])'
  <2>1. KnownBy(req'[q], applied')
    <3>1. CASE q = r
      <4>1. req'[q] = what
        BY <3>1 DEF PlanInv, Typed
      <4> QED BY <1>2, <4>1
    <3>2. CASE q # r
      <4>1. req'[q] = req[q] /\ Known(req[q]) /\ applied \subseteq applied'
        BY <1>2, <3>2 DEF PlanInv, Typed, FoundKept
      <4> QED BY <4>1 DEF Known, KnownBy
    <3> QED BY <3>1, <3>2
  <2> QED BY <2>1 DEF Known, KnownBy, Paid
<1>3. PaymentsFound'
  <2>1. ASSUME NEW p \in Payments, Held(p) PROVE Held(p)' \/ Found(p)'
    <3>1. PICK q \in Requests : At(q, "checkout", "key") /\ req[q].pay = p
      BY <2>1 DEF Held
    <3>2. CASE q = r
      BY <3>1, <3>2
    <3>3. CASE q # r
      <4>1. req'[q] = req[q]
        BY <3>3 DEF PlanInv, Typed
      <4> QED BY <3>1, <4>1 DEF Held, At
    <3> QED BY <3>2, <3>3
  <2> QED BY <2>1, StillFound DEF PlanInv
<1> QED BY <1>1, <1>2, <1>3 DEF PlanInv, Typed

\* A step that leaves the requests and the payments alone.
LEMMA RequestsStay ==
  ASSUME PlanInv, UNCHANGED <<req, payment>>, RowsTyped', PaymentsKnown', PlanAsMeant', FoundKept
  PROVE  PlanInv'
<1>1. ASSUME NEW q \in Requests, req'[q] # None PROVE Known(req[q])'
  <2>1. req'[q] = req[q] /\ Known(req[q]) /\ applied \subseteq applied'
    BY <1>1 DEF PlanInv, FoundKept
  <2> QED BY <2>1 DEF Known, KnownBy, Paid
<1>2. PaymentsFound'
  <2>1. \A p \in Payments : Held(p) => Held(p)'
    BY DEF Held, At
  <2> QED BY <2>1, StillFound DEF PlanInv
<1> QED BY <1>1, <1>2 DEF PlanInv, Typed

\* Nothing is paid or asked yet.
LEMMA InitInv == ASSUME BillingInit PROVE PlanInv
<1>1. MaxRows \in Nat /\ MaxRequests \in Nat /\ Free \in Plans /\ 0 \in 0..MaxRows /\ 0 \in 0..MaxRequests /\ 0 \in 0..MaxNotices
  BY BillingAssumption
<1>2. page \in [plan : Plans, upgraded : BOOLEAN, answer : Answers]
  BY <1>1 DEF BillingInit, Answers
<1>3. RowsTyped
  BY <1>1, <1>2 DEF BillingInit, RowsTyped
<1>4. req \in [Requests -> Asked \cup {None}] /\ \A r \in Requests : req[r] = None
  BY DEF BillingInit
<1>5. PaymentsKnown /\ PaymentsFound /\ PlanAsMeant
  BY DEF BillingInit, PaymentsKnown, PaymentsFound, PlanAsMeant
<1> QED BY <1>3, <1>4, <1>5 DEF PlanInv, Typed

-----------------------------------------------------------------------------
(* Payments.                                                               *)

\* The plan that a page shows, a request asks for or a payment is for is one.
LEMMA PlansAre ==
  ASSUME Typed
  PROVE  /\ Priced \subseteq Plans /\ None \notin Plans /\ None \notin Payments /\ None \notin PaymentRow
         /\ MaxRows \in Nat /\ MaxRequests \in Nat /\ 0 \in 0..MaxRows
         /\ page.plan \in Plans
BY BillingAssumption DEF Typed, RowsTyped, PaymentRow

\* The customer goes to pay for a plan that has a price.
LEMMA Checkouts == ASSUME PlanInv, NEW r \in Requests, Checkout(r) PROVE PlanInv'
<1>1. PICK p \in Priced : Begin(r, Request("checkout", "post", p))
  BY DEF Checkout
<1> DEFINE what == Request("checkout", "post", p)
<1>2. what \in Asked /\ KnownBy(what, applied')
  <2>1. what \in Ask({"checkout"}, {"post"}, {p}, {None})
    BY PlansAre, RequestAsks DEF PlanInv
  <2>2. what.op = "checkout" /\ what.pay = None
    BY DEF Request
  <2> HIDE DEF what
  <2>3. what \in Ask({"checkout"}, {"post"}, Priced, {None})
    BY <2>1 DEF Ask
  <2> QED BY <2>2, <2>3 DEF Asked, KnownBy
<1>3. req' = [req EXCEPT ![r] = what] /\ begun' \in 0..MaxRequests
  BY <1>1, BillingAssumption DEF Begin, PlanInv, Typed, RowsTyped
<1> HIDE DEF what
<1>4. RowsTyped' /\ PaymentsKnown' /\ PlanAsMeant' /\ FoundKept
  BY <1>3 DEF Checkout, payVars, tenantVars, cacheVars, PlanInv, Typed, RowsTyped, PaymentsKnown, Paid, PlanAsMeant, FoundKept, Found
<1>5. ~At(r, "checkout", "key")
  BY <1>1 DEF Begin, At
<1> QED BY <1>2, <1>3, <1>4, <1>5, RequestGoes DEF Checkout, payVars

\* YooKassa has a payment more.
LEMMA CreatesPayment == ASSUME PlanInv, NEW r \in Requests, CreatePayment(r) PROVE PlanInv'
<1> USE DEF PlanInv
<1>0. /\ req[r] \in Ask({"checkout"}, {"post"}, Priced, {None})
      /\ ~At(r, "checkout", "key") /\ At(r, "checkout", "post")
      /\ UNCHANGED <<tenantVars, pending, notices, cacheVars, rows, page, begun>>
  BY KindsTyped DEF CreatePayment, At
<1>1. CASE Step(r, None) /\ UNCHANGED payment
  <2>1. RowsTyped' /\ PaymentsKnown' /\ PlanAsMeant' /\ FoundKept
    BY <1>0, <1>1 DEF tenantVars, cacheVars, Typed, RowsTyped, PaymentsKnown, Paid, PlanAsMeant, FoundKept, Found
  <2> QED BY <1>0, <1>1, <2>1, RequestGoes DEF Step
<1>2. ASSUME NEW p \in Payments, payment[p] = None,
             payment' = [payment EXCEPT ![p] = [plan |-> req[r].plan, status |-> "pending"]],
             Step(r, [req[r] EXCEPT !.at = "key", !.pay = p])
      PROVE  PlanInv'
  <2> DEFINE what == [req[r] EXCEPT !.at = "key", !.pay = p]
             row == [plan |-> req[r].plan, status |-> "pending"]
  <2>1. row \in PaymentRow /\ row # None
    BY <1>0, PlansAre DEF Ask, PaymentRow, Statuses
  <2>2. what \in Ask({"checkout"}, {"key"}, Priced, Payments) /\ what.pay = p /\ what.op = "checkout"
    BY <1>0 DEF Ask
  <2>3. req' = [req EXCEPT ![r] = what] /\ payment' = [payment EXCEPT ![p] = row]
    BY <1>2 DEF Step
  <2>12. what # None /\ what.at = "key"
    <3>1. what \in Asks
      BY <2>2, BillingAssumption DEF Ask, Asks, Ops, Steps
    <3> QED BY <2>2, <3>1, BillingAssumption DEF Ask
  <2>13. row.status = "pending"
    OBVIOUS
  <2> HIDE DEF what, row
  <2>4. what \in Asked
    BY <2>2 DEF Asked
  <2>5. payment'[p] # None /\ \A o \in Payments : payment[o] # None => payment'[o] = payment[o]
    BY <1>2, <2>1, <2>3 DEF Typed, RowsTyped
  <2>6. payment' \in [Payments -> PaymentRow \cup {None}]
    BY <2>1, <2>3 DEF Typed, RowsTyped
  <2>7. Typed'
    BY <1>0, <2>3, <2>4, <2>6 DEF tenantVars, cacheVars, Typed, RowsTyped
  <2>8. ASSUME NEW q \in Requests, req'[q] # None PROVE Known(req[q])'
    <3>1. CASE q = r
      <4>1. req'[q] = what
        BY <2>3, <3>1 DEF Typed
      <4> QED BY <2>2, <2>5, <4>1 DEF Known, KnownBy
    <3>2. CASE q # r
      <4>1. req'[q] = req[q] /\ Known(req[q]) /\ req[q] \in Asked
        BY <2>3, <2>8, <3>2 DEF Typed
      <4>2. req[q].pay = None \/ req[q].pay \in Payments
        BY <4>1 DEF Asked, Ask
      <4>3. req[q].op = "verify" => req[q].pay \in Payments
        BY <4>1 DEF Asked, Ask
      <4>4. req[q].op = "verify" => payment'[req[q].pay] = payment[req[q].pay]
        BY <2>5, <4>1, <4>3, PlansAre DEF Known, KnownBy
      <4>5. applied' = applied
        BY <1>0 DEF tenantVars
      <4> QED BY <2>5, <4>1, <4>2, <4>4, <4>5 DEF Known, KnownBy, Paid
    <3> QED BY <3>1, <3>2
  <2>9. PaymentsKnown'
    BY <1>0, <2>5 DEF tenantVars, PaymentsKnown, Paid, Typed, RowsTyped
  <2>10. PlanAsMeant'
    BY <1>0 DEF tenantVars, PlanAsMeant
  <2>11. PaymentsFound'
    <3>1. ASSUME NEW o \in Payments, payment'[o] # None
          PROVE  /\ payment'[o].status = "succeeded" => Found(o)'
                 /\ payment'[o].status = "pending" => Found(o)' \/ Held(o)'
      <4>1. CASE o = p
        <5>1. req'[r] = what /\ At(r, "checkout", "key")'
          BY <1>0, <2>2, <2>3, <2>12 DEF Typed, At, Ask
        <5>2. Held(o)'
          BY <2>2, <4>1, <5>1 DEF Held
        <5>3. payment'[o].status = "pending"
          BY <2>3, <2>13, <4>1 DEF Typed, RowsTyped
        <5> QED BY <5>2, <5>3
      <4>2. CASE o # p
        <5>1. payment'[o] = payment[o] /\ (Found(o) => Found(o)')
          BY <1>0, <2>3, <4>2 DEF Typed, RowsTyped, tenantVars, Found
        <5>2. ASSUME Held(o) PROVE Held(o)'
          <6>1. PICK q \in Requests : At(q, "checkout", "key") /\ req[q].pay = o
            BY <5>2 DEF Held
          <6>2. q # r
            BY <1>0, <6>1
          <6>3. req'[q] = req[q]
            BY <2>3, <6>2 DEF Typed
          <6> QED BY <6>1, <6>3 DEF Held, At
        <5> QED BY <3>1, <5>1, <5>2 DEF PaymentsFound
      <4> QED BY <4>1, <4>2
    <3> QED BY <3>1 DEF PaymentsFound
  <2> QED BY <2>7, <2>8, <2>9, <2>10, <2>11
<1> QED BY <1>1, <1>2 DEF CreatePayment

\* The customer pays, or cancels, what was pending.
LEMMA Settles == ASSUME PlanInv, NEW x \in Payments, Settle(x) PROVE PlanInv'
<1> USE DEF PlanInv
<1>1. PICK status \in {"succeeded", "canceled"} :
        payment' = [payment EXCEPT ![x].status = status]
  BY DEF Settle
<1>2. /\ payment[x] \in PaymentRow /\ payment[x].status = "pending"
      /\ UNCHANGED <<tenantVars, pending, notices, cacheVars, rows, req, page, begun>>
  BY DEF Settle, Typed, RowsTyped
<1> DEFINE row == [payment[x] EXCEPT !.status = status]
<1>3. row \in PaymentRow /\ row.status = status /\ row.plan = payment[x].plan /\ row # None
  <2>1. row \in PaymentRow /\ row.status = status /\ row.plan = payment[x].plan
    BY <1>2 DEF PaymentRow, Statuses
  <2> QED BY <2>1, PlansAre
<1>4. payment' = [payment EXCEPT ![x] = row]
  BY <1>1
<1> HIDE DEF row
<1>5. payment'[x] = row /\ \A p \in Payments \ {x} : payment'[p] = payment[p]
  BY <1>4 DEF Typed, RowsTyped
<1>6. Typed'
  BY <1>1, <1>2, <1>3, <1>4 DEF tenantVars, cacheVars, Typed, RowsTyped
<1>7. \A p \in Payments : payment[p] # None => payment'[p] # None
  BY <1>3, <1>5
<1>8. \A p \in Payments : payment[p] # None /\ payment[p].status # "pending" => payment'[p] = payment[p]
  BY <1>2, <1>5
<1>9. ASSUME NEW q \in Requests, req'[q] # None PROVE Known(req[q])'
  <2>1. req'[q] = req[q] /\ Known(req[q]) /\ req[q] \in Asked /\ applied' = applied
    BY <1>2, <1>9 DEF Typed, tenantVars
  <2>2. req[q].pay = None \/ req[q].pay \in Payments
    BY <2>1 DEF Asked, Ask
  <2>3. req[q].op = "verify" => req[q].pay \in Payments
    BY <2>1 DEF Asked, Ask
  <2>4. req[q].pay # None => payment'[req[q].pay] # None
    BY <1>7, <2>1, <2>2 DEF Known, KnownBy
  <2>5. req[q].op = "verify" /\ req[q].at = "paid" =>
          /\ payment'[req[q].pay] # None /\ payment'[req[q].pay].status = "succeeded"
          /\ req[q].plan = payment'[req[q].pay].plan
    BY <1>8, <2>1, <2>3 DEF Known, KnownBy, Paid
  <2>6. req[q].op = "verify" /\ req[q].at = "drop" =>
          IF req[q].plan = None THEN payment'[req[q].pay].status = "canceled" ELSE req[q].pay \in applied
    BY <1>8, <2>1, <2>3, PlansAre DEF Known, KnownBy
  <2> QED BY <2>1, <2>4, <2>5, <2>6 DEF Known, KnownBy, Paid
<1>10. PaymentsKnown'
  <2>1. \A p \in applied : p \in Payments /\ Paid(p)
    BY DEF PaymentsKnown, Typed, RowsTyped
  <2>2. pending \in Payments \cup {None}
    BY DEF Typed, RowsTyped
  <2> QED BY <1>2, <1>7, <1>8, <2>1, <2>2 DEF tenantVars, PaymentsKnown, Paid
<1>12. PaymentsFound'
  <2>1. ASSUME NEW p \in Payments, payment'[p] # None
        PROVE  /\ payment'[p].status = "succeeded" => Found(p)'
               /\ payment'[p].status = "pending" => Found(p)' \/ Held(p)'
    <3>1. (Found(p) => Found(p)') /\ (Held(p) => Held(p)')
      BY <1>2 DEF Found, Held, At, tenantVars
    <3>2. CASE p = x
      <4>1. ~Held(x)
        BY DEF Settle, Held, At
      <4>2. Found(x)
        BY <1>2, <4>1, PlansAre DEF PaymentsFound
      <4> QED BY <3>1, <3>2, <4>2
    <3>3. CASE p # x
      BY <1>5, <2>1, <3>1, <3>3 DEF PaymentsFound
    <3> QED BY <3>2, <3>3
  <2> QED BY <2>1 DEF PaymentsFound
<1>11. PlanAsMeant'
  BY <1>2 DEF tenantVars, PlanAsMeant
<1> QED BY <1>6, <1>9, <1>10, <1>11, <1>12

\* The key names the payment that was just created.
LEMMA StoresPending == ASSUME PlanInv, NEW r \in Requests, StorePending(r) PROVE PlanInv'
<1>1. /\ req[r] \in Ask({"checkout"}, {"key"}, Priced, Payments) /\ req[r] # None /\ Known(req[r])
      /\ req' = [req EXCEPT ![r] = None] /\ NameOnly(req[r].pay, None)
      /\ UNCHANGED <<cacheVars, rows, page, begun>>
  BY KindsTyped DEF StorePending, Step, PlanInv, At
<1>2. /\ pending' = req[r].pay /\ forgotten' = forgotten \cup ({pending} \ {None, req[r].pay})
      /\ UNCHANGED <<plan, meant, clobbered, applied, payment, notices>>
  BY <1>1 DEF NameOnly
<1>3. pending' \in Payments /\ payment[pending'] # None
  BY <1>1, <1>2, PlansAre DEF Ask, Known, KnownBy, PlanInv
<1>4. RowsTyped' /\ PaymentsKnown' /\ PlanAsMeant'
  BY <1>1, <1>2, <1>3 DEF cacheVars, PlanInv, Typed, RowsTyped, PaymentsKnown, Paid, PlanAsMeant
<1>5. FoundKept
  <2>1. None \notin Payments
    BY PlansAre DEF PlanInv
  <2> QED BY <1>2, <2>1 DEF FoundKept, Found
<1>6. \A p \in Payments : p = req[r].pay => Found(p)'
  BY <1>2 DEF Found
<1> QED BY <1>1, <1>2, <1>4, <1>5, <1>6, RequestGoes

\* What an answer leaves of the page.
LEMMA PageAnswered ==
  ASSUME Typed, NEW answer \in Answers, NEW p, Answered(answer, p), answer = "succeeded" => p \in Plans
  PROVE  page' \in [plan : Plans, upgraded : BOOLEAN, answer : Answers]
<1>1. page.plan \in Plans
  BY PlansAre
<1>2. page' = [plan |-> IF answer = "succeeded" THEN p ELSE page.plan,
               upgraded |-> (answer = "pending"), answer |-> answer]
  BY DEF Answered
<1> QED BY <1>1, <1>2

\* The page that came back asks for the payment of the key, if there is one.
LEMMA VerifiesKey == ASSUME PlanInv, NEW r \in Requests, VerifyKey(r) PROVE PlanInv'
<1> USE DEF PlanInv
<1>0. UNCHANGED <<tenantVars, payVars, cacheVars, rows>>
  BY DEF VerifyKey
<1>1. CASE pending = None
  <2>1. page' \in [plan : Plans, upgraded : BOOLEAN, answer : Answers] /\ UNCHANGED <<req, begun>>
    BY <1>1, PageAnswered DEF VerifyKey, Answers
  <2>2. RowsTyped' /\ PaymentsKnown' /\ PlanAsMeant' /\ FoundKept
    BY <1>0, <2>1 DEF tenantVars, payVars, cacheVars, Typed, RowsTyped, PaymentsKnown, Paid, PlanAsMeant, FoundKept, Found
  <2> QED BY <1>0, <2>1, <2>2, RequestsStay DEF payVars
<1>2. CASE pending # None
  <2> DEFINE what == [Request("verify", "begun", None) EXCEPT !.pay = pending]
  <2>1. /\ req' = [req EXCEPT ![r] = what] /\ begun' \in 0..MaxRequests /\ UNCHANGED page
        /\ pending \in Payments /\ payment[pending] # None
    BY <1>2, BillingAssumption DEF VerifyKey, Begin, Typed, RowsTyped, PaymentsKnown
  <2>2. Request("verify", "begun", None) \in Ask({"verify"}, {"begun"}, {None}, {None})
    BY PlansAre, RequestAsks
  <2>3. what \in Ask({"verify"}, {"begun"}, {None}, Payments) /\ what.pay = pending /\ what.at = "begun" /\ what.op = "verify"
    BY <2>1, <2>2 DEF Ask
  <2> HIDE DEF what
  <2>4. what \in Asked /\ KnownBy(what, applied')
    BY <2>1, <2>3 DEF Asked, KnownBy
  <2>5. RowsTyped' /\ PaymentsKnown' /\ PlanAsMeant' /\ FoundKept
    BY <1>0, <2>1 DEF tenantVars, payVars, cacheVars, Typed, RowsTyped, PaymentsKnown, Paid, PlanAsMeant, FoundKept, Found
  <2>6. ~At(r, "checkout", "key")
    BY <1>2 DEF VerifyKey, Begin, At
  <2> QED BY <1>0, <2>1, <2>4, <2>5, <2>6, RequestGoes DEF payVars
<1> QED BY <1>1, <1>2

\* YooKassa says what became of the payment.
LEMMA VerifiesStatus == ASSUME PlanInv, NEW r \in Requests, VerifyStatus(r) PROVE PlanInv'
<1> USE DEF PlanInv
<1> DEFINE pay == payment[req[r].pay]
<1>0. /\ req[r] \in Ask({"verify"}, {"begun"}, {None}, Payments)
      /\ UNCHANGED <<tenantVars, payVars, cacheVars, rows, begun>>
      /\ req[r] # None /\ Known(req[r]) /\ ~At(r, "checkout", "key")
  BY KindsTyped DEF VerifyStatus, At
<1>1. pay \in PaymentRow /\ pay # None
  BY <1>0, PlansAre DEF Ask, Known, KnownBy, Typed, RowsTyped
<1>2. ASSUME page' \in [plan : Plans, upgraded : BOOLEAN, answer : Answers] PROVE RowsTyped' /\ PaymentsKnown' /\ PlanAsMeant' /\ FoundKept
  BY <1>0, <1>2 DEF tenantVars, payVars, cacheVars, Typed, RowsTyped, PaymentsKnown, Paid, PlanAsMeant, FoundKept, Found
<1>3. CASE Step(r, None) /\ (Answered("error", None) \/ Answered("pending", None))
  <2>1. page' \in [plan : Plans, upgraded : BOOLEAN, answer : Answers]
    BY <1>3, PageAnswered DEF Answers
  <2> QED BY <1>0, <1>2, <1>3, <2>1, RequestGoes DEF Step, payVars
<1>4. page \in [plan : Plans, upgraded : BOOLEAN, answer : Answers]
  BY DEF Typed, RowsTyped
<1>5. CASE pay.status = "succeeded" /\ Step(r, [req[r] EXCEPT !.at = "paid", !.plan = pay.plan]) /\ UNCHANGED page
  <2> DEFINE what == [req[r] EXCEPT !.at = "paid", !.plan = pay.plan]
  <2>1. /\ what \in Ask({"verify"}, {"paid"}, Priced, Payments) /\ what.pay = req[r].pay /\ what.op = "verify"
        /\ what.plan = pay.plan /\ what.at = "paid"
    BY <1>0, <1>1 DEF Ask, PaymentRow
  <2>2. req' = [req EXCEPT ![r] = what]
    BY <1>5 DEF Step
  <2> HIDE DEF what
  <2>3. what \in Asked /\ KnownBy(what, applied')
    BY <1>1, <1>5, <2>1 DEF Asked, KnownBy, Paid
  <2> QED BY <1>0, <1>2, <1>4, <1>5, <2>2, <2>3, RequestGoes DEF payVars
<1>6. CASE Over(pay) /\ Step(r, [req[r] EXCEPT !.at = "drop", !.plan = None]) /\ UNCHANGED page
  <2> DEFINE what == [req[r] EXCEPT !.at = "drop", !.plan = None]
  <2>1. /\ what \in Ask({"verify"}, {"drop"}, Priced \cup {None}, Payments) /\ what.pay = req[r].pay /\ what.op = "verify"
        /\ what.at = "drop" /\ what.plan = None
    BY <1>0 DEF Ask
  <2>2. req' = [req EXCEPT ![r] = what]
    BY <1>6 DEF Step
  <2> HIDE DEF what
  <2>3. what \in Asked /\ KnownBy(what, applied')
    BY <1>1, <1>6, <2>1 DEF Asked, KnownBy, Over
  <2> QED BY <1>0, <1>2, <1>4, <1>6, <2>2, <2>3, RequestGoes DEF payVars
<1> QED BY <1>3, <1>5, <1>6 DEF VerifyStatus

\* Writing a plan that was paid for.
LEMMA VerifiesUpdate == ASSUME PlanInv, NEW r \in Requests, VerifyUpdate(r) PROVE PlanInv'
<1> USE DEF PlanInv
<1> DEFINE what == [req[r] EXCEPT !.at = "drop"]
<1>1. /\ req[r] \in Ask({"verify"}, {"paid"}, Priced, Payments) /\ req[r].op = "verify" /\ req[r].at = "paid"
      /\ req[r] # None /\ Known(req[r])
      /\ WritePlan(req[r].plan) /\ applied' = applied \cup {req[r].pay} /\ req' = [req EXCEPT ![r] = what]
      /\ UNCHANGED <<forgotten, payVars, cacheVars, rows, page, begun>> /\ ~At(r, "checkout", "key")
  BY KindsTyped DEF VerifyUpdate, At, Step
<1>2. /\ what \in Ask({"verify"}, {"drop"}, Priced \cup {None}, Payments) /\ what.pay = req[r].pay
      /\ what.op = "verify" /\ what.at = "drop" /\ what.plan = req[r].plan
  BY <1>1 DEF Ask
<1>3. req[r].pay \in Payments /\ Paid(req[r].pay) /\ req[r].plan \in Plans /\ req[r].plan # None
  BY <1>1, PlansAre DEF Ask, Known, KnownBy
<1> HIDE DEF what
<1>4. what \in Asked /\ KnownBy(what, applied')
  BY <1>1, <1>2, <1>3 DEF Asked, KnownBy, Paid
<1>5. RowsTyped' /\ PlanAsMeant'
  <2>1. applied' \subseteq Payments
    BY <1>1, <1>3 DEF Typed, RowsTyped
  <2> QED BY <1>1, <1>3, <2>1 DEF WritePlan, payVars, cacheVars, Typed, RowsTyped, PlanAsMeant
<1>7. FoundKept
  BY <1>1 DEF payVars, FoundKept, Found
<1>6. PaymentsKnown'
  BY <1>1, <1>3 DEF payVars, PaymentsKnown, Paid
<1> QED BY <1>1, <1>4, <1>5, <1>6, <1>7, RequestGoes DEF payVars

\* The key goes, and the page learns the answer.
LEMMA VerifiesDrop == ASSUME PlanInv, NEW r \in Requests, VerifyDrop(r) PROVE PlanInv'
<1> USE DEF PlanInv
<1>1. /\ req[r] \in Ask({"verify"}, {"drop"}, Priced \cup {None}, Payments) /\ ~At(r, "checkout", "key")
      /\ req[r] # None /\ Known(req[r])
      /\ NameOnly(None, req[r].pay) /\ req' = [req EXCEPT ![r] = None]
      /\ Answered(IF req[r].plan = None THEN "canceled" ELSE "succeeded", req[r].plan)
      /\ UNCHANGED <<cacheVars, rows, begun>>
  BY KindsTyped DEF VerifyDrop, Step, At
<1>2. req[r].plan # None => req[r].plan \in Plans
  BY <1>1, PlansAre DEF Ask
<1>3. page' \in [plan : Plans, upgraded : BOOLEAN, answer : Answers]
  BY <1>1, <1>2, PageAnswered DEF Answers
<1>4. /\ pending' = None /\ forgotten' = forgotten \cup ({pending} \ {None, req[r].pay})
      /\ UNCHANGED <<plan, meant, clobbered, applied, payment, notices>>
  BY <1>1 DEF NameOnly
<1>5. RowsTyped' /\ PaymentsKnown' /\ PlanAsMeant'
  BY <1>1, <1>3, <1>4 DEF cacheVars, Typed, RowsTyped, PaymentsKnown, Paid, PlanAsMeant
<1>6. FoundKept
  <2>1. ASSUME NEW p \in Payments, payment[p] # None, payment[p].status # "canceled", Found(p) PROVE Found(p)'
    <3>1. p = req[r].pay => p \in applied
      BY <1>1, <2>1, PlansAre DEF Known, KnownBy, Ask, At
    <3> QED BY <1>4, <2>1, <3>1, PlansAre DEF Found
  <2> QED BY <1>4, <2>1 DEF FoundKept
<1> QED BY <1>1, <1>4, <1>5, <1>6, RequestGoes

\* A notification writes the plan its body names.
LEMMA Webhooks == ASSUME PlanInv, Webhook PROVE PlanInv'
<1> USE DEF PlanInv
<1>1. PICK p \in Plans : WritePlan(p)
  BY DEF Webhook
<1>2. /\ notices' \in 0..MaxNotices
      /\ UNCHANGED <<applied, forgotten, payment, pending, cacheVars, rows, req, page, begun>>
  BY BillingAssumption DEF Webhook, Typed, RowsTyped
<1>3. RowsTyped' /\ PaymentsKnown' /\ PlanAsMeant' /\ FoundKept
  BY <1>1, <1>2 DEF WritePlan, cacheVars, Typed, RowsTyped, PaymentsKnown, Paid, PlanAsMeant, FoundKept, Found
<1> QED BY <1>2, <1>3, RequestsStay

-----------------------------------------------------------------------------
(* PATCHes, visits and creations.                                          *)

\* An administrator's request has read the plan.
LEMMA PatchReads == ASSUME PlanInv, NEW r \in Requests, PatchRead(r) PROVE PlanInv'
<1> USE DEF PlanInv
<1>1. PICK want \in (Plans \ {plan}) \cup {None} : Begin(r, [Request("patch", "begun", plan) EXCEPT !.want = want])
  BY DEF PatchRead
<1> DEFINE what == [Request("patch", "begun", plan) EXCEPT !.want = want]
<1>2. req' = [req EXCEPT ![r] = what] /\ begun' \in 0..MaxRequests /\ plan \in Plans
  BY <1>1, BillingAssumption DEF Begin, Typed, RowsTyped
<1>3. Request("patch", "begun", plan) \in Ask({"patch"}, {"begun"}, {plan}, {None})
  BY <1>2, PlansAre, RequestAsks
<1>4. what \in Ask({"patch"}, {"begun"}, Plans, {None}) /\ what.pay = None /\ what.op = "patch"
  BY <1>2, <1>3 DEF Ask
<1> HIDE DEF what
<1>5. what \in Asked /\ KnownBy(what, applied')
  BY <1>4 DEF Asked, KnownBy
<1>6. RowsTyped' /\ PaymentsKnown' /\ PlanAsMeant' /\ FoundKept
  BY <1>2 DEF PatchRead, tenantVars, payVars, cacheVars, Typed, RowsTyped, PaymentsKnown, Paid, PlanAsMeant, FoundKept, Found
<1>7. ~At(r, "checkout", "key")
  BY <1>1 DEF Begin, At
<1> QED BY <1>2, <1>5, <1>6, <1>7, RequestGoes DEF PatchRead, payVars

\* save() leaves the plan that was asked for, or the one that was read: then another one
\* was written meanwhile.
LEMMA PatchSaves == ASSUME PlanInv, NEW r \in Requests, PatchSave(r) PROVE PlanInv'
<1> USE DEF PlanInv
<1>1. /\ req[r] \in Ask({"patch"}, {"begun"}, Plans, {None}) /\ req' = [req EXCEPT ![r] = None]
      /\ UNCHANGED <<applied, forgotten, payVars, cacheVars, rows, begun>> /\ ~At(r, "checkout", "key")
  BY KindsTyped DEF PatchSave, Step, At
<1>2. req[r].plan \in Plans /\ (req[r].want # None => req[r].want \in Plans)
  BY <1>1 DEF Ask
<1>3. page' \in [plan : Plans, upgraded : BOOLEAN, answer : Answers]
  <2>1. page' = page \/ page' = [page EXCEPT !.plan = req[r].plan]
    BY DEF PatchSave, Kept
  <2> QED BY <1>2, <2>1 DEF Typed, RowsTyped
<1>4. plan' \in Plans /\ meant' \in Plans /\ clobbered' \in BOOLEAN /\ PlanAsMeant'
  <2>1. CASE req[r].want # None /\ WritePlan(req[r].want)
    BY <1>2, <2>1 DEF WritePlan, PlanAsMeant
  <2>2. CASE /\ plan' = req[r].plan /\ UNCHANGED meant
             /\ clobbered' = (clobbered \/ req[r].plan # plan)
    <3>1. clobbered' \in BOOLEAN
      BY <2>2
    <3>2. clobbered' <=> clobbered \/ req[r].plan # plan
      BY <2>2
    <3>3. plan' \in Plans /\ meant' \in Plans
      BY <1>2, <2>2 DEF Typed, RowsTyped
    <3>4. plan' = meant' \/ clobbered'
      BY <2>2, <3>2 DEF PlanAsMeant
    <3> QED BY <3>1, <3>3, <3>4 DEF PlanAsMeant
  <2>3. CASE UNCHANGED <<plan, meant, clobbered>>
    BY <2>3 DEF Typed, RowsTyped, PlanAsMeant
  <2> QED BY <2>1, <2>2, <2>3 DEF PatchSave, Kept
<1>5. RowsTyped' /\ PaymentsKnown' /\ FoundKept
  BY <1>1, <1>3, <1>4 DEF payVars, cacheVars, Typed, RowsTyped, PaymentsKnown, Paid, FoundKept, Found
<1> QED BY <1>1, <1>4, <1>5, RequestGoes DEF payVars

\* The middleware, and the page that logs in.
LEMMA LoginTyped ==
  ASSUME Typed, NEW p \in Plans, Login(p)
  PROVE  page' \in [plan : Plans, upgraded : BOOLEAN, answer : Answers]
BY DEF Login, Typed, RowsTyped

LEMMA Visits == ASSUME PlanInv, NEW r \in Requests, Visit(r) \/ CacheTenant(r) PROVE PlanInv'
<1> USE DEF PlanInv
<1>1. CASE Visit(r) /\ tenantCache # None
  <2>1. page' \in [plan : Plans, upgraded : BOOLEAN, answer : Answers]
    BY <1>1, LoginTyped DEF Visit, Typed, RowsTyped
  <2>2. UNCHANGED <<tenantVars, payVars, cacheVars, rows, req, begun>>
    BY <1>1 DEF Visit
  <2>3. RowsTyped' /\ PaymentsKnown' /\ PlanAsMeant' /\ FoundKept
    BY <2>1, <2>2 DEF tenantVars, payVars, cacheVars, Typed, RowsTyped, PaymentsKnown, Paid, PlanAsMeant, FoundKept, Found
  <2> QED BY <2>2, <2>3, RequestsStay DEF payVars
<1>2. CASE Visit(r) /\ tenantCache = None
  <2> DEFINE what == Request("visit", "cache", plan)
  <2>1. /\ req' = [req EXCEPT ![r] = what] /\ begun' \in 0..MaxRequests /\ plan \in Plans
        /\ UNCHANGED <<tenantVars, payVars, cacheVars, rows, page>>
    BY <1>2, BillingAssumption DEF Visit, Begin, Typed, RowsTyped
  <2>2. what \in Ask({"visit"}, {"cache"}, {plan}, {None}) /\ what.pay = None /\ what.op = "visit"
    BY <2>1, PlansAre, RequestAsks DEF Request
  <2> HIDE DEF what
  <2>3. what \in Ask({"visit"}, {"cache"}, Plans, {None})
    BY <2>1, <2>2 DEF Ask
  <2>4. what \in Asked /\ KnownBy(what, applied')
    BY <2>2, <2>3 DEF Asked, KnownBy
  <2>5. RowsTyped' /\ PaymentsKnown' /\ PlanAsMeant' /\ FoundKept
    BY <2>1 DEF tenantVars, payVars, cacheVars, Typed, RowsTyped, PaymentsKnown, Paid, PlanAsMeant, FoundKept, Found
  <2>6. ~At(r, "checkout", "key")
    BY <1>2 DEF Visit, Begin, At
  <2> QED BY <2>1, <2>4, <2>5, <2>6, RequestGoes DEF payVars
<1>3. CASE CacheTenant(r)
  <2>1. /\ req[r] \in Ask({"visit"}, {"cache"}, Plans, {None}) /\ req' = [req EXCEPT ![r] = None]
        /\ tenantCache' = req[r].plan /\ Login(req[r].plan)
        /\ UNCHANGED <<tenantVars, payVars, countCache, rows, begun>> /\ ~At(r, "checkout", "key")
    BY <1>3, KindsTyped DEF CacheTenant, Step, At
  <2>2. req[r].plan \in Plans
    BY <2>1 DEF Ask
  <2>3. page' \in [plan : Plans, upgraded : BOOLEAN, answer : Answers]
    BY <2>1, <2>2, LoginTyped
  <2>4. RowsTyped' /\ PaymentsKnown' /\ PlanAsMeant' /\ FoundKept
    BY <2>1, <2>2, <2>3 DEF tenantVars, payVars, Typed, RowsTyped, PaymentsKnown, Paid, PlanAsMeant, FoundKept, Found
  <2> QED BY <2>1, <2>4, RequestGoes DEF payVars
<1> QED BY <1>1, <1>2, <1>3

\* The guard reads the plan; without a limit the creation goes on at once.
LEMMA ChecksPlan == ASSUME PlanInv, NEW r \in Requests, CheckPlan(r) PROVE PlanInv'
<1> USE DEF PlanInv
<1> DEFINE at == IF Limit[plan] = Unlimited THEN "insert" ELSE "look"
           what == Request("create", at, plan)
<1>1. /\ req' = [req EXCEPT ![r] = what] /\ begun' \in 0..MaxRequests /\ plan \in Plans
      /\ UNCHANGED <<tenantVars, payVars, cacheVars, rows, page>>
  BY BillingAssumption DEF CheckPlan, Begin, Typed, RowsTyped
<1>2. what \in Ask({"create"}, {at}, {plan}, {None}) /\ what.pay = None /\ what.op = "create" /\ what.at = at /\ what.plan = plan
  BY <1>1, PlansAre, RequestAsks DEF Request
<1> HIDE DEF what
<1>3. what \in Ask({"create"}, {"look", "count", "cache", "insert"}, Plans, {None})
  BY <1>1, <1>2 DEF Ask
<1>4. what \in Asked /\ KnownBy(what, applied')
  BY <1>2, <1>3 DEF Asked, KnownBy
<1>5. RowsTyped' /\ PaymentsKnown' /\ PlanAsMeant' /\ FoundKept
  BY <1>1 DEF tenantVars, payVars, cacheVars, Typed, RowsTyped, PaymentsKnown, Paid, PlanAsMeant, FoundKept, Found
<1>6. ~At(r, "checkout", "key")
  BY DEF CheckPlan, Begin, At
<1> QED BY <1>1, <1>4, <1>5, <1>6, RequestGoes DEF payVars

\* A decision admits a creation, or ends it.
LEMMA Decides ==
  ASSUME PlanInv, NEW r \in Requests, NEW what \in Ask({"create"}, {"look", "cache"}, Plans, {None}),
         Decide(r, what), ~At(r, "checkout", "key"), UNCHANGED payment, RowsTyped', PaymentsKnown', PlanAsMeant', FoundKept
  PROVE  PlanInv'
<1>1. CASE WithinLimit(what.number, what.plan)
  <2> DEFINE on == [what EXCEPT !.at = "insert"]
  <2>1. /\ on \in Ask({"create"}, {"look", "count", "cache", "insert"}, Plans, {None})
        /\ on.pay = None /\ on.op = "create"
    BY DEF Ask
  <2>2. req' = [req EXCEPT ![r] = on]
    BY <1>1 DEF Decide, Step
  <2> HIDE DEF on
  <2>3. on \in Asked /\ KnownBy(on, applied')
    BY <2>1 DEF Asked, KnownBy
  <2> QED BY <2>2, <2>3, RequestGoes
<1>2. CASE ~WithinLimit(what.number, what.plan)
  BY <1>2, RequestGoes DEF Decide, Step
<1> QED BY <1>1, <1>2

\* The count comes from the cache, or from the rows.
LEMMA Counts ==
  ASSUME PlanInv, NEW r \in Requests, LookUpCount(r) \/ CountRows(r) \/ CacheCount(r)
  PROVE  PlanInv'
<1> USE DEF PlanInv
<1>1. CASE LookUpCount(r)
  <2>1. /\ req[r] \in Ask({"create"}, {"look"}, Plans, {None})
        /\ UNCHANGED <<tenantVars, payVars, cacheVars, rows, page, begun>> /\ ~At(r, "checkout", "key")
    BY <1>1, KindsTyped DEF LookUpCount, At
  <2>2. RowsTyped' /\ PaymentsKnown' /\ PlanAsMeant' /\ FoundKept
    BY <2>1 DEF tenantVars, payVars, cacheVars, Typed, RowsTyped, PaymentsKnown, Paid, PlanAsMeant, FoundKept, Found
  <2>3. CASE countCache # None
    <3>1. countCache \in 0..MaxRows
      BY <2>3 DEF Typed, RowsTyped
    <3>2. [req[r] EXCEPT !.number = countCache] \in Ask({"create"}, {"look", "cache"}, Plans, {None})
      BY <2>1, <3>1 DEF Ask
    <3>3. Decide(r, [req[r] EXCEPT !.number = countCache])
      BY <1>1, <2>3 DEF LookUpCount
    <3> QED BY <2>1, <2>2, <3>2, <3>3, Decides DEF payVars
  <2>4. CASE countCache = None
    <3> DEFINE what == [req[r] EXCEPT !.at = "count"]
    <3>1. /\ what \in Ask({"create"}, {"look", "count", "cache", "insert"}, Plans, {None})
          /\ what.pay = None /\ what.op = "create" /\ what.at = "count"
      BY <2>1 DEF Ask
    <3>2. req' = [req EXCEPT ![r] = what]
      BY <1>1, <2>4 DEF LookUpCount, Step
    <3> HIDE DEF what
    <3>3. what \in Asked /\ KnownBy(what, applied')
      BY <3>1 DEF Asked, KnownBy
    <3> QED BY <2>1, <2>2, <3>2, <3>3, RequestGoes DEF payVars
  <2> QED BY <2>3, <2>4
<1>2. CASE CountRows(r)
  <2> DEFINE what == [req[r] EXCEPT !.at = "cache", !.number = rows]
  <2>1. /\ req[r] \in Ask({"create"}, {"count"}, Plans, {None}) /\ req' = [req EXCEPT ![r] = what]
        /\ UNCHANGED <<tenantVars, payVars, cacheVars, rows, page, begun>> /\ rows \in 0..MaxRows
        /\ ~At(r, "checkout", "key")
    BY <1>2, KindsTyped DEF CountRows, Step, Typed, RowsTyped, At
  <2>2. /\ what \in Ask({"create"}, {"look", "count", "cache", "insert"}, Plans, {None})
        /\ what.pay = None /\ what.op = "create" /\ what.at = "cache"
    BY <2>1 DEF Ask
  <2> HIDE DEF what
  <2>3. what \in Asked /\ KnownBy(what, applied')
    BY <2>2 DEF Asked, KnownBy
  <2>4. RowsTyped' /\ PaymentsKnown' /\ PlanAsMeant' /\ FoundKept
    BY <2>1 DEF tenantVars, payVars, cacheVars, Typed, RowsTyped, PaymentsKnown, Paid, PlanAsMeant, FoundKept, Found
  <2> QED BY <2>1, <2>3, <2>4, RequestGoes DEF payVars
<1>3. CASE CacheCount(r)
  <2>1. /\ req[r] \in Ask({"create"}, {"cache"}, Plans, {None}) /\ countCache' = req[r].number
        /\ UNCHANGED <<tenantVars, payVars, tenantCache, rows, page, begun>> /\ Decide(r, req[r])
        /\ ~At(r, "checkout", "key")
    BY <1>3, KindsTyped DEF CacheCount, At
  <2>2. req[r].number \in 0..MaxRows /\ req[r] \in Ask({"create"}, {"look", "cache"}, Plans, {None})
    BY <2>1 DEF Ask
  <2>3. RowsTyped' /\ PaymentsKnown' /\ PlanAsMeant' /\ FoundKept
    BY <2>1, <2>2 DEF tenantVars, payVars, Typed, RowsTyped, PaymentsKnown, Paid, PlanAsMeant, FoundKept, Found
  <2> QED BY <2>1, <2>2, <2>3, Decides DEF payVars
<1> QED BY <1>1, <1>2, <1>3

\* The row, if the handler comes that far.
LEMMA Inserts == ASSUME PlanInv, NEW r \in Requests, Insert(r) PROVE PlanInv'
<1>1. /\ req' = [req EXCEPT ![r] = None] /\ rows' \in 0..MaxRows
      /\ UNCHANGED <<tenantVars, payVars, cacheVars, page, begun>>
  BY BillingAssumption DEF Insert, Step, PlanInv, Typed, RowsTyped
<1>3. ~At(r, "checkout", "key")
  BY DEF Insert, At
<1>2. RowsTyped' /\ PaymentsKnown' /\ PlanAsMeant' /\ FoundKept
  BY <1>1 DEF tenantVars, payVars, cacheVars, PlanInv, Typed, RowsTyped, PaymentsKnown, Paid, PlanAsMeant, FoundKept, Found
<1> QED BY <1>1, <1>2, <1>3, RequestGoes DEF payVars

\* Steps of no request: the browser, the expiry of keys, a row that is deleted.
LEMMA OthersStep ==
  ASSUME PlanInv, Return \/ Reload \/ RemoveRow \/ ExpireTenant \/ ExpireCount \/ ExpirePending \/ UNCHANGED billingVars
  PROVE  PlanInv'
<1> USE DEF PlanInv
<1>1. /\ UNCHANGED <<req, payment, plan, meant, clobbered, applied, notices, begun>>
      /\ \/ UNCHANGED <<pending, forgotten>>
         \/ pending' = None /\ forgotten' = forgotten \cup ({pending} \ {None})
  BY DEF Return, Reload, RemoveRow, ExpireTenant, ExpireCount, ExpirePending, NameOnly, billingVars, payVars, tenantVars
<1>2. page' \in [plan : Plans, upgraded : BOOLEAN, answer : Answers]
  BY DEF Return, Reload, RemoveRow, ExpireTenant, ExpireCount, ExpirePending, billingVars, Typed, RowsTyped, Answers
<1>3. rows' \in 0..MaxRows
  BY BillingAssumption
     DEF Return, Reload, RemoveRow, ExpireTenant, ExpireCount, ExpirePending, billingVars, Typed, RowsTyped
<1>4. tenantCache' \in {tenantCache, None} /\ countCache' \in {countCache, None}
  BY DEF Return, Reload, RemoveRow, ExpireTenant, ExpireCount, ExpirePending, billingVars, cacheVars
<1>5. RowsTyped' /\ PaymentsKnown' /\ PlanAsMeant'
  BY <1>1, <1>2, <1>3, <1>4 DEF Typed, RowsTyped, PaymentsKnown, Paid, PlanAsMeant
<1>6. FoundKept
  BY <1>1, PlansAre DEF FoundKept, Found
<1> QED BY <1>1, <1>5, <1>6, RequestsStay

\* Every step keeps it.
LEMMA PlanStep == ASSUME PlanInv, [BillingNext]_billingVars PROVE PlanInv'
BY Checkouts, CreatesPayment, Settles, StoresPending, VerifiesKey, VerifiesStatus, VerifiesUpdate, VerifiesDrop,
   Webhooks, PatchReads, PatchSaves, Visits, ChecksPlan, Counts, Inserts, OthersStep DEF BillingNext, Proceed

-----------------------------------------------------------------------------
(* The guarantees.                                                         *)

\* The tenant has the plan that was last verified, notified or asked for, unless a PATCH of
\* the name wrote an older one back; what succeeds is found by the verification, unless the
\* key stopped naming it; and only what was paid is applied.
THEOREM PaymentsAreFound == BillingSpec => []BillingInv
<1>1. ASSUME PlanInv PROVE BillingInv
  <2>1. BillingTypeOK /\ PlanAsMeant /\ AppliedWasPaid
    BY <1>1, TypedIsTypeOK DEF PlanInv, PaymentsKnown, AppliedWasPaid
  <2>2. PaidIsFound
    BY <1>1 DEF PlanInv, PaymentsFound, PaidIsFound, Paid, Found
  <2> QED BY <2>1, <2>2 DEF BillingInv
<1> QED BY <1>1, InitInv, PlanStep, PTL DEF BillingSpec
=============================================================================
