----------------------------- MODULE Registration -----------------------------
(***************************************************************************)
(* How an organisation is registered: the page with its three steps (apps/ *)
(* web, features/auth/RegisterOrgPage.tsx), whose checks of the slug are   *)
(* answered in any order, and the transaction of the API (tenants.service  *)
(* .ts, register), beside that of somebody else.  useDebounce lets a slug  *)
(* through when it has not changed for 400 ms.                             *)
(***************************************************************************)
EXTENDS Integers, FiniteSets

CONSTANTS
  Slugs, NoSlug,
  Regs,          \* register requests the API handles at a time
  Mine,          \* the one of the page
  MaxChecks,     \* bound: checks of the slug
  MaxTries       \* bound: registrations in all

VARIABLES
  tenants,       \* rows: slug, and the number of the registration that wrote it
  admins,        \* rows: the slug of the tenant, and the registration
  reg,           \* register request -> its slug, its number and how far it got
  page,
  checks,        \* check of the slug, numbered -> its slug and the answer
  arrived,       \* history: the latest check answered
  tries          \* counter of the bound

registerVars == <<tenants, admins, reg, page, checks, arrived, tries>>

Marks == {"unknown", "free", "taken"}

\* name: the slug the name of the organisation gives.  mark: slugAvailable.
\* about: history: the slug the mark was asked for.
RegisterPage ==
  [step : 1..3, name : Slugs \cup {NoSlug}, slug : Slugs \cup {NoSlug},
   debounced : Slugs \cup {NoSlug}, mark : Marks, about : Slugs \cup {NoSlug}, checking : BOOLEAN,
   state : {"editing", "loading", "error", "in"}]

Check == [slug : Slugs \cup {NoSlug}, answer : {"none", "asked", "failed", "free", "taken", "over"}]

Reg == [slug : Slugs \cup {NoSlug}, number : 0..MaxTries,
        pc : {"idle", "find", "insertTenant", "insertUser", "commit", "tokens", "ok", "error"}]

ASSUME RegistrationAssumption ==
  NoSlug \notin Slugs /\ Mine \in Regs /\ MaxChecks \in Nat /\ MaxTries \in Nat

NoReg == [slug |-> NoSlug, number |-> 0, pc |-> "idle"]
NoCheck == [slug |-> NoSlug, answer |-> "none"]

RegisterInit ==
  /\ tenants = {} /\ admins = {}
  /\ reg = [r \in Regs |-> NoReg]
  /\ page = [step |-> 1, name |-> NoSlug, slug |-> NoSlug, debounced |-> NoSlug, mark |-> "unknown",
             about |-> NoSlug, checking |-> FALSE, state |-> "editing"]
  /\ checks = [n \in 1..MaxChecks |-> NoCheck]
  /\ arrived = 0 /\ tries = 0

-----------------------------------------------------------------------------
(* The page.                                                               *)

Started == Cardinality({n \in 1..MaxChecks : checks[n].answer # "none"})

\* Mutant of Due: the effect does not depend on the step.
DueOnChange(p) == p.step = 2 /\ p.debounced # NoSlug /\ p.debounced # page.debounced

\* The effect on [debouncedSlug, step].
Due(p) ==
  p.step = 2 /\ p.debounced # NoSlug /\ (p.debounced # page.debounced \/ p.step # page.step)

Rendered(p) ==
  /\ page.state # "in"
  /\ IF Due(p)
     THEN /\ Started < MaxChecks
          /\ page' = [p EXCEPT !.checking = TRUE, !.mark = "unknown"]
          /\ checks' = [checks EXCEPT ![Started + 1] = [slug |-> p.debounced, answer |-> "asked"]]
     ELSE page' = p /\ UNCHANGED checks
  /\ UNCHANGED <<tenants, admins, reg, arrived, tries>>

TypeName(s) == page.step = 1 /\ page.name # s /\ Rendered([page EXCEPT !.name = s, !.slug = s])

TypeSlug(s) == page.step = 2 /\ page.slug # s /\ Rendered([page EXCEPT !.slug = s])

Debounce == page.debounced # page.slug /\ Rendered([page EXCEPT !.debounced = page.slug])

\* validateStep and handleNext.
Continue ==
  /\ \/ page.step = 1 /\ page.name # NoSlug
     \/ page.step = 2 /\ page.slug # NoSlug /\ ~page.checking /\ page.mark = "free"
  /\ Rendered([page EXCEPT !.step = @ + 1])

\* Step 1 derives the slug from the name again.
Back ==
  /\ page.step > 1
  /\ Rendered([page EXCEPT !.step = @ - 1, !.slug = IF page.step = 2 THEN page.name ELSE @])

\* then, catch and finally, of whichever check.
CheckAnswered(n) ==
  /\ checks[n].answer \in {"failed", "free", "taken"}
  /\ page' = [page EXCEPT !.checking = FALSE, !.about = checks[n].slug,
                          !.mark = IF checks[n].answer = "failed" THEN "unknown" ELSE checks[n].answer]
  /\ checks' = [checks EXCEPT ![n].answer = "over"]
  /\ arrived' = n
  /\ UNCHANGED <<tenants, admins, reg, tries>>

Api == UNCHANGED <<page, checks, arrived>>

AskForTenant(r, s) ==
  /\ reg[r].pc = "idle" /\ tries < MaxTries /\ tries' = tries + 1
  /\ reg' = [reg EXCEPT ![r] = [slug |-> s, number |-> tries + 1, pc |-> "find"]]
  /\ UNCHANGED <<tenants, admins, checks, arrived>>

\* handleSubmit.  The button is disabled while it waits.
Submit ==
  /\ page.step = 3 /\ page.state \in {"editing", "error"}
  /\ page' = [page EXCEPT !.state = "loading"]
  /\ AskForTenant(Mine, page.slug)

SubmitElsewhere(r, s) == r # Mine /\ AskForTenant(r, s) /\ UNCHANGED page

\* The tokens are stored; then the user and the tenant are fetched, which may fail.
RegisterAnswered(r) ==
  /\ reg[r].pc \in {"ok", "error"}
  /\ reg' = [reg EXCEPT ![r] = NoReg]
  /\ IF r # Mine THEN UNCHANGED page
     ELSE \E state \in IF reg[r].pc = "ok" THEN {"in", "error"} ELSE {"error"} :
            page' = [page EXCEPT !.state = state]
  /\ UNCHANGED <<tenants, admins, checks, arrived, tries>>

-----------------------------------------------------------------------------
(* The API.                                                                *)

\* checkSlug.  It fails, too, while the client names a tenant there is not, from a
\* login that failed.
ServeCheck(n) ==
  /\ checks[n].answer = "asked"
  /\ \E answer \in {"failed", IF \E t \in tenants : t[1] = checks[n].slug THEN "taken" ELSE "free"} :
       checks' = [checks EXCEPT ![n].answer = answer]
  /\ UNCHANGED <<tenants, admins, reg, page, arrived, tries>>

Reach(r, step) == reg' = [reg EXCEPT ![r].pc = step]
Row(r) == <<reg[r].slug, reg[r].number>>
Exists(r) == \E t \in tenants : t[1] = reg[r].slug

Find(r) ==
  /\ reg[r].pc = "find"
  /\ Reach(r, IF Exists(r) THEN "error" ELSE "insertTenant")
  /\ Api /\ UNCHANGED <<tenants, admins, tries>>

\* Another transaction has inserted the slug and not ended.
Locked(r) == \E q \in Regs \ {r} : reg[q].slug = reg[r].slug /\ reg[q].pc \in {"insertUser", "commit"}

\* Mutant of InsertTenant: the repository writes it, outside the transaction.
InsertTenantAtOnce(r) ==
  /\ reg[r].pc = "insertTenant"
  /\ Reach(r, IF Exists(r) THEN "error" ELSE "insertUser")
  /\ tenants' = IF Exists(r) THEN tenants ELSE tenants \cup {Row(r)}
  /\ Api /\ UNCHANGED <<admins, tries>>

\* The unique index makes an INSERT wait for the other one, and refuses it after that.
InsertTenant(r) ==
  /\ reg[r].pc = "insertTenant" /\ ~Locked(r)
  /\ Reach(r, IF Exists(r) THEN "error" ELSE "insertUser")
  /\ Api /\ UNCHANGED <<tenants, admins, tries>>

\* Hashing the password and the INSERT may fail: catch rolls back.
InsertUser(r) ==
  /\ reg[r].pc = "insertUser"
  /\ \E step \in {"commit", "error"} : Reach(r, step)
  /\ Api /\ UNCHANGED <<tenants, admins, tries>>

CommitTenant(r) ==
  /\ reg[r].pc = "commit"
  /\ tenants' = tenants \cup {Row(r)} /\ admins' = admins \cup {Row(r)}
  /\ Reach(r, "tokens")
  /\ Api /\ UNCHANGED tries

\* generateTokens, after the commit and in the same try: an error rolls back nothing.
Tokens(r) ==
  /\ reg[r].pc = "tokens"
  /\ \E step \in {"ok", "error"} : Reach(r, step)
  /\ Api /\ UNCHANGED <<tenants, admins, tries>>

RegisterNext ==
  \/ \E s \in Slugs : TypeName(s)
  \/ \E s \in Slugs \cup {NoSlug} : TypeSlug(s)
  \/ Debounce \/ Continue \/ Back \/ Submit
  \/ \E n \in 1..MaxChecks : ServeCheck(n) \/ CheckAnswered(n)
  \/ \E r \in Regs, s \in Slugs : SubmitElsewhere(r, s)
  \/ \E r \in Regs : Find(r) \/ InsertTenant(r) \/ InsertUser(r) \/ CommitTenant(r) \/ Tokens(r)
                     \/ RegisterAnswered(r)

RegisterSpec == RegisterInit /\ [][RegisterNext]_registerVars

-----------------------------------------------------------------------------
(* Properties.                                                             *)

RegisterTypeOK ==
  /\ tenants \subseteq Slugs \X (1..MaxTries) /\ admins \subseteq Slugs \X (1..MaxTries)
  /\ reg \in [Regs -> Reg]
  /\ page \in RegisterPage
  /\ checks \in [1..MaxChecks -> Check]
  /\ arrived \in 0..MaxChecks /\ tries \in 0..MaxTries

\* When the last check to be answered is the last one asked, what step 2 says of the
\* slug is about the slug it shows, and a slug marked as taken is: the user who goes
\* back and forth between the steps and types again is never left with the mark of
\* another slug.  (An earlier check answered last does leave it.)
SlugChecked ==
  page.step = 2 /\ page.slug # NoSlug /\ page.debounced = page.slug /\ arrived = Started =>
    /\ ~page.checking /\ page.about = page.slug
    /\ page.mark = "taken" => \E t \in tenants : t[1] = page.slug

\* No tenant is ever without the administrator its registration wrote, no two
\* registrations of a slug succeed, and a client that is told so has the tenant,
\* whichever step fails and however two registrations of one slug interleave.
TenantsHaveAdmins ==
  /\ tenants = admins
  /\ \A t, u \in tenants : t[1] = u[1] => t = u
  /\ \A r \in Regs : reg[r].pc = "ok" => Row(r) \in admins

\* The variables have their types, and SlugChecked: step 2 marks the slug it shows.
RegisterInv == RegisterTypeOK /\ SlugChecked
=============================================================================
