------------------------------- MODULE WebClient -------------------------------
(***************************************************************************)
(* Who a browser tab says it is: the axios interceptors that refresh an    *)
(* expired access token and let other requests wait for it                 *)
(* (apps/web/src/api/client.ts), the auth store that localStorage persists *)
(* (stores/auth.store.ts), and the pages that fill and clear it            *)
(* (LoginPage, ProtectedRoute, Sidebar).  "login" stands for the addresses *)
(* ProtectedRoute does not guard, "app" for the others.                    *)
(*                                                                         *)
(* An access token and a refresh token are generated together and are one  *)
(* pair here.  AuthService has the server's side in detail; its refresh is *)
(* one step here.  Between two turns of the event loop anything may        *)
(* happen: answers come in any order, tokens expire, pages are reloaded.   *)
(***************************************************************************)
EXTENDS Integers, FiniteSets, Sequences

CONSTANTS
  Tabs, Calls,  \* of one page
  Users,
  None,
  MaxPairs,        \* bound: pairs of tokens generated
  MaxBreaks        \* bound: answers lost, and pages reloaded or left

VARIABLES
  pair,    \* sequence of [user, access: not expired, refresh]
  usedBy,  \* history: pair -> the tab that exchanged its refresh token
  storage, \* localStorage 'tm:auth'
  tab,     \* tab -> its store, isRefreshing, where it is, a number for this load of it
  request, \* tab -> request -> what became of it
  posts,   \* POST /auth/refresh under way
  late,    \* history: tabs whose session something may still reach that is not of it
  spilt,   \* history: such a tab was the last to write localStorage
  breaks   \* counter of the bound

webVars == <<pair, usedBy, storage, tab, request, posts, late, spilt, breaks>>

Pairs == 1..MaxPairs
Store == [access : Pairs \cup {None}, refresh : Pairs \cup {None}, user : Users \cup {None}]
Page == [tab : Tabs, load : Nat]  \* one load of a tab
SignedOut == [access |-> None, refresh |-> None, user |-> None]

\* kind: an ordinary request, or the profile a login, or ProtectedRoute, loads.
\* held: the access token it will write back with the profile.  answer: whose.
Idle == [at |-> "idle", kind |-> "plain", token |-> None, retry |-> FALSE, held |-> None, answer |-> None]
Profile(n) == [Idle EXCEPT !.at = "sent", !.kind = "route", !.token = n, !.held = n]

ASSUME WebClientAssumption == MaxPairs \in Nat /\ MaxBreaks \in Nat /\ None \notin Users \cup Pairs \cup Tabs

WebInit ==
  /\ pair = <<>> /\ usedBy = [n \in Pairs |-> None]
  /\ storage = SignedOut
  /\ tab = [t \in Tabs |-> [store |-> SignedOut, refreshing |-> FALSE, page |-> "login", load |-> 1]]
  /\ request = [t \in Tabs |-> [q \in Calls |-> Idle]]
  /\ posts = {} /\ late = {} /\ spilt = FALSE /\ breaks = 0

-----------------------------------------------------------------------------
(* The store and the page.                                                 *)

\* partialize keeps all that is modelled.
Persisted(s) == s

\* set() of the store, by the tab's script; at: the page it is on then.
Writes(t, s, at) ==
  /\ tab' = [tab EXCEPT ![t].store = s, ![t].page = at]
  /\ storage' = Persisted(s)
  /\ spilt' = (t \in late')

\* Mutant of NewTokens: the refresh token that was presented is kept.
AccessOnly(s, n) == [s EXCEPT !.access = n]

NewTokens(s, n) == [s EXCEPT !.access = n, !.refresh = n]

\* Mutant of Cleared: the tokens only.
TokensOnly(s) == [s EXCEPT !.access = None, !.refresh = None]

\* clearAuth
Cleared(s) == SignedOut

\* A number that names no page whose refresh is under way.
NewLoad ==
  LET known == {p.page.load : p \in posts}
  IN CHOOSE n \in 1..Cardinality(known) + 1 : n \notin known

Break == breaks < MaxBreaks /\ breaks' = breaks + 1

Becomes(t, q, r) == request' = [request EXCEPT ![t][q] = r]

PageOf(t) == [tab |-> t, load |-> tab[t].load]

\* Something will come back to the tab and may change its store, or exchange its token.
UnderWay(t, these) ==
  \/ \E p \in posts : p.page.tab = t
  \/ \E q \in these : request[t][q].at # "idle"

LateIf(t, reason) == late' = IF reason THEN late \cup {t} ELSE late \ {t}

\* A page load at a guarded address or not: what was under way has nobody to come back to,
\* the store is s, the one localStorage has, and ProtectedRoute loads a profile that is
\* missing.  A refresh that is under way may exchange the token in s, or has done it.
Loads(t, s, guarded) ==
  LET at == IF guarded /\ s.access # None THEN "app" ELSE "login" IN
  /\ storage' = s
  /\ tab' = [tab EXCEPT ![t] = [store |-> s, refreshing |-> FALSE, load |-> NewLoad, page |-> at]]
  /\ \E q \in Calls :
       request' = [request EXCEPT ![t] =
         [r \in Calls |-> IF r = q /\ at = "app" /\ s.user = None THEN Profile(s.access) ELSE Idle]]
  /\ spilt' = (spilt /\ s # SignedOut)
  /\ LateIf(t, \/ spilt'
               \/ \E p \in posts' : p.page.tab = t
               \/ s.refresh # None /\ usedBy[s.refresh] = t)

-----------------------------------------------------------------------------
(* Calls.                                                               *)

\* The request interceptor attaches the token of that moment.  ProtectedRoute shows
\* a spinner until there is a user.
Send(t, q) ==
  /\ tab[t].page = "app" /\ tab[t].store.user # None /\ request[t][q].at = "idle"
  /\ Becomes(t, q, [Idle EXCEPT !.at = "sent", !.token = tab[t].store.access])
  /\ UNCHANGED <<pair, usedBy, storage, tab, posts, late, spilt, breaks>>

\* handleSubmit: POST /auth/login; /login asks for nobody's session to be over.
SendPassword(t, q) ==
  /\ tab[t].page = "login" /\ \A r \in Calls : request[t][r].kind \notin {"password", "login"}
  /\ request[t][q].at = "idle"
  /\ Becomes(t, q, [Idle EXCEPT !.at = "sent", !.kind = "password"])
  /\ UNCHANGED <<pair, usedBy, storage, tab, posts, late, spilt, breaks>>

Fresh(u) == [user |-> u, access |-> TRUE, refresh |-> "unused"]

Valid(r) == r.kind # "password" /\ r.token # None /\ pair[r.token].access

\* The server: login of somebody, or 401; any other request, by its access token.  The
\* answer to an ordinary one ends it.
Serve(t, q) ==
  LET r == request[t][q] IN
  /\ r.at = "sent"
  /\ \/ /\ r.kind = "password" /\ Len(pair) < MaxPairs
        /\ \E u \in Users : pair' = Append(pair, Fresh(u))
        /\ Becomes(t, q, [r EXCEPT !.at = "ok", !.answer = Len(pair) + 1])
     \/ /\ Valid(r)
        /\ Becomes(t, q, IF r.kind = "plain" THEN Idle ELSE [r EXCEPT !.at = "ok", !.answer = pair[r.token].user])
        /\ UNCHANGED pair
     \/ /\ ~Valid(r)
        /\ Becomes(t, q, [r EXCEPT !.at = "denied"])
        /\ UNCHANGED pair
  /\ UNCHANGED <<usedBy, storage, tab, posts, late, spilt, breaks>>

\* A login gives the store the tokens of pair n, which q was answered.  The session is not
\* safely that user's while other things are under way, if the tab has exchanged n
\* meanwhile, or beside the user of a session that was open.
SignedIn(t, q, s, n) ==
  LateIf(t, \/ UnderWay(t, Calls \ {q})
            \/ usedBy[n] = t
            \/ s.access # None /\ s.user \notin {None, pair[n].user})

\* setTokens and, with the profile, setAuth; setAuth of ProtectedRoute.
ReceiveOk(t, q) ==
  LET r == request[t][q]
      s == tab[t].store IN
  /\ r.at = "ok"
  /\ CASE r.kind = "password" ->
            /\ SignedIn(t, q, s, r.answer)
            /\ Writes(t, NewTokens(s, r.answer), tab[t].page)
            /\ Becomes(t, q, [Idle EXCEPT !.at = "sent", !.kind = "login", !.held = r.answer,
                                          !.token = r.answer])
       [] r.kind = "login" ->
            /\ SignedIn(t, q, SignedOut, r.held)
            /\ Writes(t, [access |-> r.held, refresh |-> r.held, user |-> r.answer], "app")
            /\ Becomes(t, q, Idle)
       [] r.kind = "route" ->
            /\ UNCHANGED late
            /\ Writes(t, [access |-> r.held, refresh |-> s.refresh, user |-> r.answer], tab[t].page)
            /\ Becomes(t, q, Idle)
  /\ UNCHANGED <<pair, usedBy, posts, breaks>>

\* clearAuth, while other things may be under way.
SignsOut(t, others) ==
  /\ LateIf(t, UnderWay(t, others))
  /\ Writes(t, Cleared(tab[t].store), "login")

\* The promise rejects: ProtectedRoute clears the store, the others show an error.
Fails(t, q) ==
  /\ Becomes(t, q, Idle)
  /\ IF request[t][q].kind = "route" THEN SignsOut(t, Calls \ {q})
     ELSE UNCHANGED <<tab, storage, late, spilt>>

\* Mutant of Refreshing: every 401 starts a refresh.
NotTold(t) == FALSE

Refreshing(t) == tab[t].refreshing

ReceiveDenied(t, q) ==
  LET r == request[t][q] IN
  /\ r.at = "denied"
  /\ \/ /\ r.retry
        /\ Fails(t, q)
        /\ UNCHANGED posts
     \/ /\ ~r.retry /\ Refreshing(t)
        /\ Becomes(t, q, [r EXCEPT !.at = "queued"])
        /\ UNCHANGED <<tab, storage, posts, late, spilt>>
     \/ /\ ~r.retry /\ ~Refreshing(t) /\ tab[t].store.refresh # None
        /\ Becomes(t, q, [r EXCEPT !.at = "leading", !.retry = TRUE])
        /\ tab' = [tab EXCEPT ![t].refreshing = TRUE]
        /\ posts' = posts \cup {[page |-> PageOf(t), leader |-> q, token |-> tab[t].store.refresh,
                                 at |-> "sent", got |-> None]}
        /\ UNCHANGED <<storage, late, spilt>>
     \/ \* No refresh token
        /\ ~r.retry /\ ~Refreshing(t) /\ tab[t].store.refresh = None
        /\ UNCHANGED posts
        /\ Loads(t, Cleared(tab[t].store), FALSE)
  /\ UNCHANGED <<pair, usedBy, breaks>>

Lose(t, q) ==
  /\ Break
  /\ request[t][q].at = "sent"
  /\ Fails(t, q)
  /\ UNCHANGED <<pair, usedBy, posts>>

-----------------------------------------------------------------------------
(* The refresh.                                                            *)

Answer(p, n) == posts' = (posts \ {p}) \cup {[p EXCEPT !.at = "answered", !.got = n]}

\* AuthService.refresh.  Marking the token used and then failing is possible.
ServePost(p) ==
  /\ p.at = "sent"
  /\ LET n == p.token IN
     CASE pair[n].refresh = "unused" ->
            /\ usedBy' = [usedBy EXCEPT ![n] = p.page.tab]
            /\ \/ /\ Len(pair) < MaxPairs
                  /\ pair' = Append([pair EXCEPT ![n].refresh = "used"], Fresh(pair[n].user))
                  /\ Answer(p, Len(pair) + 1)
               \/ /\ pair' = [pair EXCEPT ![n].refresh = "used"]
                  /\ Answer(p, None)
       [] pair[n].refresh = "used" ->
            /\ pair' = [m \in DOMAIN pair |-> IF pair[m].user = pair[n].user
                                              THEN [pair[m] EXCEPT !.refresh = "gone"] ELSE pair[m]]
            /\ Answer(p, None) /\ UNCHANGED usedBy
       [] pair[n].refresh = "gone" ->
            Answer(p, None) /\ UNCHANGED <<pair, usedBy>>
  /\ UNCHANGED <<storage, tab, request, late, spilt, breaks>>

\* Mutant of Resolved: processQueue is left out.
StillQueued(r, n) == r

\* A request goes out again with the new token; one that waited may yet be the one
\* that refreshes.
Again(r, n) == [r EXCEPT !.at = "sent", !.token = n]

Resolved(r, n) == IF r.at = "queued" THEN Again(r, n) ELSE r

\* What the requests of the tab become.  While ProtectedRoute waits for the profile,
\* its effect runs again for the new token, if the model has a request left for it.
Told(t, p) ==
  LET went == [q \in Calls |-> IF q = p.leader THEN Again(request[t][q], p.got)
                                  ELSE Resolved(request[t][q], p.got)]
      free == {q \in Calls : went[q].at = "idle"}
  IN IF tab[t].page = "app" /\ tab[t].store.user = None /\ free # {}
     THEN {[went EXCEPT ![q] = Profile(p.got)] : q \in free}
     ELSE {went}

ReceivePost(p) ==
  LET t == p.page.tab IN
  /\ p.at = "answered"
  /\ posts' = posts \ {p}
  /\ IF p.page # PageOf(t) THEN UNCHANGED <<tab, storage, request, late, spilt>>
     ELSE IF p.got = None THEN Loads(t, Cleared(tab[t].store), FALSE)
     ELSE LET s == NewTokens(tab[t].store, p.got) IN
          /\ tab' = [tab EXCEPT ![t].store = s, ![t].refreshing = FALSE]
          /\ storage' = Persisted(s)
          /\ spilt' = (t \in late)
          /\ \E told \in Told(t, p) : request' = [request EXCEPT ![t] = told]
          /\ UNCHANGED late
  /\ UNCHANGED <<pair, usedBy, breaks>>

LosePost(p) ==
  /\ Break
  /\ p.got # None \/ p.at = "sent"
  /\ Answer(p, None)
  /\ UNCHANGED <<pair, usedBy, storage, tab, request, late, spilt>>

-----------------------------------------------------------------------------

\* handleLogout of the sidebar tells nobody else.
Logout(t) ==
  /\ tab[t].page = "app"
  /\ SignsOut(t, Calls)
  /\ UNCHANGED <<pair, usedBy, request, posts, breaks>>

\* A reload, or an address typed in.
Visit(t) ==
  /\ Break
  /\ UNCHANGED <<pair, usedBy, posts>>
  /\ \E guarded \in BOOLEAN : Loads(t, storage, guarded)

\* Back to the landing page, /login or /register, which ask nothing of the session.
LeaveApp(t) ==
  /\ Break
  /\ tab[t].page = "app"
  /\ tab' = [tab EXCEPT ![t].page = "login"]
  /\ UNCHANGED <<pair, usedBy, storage, request, posts, late, spilt>>

\* Forward again: ProtectedRoute, with the store as it is, if the model has a request left.
EnterApp(t) ==
  LET s == tab[t].store
      free == {q \in Calls : request[t][q].at = "idle"} IN
  /\ tab[t].page = "login" /\ s.access # None
  /\ tab' = [tab EXCEPT ![t].page = "app"]
  /\ IF s.user = None /\ free # {} THEN \E q \in free : Becomes(t, q, Profile(s.access))
     ELSE UNCHANGED request
  /\ UNCHANGED <<pair, usedBy, storage, posts, late, spilt, breaks>>

\* A browser still has it.
Kept(n) ==
  \/ n \in {storage.access, storage.refresh}
  \/ \E t \in Tabs : n \in {tab[t].store.access, tab[t].store.refresh}
  \/ \E t \in Tabs, q \in Calls : n \in {request[t][q].token, request[t][q].held}
  \/ \E p \in posts : n = p.token

\* 15 minutes; a login takes seconds.
ExpireAccess(n) ==
  /\ n \in DOMAIN pair /\ pair[n].access /\ Kept(n)
  /\ \A t \in Tabs, q \in Calls : request[t][q].kind \in {"password", "login"} => n \notin {request[t][q].held, request[t][q].answer}
  /\ pair' = [pair EXCEPT ![n].access = FALSE]
  /\ UNCHANGED <<usedBy, storage, tab, request, posts, late, spilt, breaks>>

\* 60 seconds after the exchange.
ForgetUsed(n) ==
  /\ n \in DOMAIN pair /\ pair[n].refresh = "used" /\ Kept(n)
  /\ pair' = [pair EXCEPT ![n].refresh = "gone"]
  /\ UNCHANGED <<usedBy, storage, tab, request, posts, late, spilt, breaks>>

GoesOn(t, q) == Serve(t, q) \/ ReceiveOk(t, q) \/ ReceiveDenied(t, q)

WebNext ==
  \/ \E t \in Tabs :
       \/ Logout(t) \/ Visit(t) \/ LeaveApp(t) \/ EnterApp(t)
       \/ \E q \in Calls :
            Send(t, q) \/ SendPassword(t, q) \/ GoesOn(t, q) \/ Lose(t, q)
  \/ \E p \in posts : ServePost(p) \/ ReceivePost(p) \/ LosePost(p)
  \/ \E n \in Pairs : ExpireAccess(n) \/ ForgetUsed(n)

\* The server answers, and the tab's event loop goes on.
WebFairness ==
  /\ \A t \in Tabs, q \in Calls : WF_webVars(GoesOn(t, q))
  /\ WF_webVars(\E p \in posts : ServePost(p) \/ ReceivePost(p))

WebSpec == WebInit /\ [][WebNext]_webVars /\ WebFairness

-----------------------------------------------------------------------------
(* Properties.                                                             *)

WebTypeOK ==
  /\ pair \in Seq([user : Users, access : BOOLEAN, refresh : {"unused", "used", "gone"}])
  /\ storage \in Store
  /\ \A t \in Tabs :
       /\ tab[t].store \in Store /\ tab[t].refreshing \in BOOLEAN /\ tab[t].page \in {"login", "app"}
       /\ \A q \in Calls :
            request[t][q] \in [at : {"idle", "sent", "ok", "denied", "queued", "leading"},
                               kind : {"plain", "password", "login", "route"}, retry : BOOLEAN,
                               token : Pairs \cup {None}, held : Pairs \cup {None},
                               answer : Pairs \cup Users \cup {None}]
  /\ \A p \in posts : p.leader \in Calls /\ p.token \in Pairs /\ p.got \in Pairs \cup {None}
  /\ late \subseteq Tabs /\ spilt \in BOOLEAN /\ breaks \in 0..MaxBreaks

\* However many requests of a page get 401, at most one refresh of it is under way.
OneRefresh == \A t \in Tabs : Cardinality({p \in posts : p.page = PageOf(t)}) <= 1

\* No tab presents a refresh token it has exchanged itself, which would end every session
\* of the user: whatever was queued, retried or lost, before a reload or after.  Named
\* exceptions, until the tab is loaded, signed in or signed out with nothing under way:
\* something was under way when its store was cleared or another login filled it; it was
\* loaded while a refresh was under way, or with a token it had exchanged in localStorage.
NoReuse == \A p \in posts : p.at = "sent" /\ p.page.tab \notin late => usedBy[p.token] # p.page.tab

\* The user a tab shows is the one its access token names.  Named exceptions: those of
\* NoReuse, and a login over the open session of somebody else, until its profile comes.
OwnTokens ==
  \A t \in Tabs \ late : LET s == tab[t].store IN
    s.user # None /\ s.access # None => pair[s.access].user = s.user

\* No request waits for ever, those in the queue of a refresh included.
Settles == \A t \in Tabs, q \in Calls : request[t][q].at # "idle" ~> request[t][q].at = "idle"

\* The variables have their types, and OwnTokens: the tokens of a tab are those of the
\* user it shows.
SessionInv == WebTypeOK /\ OwnTokens
=============================================================================
