---------------------------- MODULE WebClientProofs ----------------------------
(* What WebClient guarantees for any tabs, requests, users and numbers of pairs.  *)
EXTENDS WebClient, FiniteSetTheorems, TLAPS

PairRow == [user : Users, access : BOOLEAN, refresh : {"unused", "used", "gone"}]
Token == DOMAIN pair \cup {None}
Tab == [store : Store, refreshing : BOOLEAN, page : {"login", "app"}, load : Nat]
Request == [at : {"idle", "sent", "ok", "denied", "queued", "leading"},
            kind : {"plain", "password", "login", "route"}, retry : BOOLEAN,
            token : Pairs \cup {None}, held : Pairs \cup {None}, answer : Pairs \cup Users \cup {None}]
Post == [page : Page, leader : Calls, token : Pairs, at : {"sent", "answered"}, got : Pairs \cup {None}]

\* Pairs are generated one after the other; only those that are can be used.
PairsTyped ==
  /\ pair \in Seq(PairRow) /\ Len(pair) <= MaxPairs
  /\ usedBy \in [Pairs -> Tabs \cup {None}]
  /\ \A n \in Pairs : usedBy[n] # None => n \in DOMAIN pair

StoreTyped(s) == s \in Store /\ s.access \in Token /\ s.refresh \in Token /\ (s.access = None => s.user = None)

\* A login knows the pair it was answered, which has not expired; then, whose it is.
RequestKnown(t, q) ==
  LET r == request[t][q] IN
  /\ r \in Request /\ r.token \in Token /\ r.held \in Token
  /\ r.at = "idle" => r = Idle
  /\ r.at = "ok" => r.kind # "plain"
  /\ r.kind = "password" /\ r.at = "ok" => r.answer \in DOMAIN pair /\ pair[r.answer].access
  /\ r.kind = "login" => /\ r.at \in {"sent", "ok"} /\ r.token = r.held /\ r.held \in DOMAIN pair /\ pair[r.held].access
                         /\ r.at = "ok" => r.answer = pair[r.held].user
  /\ r.kind = "route" => /\ r.token \in DOMAIN pair /\ r.held \in DOMAIN pair
                         /\ r.at = "ok" => r.answer = pair[r.token].user

Current(p, t) == p.page = PageOf(t)

\* A refresh under way, whose page is told of it and whose leader waits for it.
PostKnown(p) ==
  /\ p \in Post /\ p.token \in DOMAIN pair /\ p.got \in Token
  /\ p.at = "sent" => p.got = None
  /\ \A t \in Tabs : Current(p, t) => tab[t].refreshing /\ request[t][p.leader].at = "leading"
  /\ p.got # None => pair[p.got].user = pair[p.token].user

PostsKnown ==
  /\ IsFiniteSet(posts) /\ \A p \in posts : PostKnown(p)
  /\ \A p, r \in posts : p.page = r.page => p = r

TabsTyped == tab \in [Tabs -> Tab] /\ \A t \in Tabs : StoreTyped(tab[t].store)

RequestsKnown ==
  /\ request \in [Tabs -> [Calls -> Request]]
  /\ \A t \in Tabs, q \in Calls : RequestKnown(t, q)

Typed ==
  /\ PairsTyped /\ StoreTyped(storage) /\ TabsTyped /\ RequestsKnown /\ PostsKnown
  /\ late \subseteq Tabs /\ spilt \in BOOLEAN /\ breaks \in 0..MaxBreaks

\* A store has both tokens or none, of one user, and no other's profile.
Fits(s) ==
  /\ s.access = None <=> s.refresh = None
  /\ s.access # None => pair[s.access].user = pair[s.refresh].user
  /\ s.user # None => s.access # None /\ pair[s.access].user = s.user

\* A profile is loaded for the user of the tab's store.
Suits(t, q) ==
  LET r == request[t][q]
      s == tab[t].store IN
  r.kind = "route" => /\ s.refresh # None
                      /\ pair[r.token].user = pair[s.refresh].user
                      /\ pair[r.held].user = pair[s.refresh].user

\* A refresh of tab t is of its current page and its store, which it has not exchanged.
Mine(t, p) ==
  /\ Current(p, t) /\ p.token = tab[t].store.refresh
  /\ p.at = "sent" => usedBy[p.token] # t
  /\ p.got # None => usedBy[p.got] # t

\* What tab t is, while nothing can reach it that is not of its session.  It has not
\* exchanged the refresh token of its store, unless the answer is on its way.
PageKnown(t) ==
  LET s == tab[t].store IN
  /\ Fits(s)
  /\ tab[t].page = "app" => s.access # None
  /\ \A q \in Calls : Suits(t, q)
  /\ \A p \in posts : p.page.tab = t => Mine(t, p)
  /\ s.refresh # None /\ usedBy[s.refresh] = t => \E p \in posts : p.page.tab = t /\ p.at = "answered"

ClientInv ==
  /\ Typed
  /\ ~spilt => Fits(storage)
  /\ \A t \in Tabs \ late : PageKnown(t)

-----------------------------------------------------------------------------

\* What the assumption says of values.
LEMMA Values == MaxPairs \in Nat /\ MaxBreaks \in Nat /\ None \notin Users /\ None \notin Pairs /\ None \notin Tabs
BY WebClientAssumption

\* Pairs are numbered from 1.
LEMMA Numbers ==
  ASSUME PairsTyped
  PROVE  /\ DOMAIN pair = 1..Len(pair) /\ Len(pair) \in Nat /\ DOMAIN pair \subseteq Pairs /\ None \notin DOMAIN pair
         /\ \A n \in DOMAIN pair : pair[n] \in PairRow
BY Values DEF PairsTyped, Pairs

\* The page a tab is on now is one.
LEMMA PagesAre ==
  ASSUME TabsTyped, NEW t \in Tabs
  PROVE  PageOf(t) \in Page /\ PageOf(t).tab = t /\ PageOf(t).load = tab[t].load
BY DEF TabsTyped, Tab, PageOf, Page

\* Pairs are only added, and stay their user's.
Grows ==
  /\ PairsTyped' /\ DOMAIN pair \subseteq DOMAIN pair'
  /\ \A n \in DOMAIN pair : pair'[n].user = pair[n].user

\* No token a login holds expires.
LoginsLast ==
  \A t \in Tabs, q \in Calls : LET r == request[t][q] IN
    /\ r.kind = "password" /\ r.at = "ok" => pair'[r.answer].access
    /\ r.kind = "login" => pair'[r.held].access

\* A store that stays is still one.
LEMMA StoreStays ==
  ASSUME NEW s, StoreTyped(s), Grows
  PROVE  StoreTyped(s)' /\ (Fits(s) /\ PairsTyped => Fits(s)')
<1>1. StoreTyped(s)'
  BY DEF StoreTyped, Token, Grows
<1>2. ASSUME Fits(s), PairsTyped PROVE Fits(s)'
  <2>1. (s.access \in DOMAIN pair \/ s.access = None) /\ (s.refresh \in DOMAIN pair \/ s.refresh = None)
    BY DEF StoreTyped, Token
  <2> QED BY <1>2, <2>1 DEF Fits, Grows
<1> QED BY <1>1, <1>2

\* A request that stays is still known.
LEMMA RequestStays ==
  ASSUME NEW t \in Tabs, NEW q \in Calls, RequestKnown(t, q), request'[t][q] = request[t][q], Grows, LoginsLast
  PROVE  RequestKnown(t, q)'
<1> DEFINE r == request[t][q]
<1>1. /\ r \in Request /\ r.token \in Token /\ r.held \in Token
      /\ r.at = "idle" => r = Idle
      /\ r.at = "ok" => r.kind # "plain"
      /\ r.kind = "password" /\ r.at = "ok" => r.answer \in DOMAIN pair /\ pair'[r.answer].access
      /\ r.kind = "login" => /\ r.at \in {"sent", "ok"} /\ r.token = r.held /\ r.held \in DOMAIN pair /\ pair'[r.held].access
                             /\ r.at = "ok" => r.answer = pair[r.held].user
      /\ r.kind = "route" => /\ r.token \in DOMAIN pair /\ r.held \in DOMAIN pair
                             /\ r.at = "ok" => r.answer = pair[r.token].user
  BY DEF RequestKnown, LoginsLast
<1>2. request'[t][q] = r
  OBVIOUS
<1> HIDE DEF r
<1>3. r.token \in Token' /\ r.held \in Token'
  BY <1>1 DEF Token, Grows
<1>4. /\ r.kind = "password" /\ r.at = "ok" => r.answer \in DOMAIN pair' /\ pair'[r.answer].access
      /\ r.kind = "login" => r.held \in DOMAIN pair' /\ (r.at = "ok" => r.answer = pair'[r.held].user)
      /\ r.kind = "route" => /\ r.token \in DOMAIN pair' /\ r.held \in DOMAIN pair'
                             /\ r.at = "ok" => r.answer = pair'[r.token].user
  BY <1>1 DEF Grows
<1> QED BY <1>1, <1>2, <1>3, <1>4 DEF RequestKnown

\* A refresh that stays is still known, while its leader waits.
LEMMA PostStays ==
  ASSUME TabsTyped, NEW p, PostKnown(p), Grows,
         \A t \in Tabs : PageOf(t)' = PageOf(t) /\ tab'[t].refreshing = tab[t].refreshing,
         \A t \in Tabs, q \in Calls : request[t][q].at = "leading" => request'[t][q] = request[t][q]
  PROVE  PostKnown(p)'
<1>1. p.token \in DOMAIN pair' /\ p.got \in Token'
  BY DEF PostKnown, Token, Grows
<1>2. p.got # None => pair'[p.got].user = pair'[p.token].user
  BY DEF PostKnown, Token, Grows
<1>3. ASSUME NEW t \in Tabs, Current(p, t)' PROVE tab'[t].refreshing /\ request'[t][p.leader].at = "leading"
  <2>1. Current(p, t)
    BY <1>3 DEF Current
  <2> QED BY <2>1 DEF PostKnown, Post
<1> QED BY <1>1, <1>2, <1>3 DEF PostKnown

\* A request that stays still suits its tab.
LEMMA SuitStays ==
  ASSUME Typed, NEW t \in Tabs, NEW q \in Calls, Suits(t, q), request'[t][q] = request[t][q], Grows,
         tab'[t].store.refresh = tab[t].store.refresh
  PROVE  Suits(t, q)'
<1> DEFINE r == request[t][q]
           s == tab[t].store
<1>1. RequestKnown(t, q) /\ s.refresh \in Token
  BY DEF Typed, RequestsKnown, TabsTyped, StoreTyped
<1>2. r.kind = "route" => r.token \in DOMAIN pair /\ r.held \in DOMAIN pair
  BY <1>1 DEF RequestKnown
<1>3. r.kind = "route" =>
        /\ s.refresh # None
        /\ pair'[r.token].user = pair'[s.refresh].user
        /\ pair'[r.held].user = pair'[s.refresh].user
  BY <1>1, <1>2 DEF Suits, Grows, Token
<1>4. request'[t][q] = r /\ tab'[t].store.refresh = s.refresh
  OBVIOUS
<1> HIDE DEF r, s
<1> QED BY <1>3, <1>4 DEF Suits

\* A tab whose store and refreshes stay is still known, if its requests suit it.
LEMMA StoreKept ==
  ASSUME Typed, NEW t \in Tabs, PageKnown(t), Grows, usedBy' = usedBy, tab'[t].store = tab[t].store,
         tab'[t].page = "app" => tab[t].store.access # None, PageOf(t)' = PageOf(t),
         \A q \in Calls : Suits(t, q)',
         \A p : p.page.tab = t => (p \in posts' <=> p \in posts)
  PROVE  PageKnown(t)'
<1> DEFINE s == tab[t].store
<1>1. StoreTyped(s) /\ Fits(s) /\ PairsTyped
  BY DEF Typed, TabsTyped, PageKnown
<1>2. Fits(s)'
  BY <1>1, StoreStays
<1>3. tab'[t].store = s
  OBVIOUS
<1>4. Fits(tab[t].store)'
  BY <1>2, <1>3 DEF Fits
<1>5. ASSUME NEW p \in posts', p.page.tab = t PROVE Mine(t, p)'
  BY <1>5 DEF PageKnown, Mine, Current
<1>6. s.refresh # None /\ usedBy'[s.refresh] = t => \E p \in posts' : p.page.tab = t /\ p.at = "answered"
  BY DEF PageKnown
<1> HIDE DEF s
<1> QED BY <1>3, <1>4, <1>5, <1>6 DEF PageKnown, s

\* A tab that nothing happens to stays known.
LEMMA PageStays ==
  ASSUME Typed, NEW t \in Tabs, PageKnown(t), Grows, usedBy' = usedBy, tab'[t] = tab[t], PageOf(t)' = PageOf(t),
         request'[t] = request[t],
         \A p : p.page.tab = t => (p \in posts' <=> p \in posts)
  PROVE  PageKnown(t)'
<1>1. ASSUME NEW q \in Calls PROVE Suits(t, q)'
  BY SuitStays DEF PageKnown
<1>2. tab'[t].page = "app" => tab[t].store.access # None
  BY DEF PageKnown
<1> QED BY <1>1, <1>2, StoreKept

\* One request, no leader, moves on as one this page may send.
LEMMA OneRequest ==
  ASSUME ClientInv, NEW t \in Tabs, NEW q \in Calls, NEW r \in Request, request[t][q].at # "leading",
         Becomes(t, q, r), Grows, LoginsLast, UNCHANGED <<usedBy, storage, tab, posts, late, spilt>>, breaks' \in 0..MaxBreaks,
         RequestKnown(t, q)', t \notin late => Suits(t, q)'
  PROVE  ClientInv'
<1> USE DEF ClientInv
<1>1. request' = [request EXCEPT ![t][q] = r] /\ request \in [Tabs -> [Calls -> Request]]
  BY DEF Becomes, Typed, RequestsKnown
<1>2. /\ request' \in [Tabs -> [Calls -> Request]] /\ request'[t][q] = r
      /\ \A u \in Tabs, o \in Calls : u # t \/ o # q => request'[u][o] = request[u][o]
      /\ \A u \in Tabs \ {t} : request'[u] = request[u]
  BY <1>1
<1>3. \A u \in Tabs : PageOf(u)' = PageOf(u)
  BY DEF PageOf
<1>4. PairsTyped' /\ StoreTyped(storage)' /\ TabsTyped'
  <2>1. \A s : StoreTyped(s) => StoreTyped(s)'
    BY StoreStays
  <2> QED BY <2>1 DEF Typed, TabsTyped, Grows, StoreTyped
<1>5. RequestsKnown'
  <2>1. ASSUME NEW u \in Tabs, NEW o \in Calls PROVE RequestKnown(u, o)'
    <3>1. CASE u = t /\ o = q
      BY <3>1
    <3>2. CASE u # t \/ o # q
      BY <3>2, <1>2, RequestStays DEF Typed, RequestsKnown
    <3> QED BY <3>1, <3>2
  <2> QED BY <2>1, <1>2 DEF RequestsKnown
<1>6. PostsKnown'
  <2>1. \A u \in Tabs, o \in Calls : request[u][o].at = "leading" => request'[u][o] = request[u][o]
    BY <1>2
  <2>2. \A p \in posts : PostKnown(p)'
    BY <1>3, <2>1, PostStays DEF Typed, PostsKnown
  <2> QED BY <2>2 DEF Typed, PostsKnown
<1>7. Typed'
  BY <1>4, <1>5, <1>6 DEF Typed
<1>8. ~spilt' => Fits(storage)'
  <2>1. \A x : StoreTyped(x) /\ Fits(x) => Fits(x)'
    BY StoreStays DEF Typed
  <2> QED BY <2>1 DEF Typed, Fits
<1>9. ASSUME NEW u \in Tabs \ late' PROVE PageKnown(u)'
  <2>1. PageKnown(u) /\ tab'[u] = tab[u] /\ PageOf(u)' = PageOf(u) /\ u \notin late
    BY <1>3, <1>9
  <2>2. CASE u = t
    <3>1. ASSUME NEW o \in Calls PROVE Suits(t, o)'
      <4>1. CASE o = q
        BY <2>1, <2>2, <4>1
      <4>2. CASE o # q
        <5>1. Suits(t, o) /\ request'[t][o] = request[t][o] /\ tab'[t].store.refresh = tab[t].store.refresh
          BY <1>2, <2>1, <2>2, <4>2 DEF PageKnown
        <5> QED BY <5>1, SuitStays
      <4> QED BY <4>1, <4>2
    <3>2. tab'[t].page = "app" => tab[t].store.access # None
      BY <2>1, <2>2 DEF PageKnown
    <3>3. tab'[t].store = tab[t].store
      BY <2>1, <2>2
    <3>4. PageKnown(t) /\ PageOf(t)' = PageOf(t)
      BY <2>1, <2>2
    <3>5. \A p : p.page.tab = t => (p \in posts' <=> p \in posts)
      OBVIOUS
    <3>6. PageKnown(t)'
      BY <3>1, <3>2, <3>3, <3>4, <3>5, StoreKept
    <3> QED BY <2>2, <3>6
  <2>3. CASE u # t
    <3>1. request'[u] = request[u]
      BY <1>2, <2>3
    <3> QED BY <2>1, <3>1, PageStays
  <2> QED BY <2>2, <2>3
<1> QED BY <1>7, <1>8, <1>9

\* Where the tokens stay and no login loses one, the facts about tokens stay.
LEMMA TokensStay ==
  ASSUME Typed, pair' = pair, usedBy' = usedBy
  PROVE  Grows /\ LoginsLast
<1>1. Grows
  BY DEF Typed, PairsTyped, Grows
<1>2. LoginsLast
  BY DEF Typed, RequestsKnown, RequestKnown, LoginsLast
<1> QED BY <1>1, <1>2

\* A request that ends.
LEMMA RequestEnds ==
  ASSUME ClientInv, NEW t \in Tabs, NEW q \in Calls, request[t][q].at # "leading", Becomes(t, q, Idle),
         UNCHANGED <<pair, usedBy, storage, tab, posts, late, spilt>>, breaks' \in 0..MaxBreaks
  PROVE  ClientInv'
<1>1. Idle \in Request
  BY DEF Idle, Request
<1>2. Typed /\ Grows /\ LoginsLast
  BY TokensStay DEF ClientInv
<1>3. request'[t][q] = Idle
  BY <1>2 DEF Becomes, Typed, RequestsKnown
<1>4. RequestKnown(t, q)'
  BY <1>1, <1>3 DEF Idle, RequestKnown, Token
<1>5. Suits(t, q)'
  BY <1>3 DEF Idle, Suits
<1> QED BY <1>1, <1>2, <1>4, <1>5, OneRequest

\* The four requests a page sends.
LEMMA Sent ==
  ASSUME NEW n \in Pairs \cup {None}
  PROVE  /\ LET r == [Idle EXCEPT !.at = "sent", !.token = n] IN
              r \in Request /\ r.at = "sent" /\ r.kind = "plain" /\ ~r.retry /\ r.token = n /\ r.held = None
         /\ LET r == [Idle EXCEPT !.at = "sent", !.kind = "password"] IN
              r \in Request /\ r.at = "sent" /\ r.kind = "password" /\ ~r.retry /\ r.token = None /\ r.held = None
         /\ LET r == [Idle EXCEPT !.at = "sent", !.kind = "login", !.held = n, !.token = n] IN
              r \in Request /\ r.at = "sent" /\ r.kind = "login" /\ ~r.retry /\ r.token = n /\ r.held = n
         /\ LET r == Profile(n) IN
              r \in Request /\ r.at = "sent" /\ r.kind = "route" /\ ~r.retry /\ r.token = n /\ r.held = n
<1>1. PICK d : d = Idle
  OBVIOUS
<1>2. d \in Request /\ d.kind = "plain" /\ d.retry = FALSE /\ d.token = None /\ d.held = None
  BY <1>1 DEF Idle, Request
<1>3. LET r == [d EXCEPT !.at = "sent", !.token = n] IN
        r \in Request /\ r.at = "sent" /\ r.kind = "plain" /\ ~r.retry /\ r.token = n /\ r.held = None
  BY <1>2 DEF Request
<1>4. LET r == [d EXCEPT !.at = "sent", !.kind = "password"] IN
        r \in Request /\ r.at = "sent" /\ r.kind = "password" /\ ~r.retry /\ r.token = None /\ r.held = None
  BY <1>2 DEF Request
<1>5. LET r == [d EXCEPT !.at = "sent", !.kind = "login", !.held = n, !.token = n] IN
        r \in Request /\ r.at = "sent" /\ r.kind = "login" /\ ~r.retry /\ r.token = n /\ r.held = n
  BY <1>2 DEF Request
<1>6. LET r == [d EXCEPT !.at = "sent", !.kind = "route", !.token = n, !.held = n] IN
        r \in Request /\ r.at = "sent" /\ r.kind = "route" /\ ~r.retry /\ r.token = n /\ r.held = n
  BY <1>2 DEF Request
<1> QED BY <1>1, <1>3, <1>4, <1>5, <1>6 DEF Profile

\* A request of the app is sent.
LEMMA SendKeeps ==
  ASSUME ClientInv, NEW t \in Tabs, NEW q \in Calls, Send(t, q)
  PROVE  ClientInv'
<1> DEFINE r == [Idle EXCEPT !.at = "sent", !.token = tab[t].store.access]
<1>1. /\ Typed /\ Grows /\ LoginsLast
  BY TokensStay DEF ClientInv, Send
<1>2. StoreTyped(tab[t].store) /\ breaks \in 0..MaxBreaks
  BY <1>1 DEF Typed, TabsTyped
<1>3. tab[t].store.access \in Pairs \cup {None} /\ tab[t].store.access \in Token
  BY <1>2 DEF StoreTyped, Store
<1>4. r \in Request /\ r.at = "sent" /\ r.kind = "plain" /\ r.token = tab[t].store.access /\ r.held = None
  BY ZenonT(60), <1>3, Sent
<1>5. request'[t][q] = r
  BY <1>1 DEF Send, Becomes, Typed, RequestsKnown
<1>6. RequestKnown(t, q)'
  <2>1. Token' = Token /\ r.token \in Token /\ r.held \in Token
    BY <1>3, <1>4 DEF Token, Send
  <2> HIDE DEF r
  <2> QED BY <1>4, <1>5, <2>1 DEF RequestKnown
<1>7. Suits(t, q)'
  <2> HIDE DEF r
  <2> QED BY <1>4, <1>5 DEF Suits
<1>8. request[t][q].at # "leading" /\ Becomes(t, q, r) /\ UNCHANGED <<usedBy, storage, tab, posts, late, spilt>>
      /\ breaks' \in 0..MaxBreaks
  BY <1>2 DEF Send
<1> QED BY <1>1, <1>4, <1>6, <1>7, <1>8, OneRequest

\* Somebody signs in.
LEMMA SendPasswordKeeps ==
  ASSUME ClientInv, NEW t \in Tabs, NEW q \in Calls, SendPassword(t, q)
  PROVE  ClientInv'
<1> DEFINE r == [Idle EXCEPT !.at = "sent", !.kind = "password"]
<1>1. /\ Typed /\ Grows /\ LoginsLast /\ breaks \in 0..MaxBreaks
  BY TokensStay DEF ClientInv, SendPassword, Typed
<1>4. r \in Request /\ r.at = "sent" /\ r.kind = "password" /\ r.token = None /\ r.held = None
  BY Sent
<1>5. /\ request'[t][q] = r /\ \A o \in Calls \ {q} : request'[t][o] = request[t][o]
  BY <1>1 DEF SendPassword, Becomes, Typed, RequestsKnown
<1>6. RequestKnown(t, q)'
  <2>1. r.token \in Token' /\ r.held \in Token'
    BY <1>4 DEF Token
  <2> HIDE DEF r
  <2> QED BY <1>4, <1>5, <2>1 DEF RequestKnown
<1>7. Suits(t, q)'
  <2> HIDE DEF r
  <2> QED BY <1>4, <1>5 DEF Suits
<1>8. request[t][q].at # "leading" /\ Becomes(t, q, r) /\ UNCHANGED <<usedBy, storage, tab, posts, late, spilt>>
      /\ breaks' \in 0..MaxBreaks
  BY <1>1 DEF SendPassword
<1> QED BY <1>1, <1>4, <1>6, <1>7, <1>8, OneRequest

\* A pair that is generated is nobody's yet.
LEMMA PairAdded ==
  ASSUME Typed, NEW u \in Users, Len(pair) < MaxPairs, pair' = Append(pair, Fresh(u)), usedBy' = usedBy
  PROVE  /\ Grows /\ LoginsLast
         /\ Len(pair) + 1 \in Pairs /\ Len(pair) + 1 \in DOMAIN pair' /\ pair'[Len(pair) + 1].access
         /\ usedBy[Len(pair) + 1] = None
<1>1. PairsTyped /\ Fresh(u) \in PairRow
  BY DEF Typed, Fresh, PairRow
<1>2. /\ DOMAIN pair = 1..Len(pair) /\ Len(pair) \in Nat /\ \A n \in DOMAIN pair : pair[n] \in PairRow
      /\ MaxPairs \in Nat
  BY <1>1, Numbers, Values
<1>3. /\ pair' \in Seq(PairRow) /\ Len(pair') = Len(pair) + 1 /\ DOMAIN pair' = 1..(Len(pair) + 1)
      /\ \A n \in DOMAIN pair : pair'[n] = pair[n]
      /\ pair'[Len(pair) + 1] = Fresh(u)
  BY <1>1, <1>2 DEF PairsTyped
<1>4. Len(pair) + 1 \in Pairs /\ Len(pair) + 1 \notin DOMAIN pair /\ DOMAIN pair \subseteq DOMAIN pair'
  BY <1>2, <1>3 DEF Pairs
<1>5. PairsTyped'
  BY <1>1, <1>2, <1>3, <1>4 DEF PairsTyped
<1>6. Grows
  BY <1>3, <1>4, <1>5 DEF Grows
<1>7. LoginsLast
  BY <1>3 DEF Typed, RequestsKnown, RequestKnown, LoginsLast
<1>8. pair'[Len(pair) + 1].access
  BY <1>3 DEF Fresh
<1>9. usedBy[Len(pair) + 1] = None /\ Len(pair) + 1 \in DOMAIN pair'
  BY <1>1, <1>2, <1>3, <1>4 DEF PairsTyped
<1> QED BY <1>4, <1>6, <1>7, <1>8, <1>9

\* A request whose answer comes.
LEMMA Answered ==
  ASSUME NEW r \in Request, NEW a \in Pairs \cup Users \cup {None}
  PROVE  LET d == [r EXCEPT !.at = "ok", !.answer = a] IN
           /\ d \in Request /\ d.at = "ok" /\ d.answer = a
           /\ d.kind = r.kind /\ d.token = r.token /\ d.held = r.held
BY DEF Request

\* A request that is denied, waits or is sent again.
LEMMA Moved ==
  ASSUME NEW r \in Request, NEW x \in {"denied", "queued", "sent"}
  PROVE  LET d == [r EXCEPT !.at = x] IN
           /\ d \in Request /\ d.at = x
           /\ d.kind = r.kind /\ d.token = r.token /\ d.held = r.held
BY DEF Request

\* A 401, or waiting for a refresh, changes only where a request is.
LEMMA RequestWaits ==
  ASSUME ClientInv, NEW t \in Tabs, NEW q \in Calls, NEW x \in {"denied", "queued"},
         request[t][q].at \in {"sent", "denied"}, request[t][q].kind # "login",
         Becomes(t, q, [request[t][q] EXCEPT !.at = x]),
         UNCHANGED <<pair, usedBy, storage, tab, posts, late, spilt>>, breaks' = breaks
  PROVE  ClientInv'
<1> DEFINE r == request[t][q]
           d == [r EXCEPT !.at = x]
<1>1. Typed /\ Grows /\ LoginsLast /\ breaks' \in 0..MaxBreaks
  BY TokensStay DEF ClientInv, Typed
<1>2. RequestKnown(t, q) /\ r \in Request
  BY <1>1 DEF Typed, RequestsKnown, RequestKnown
<1>3. d \in Request /\ d.at = x /\ d.kind = r.kind /\ d.token = r.token /\ d.held = r.held
  <2>1. x \in {"denied", "queued", "sent"}
    OBVIOUS
  <2> HIDE DEF r
  <2> QED BY <1>2, <2>1, Moved
<1>4. request'[t][q] = d /\ \A o \in Calls \ {q} : request'[t][o] = request[t][o]
  BY <1>1 DEF Becomes, Typed, RequestsKnown
<1>5. RequestKnown(t, q)'
  <2>1. Token' = Token
    BY DEF Token
  <2>2. /\ d \in Request /\ d.token \in Token' /\ d.held \in Token' /\ d.at \notin {"idle", "ok"} /\ d.kind # "login"
        /\ d.kind = "route" => d.token \in DOMAIN pair' /\ d.held \in DOMAIN pair'
    BY <1>2, <1>3, <2>1 DEF RequestKnown
  <2> HIDE DEF d
  <2> QED BY <1>4, <2>2 DEF RequestKnown
<1>6. ASSUME t \notin late PROVE Suits(t, q)'
  <2>1. Suits(t, q)
    BY <1>6 DEF ClientInv, PageKnown
  <2> HIDE DEF d
  <2> QED BY <1>3, <1>4, <2>1 DEF Suits
<1>7. request[t][q].at # "leading"
  OBVIOUS
<1> QED BY <1>1, <1>3, <1>5, <1>6, <1>7, OneRequest

\* The server answers a request.
LEMMA ServeKeeps ==
  ASSUME ClientInv, NEW t \in Tabs, NEW q \in Calls, Serve(t, q)
  PROVE  ClientInv'
<1> DEFINE r == request[t][q]
<1>1. Typed /\ PairsTyped /\ RequestKnown(t, q) /\ r \in Request /\ breaks' \in 0..MaxBreaks
  BY DEF ClientInv, Typed, RequestsKnown, RequestKnown, Serve
<1>2. UNCHANGED <<usedBy, storage, tab, posts, late, spilt, breaks>> /\ r.at = "sent"
  BY DEF Serve
<1>3. ASSUME NEW d, Becomes(t, q, d) PROVE request'[t][q] = d /\ \A o \in Calls \ {q} : request'[t][o] = request[t][o]
  BY <1>1, <1>3 DEF Becomes, Typed, RequestsKnown
<1>5. ASSUME t \notin late PROVE Suits(t, q) /\ PageKnown(t)
  BY <1>5 DEF ClientInv, PageKnown
<1>6. CASE /\ r.kind = "password" /\ Len(pair) < MaxPairs
           /\ \E u \in Users : pair' = Append(pair, Fresh(u))
           /\ Becomes(t, q, [r EXCEPT !.at = "ok", !.answer = Len(pair) + 1])
  <2> DEFINE d == [r EXCEPT !.at = "ok", !.answer = Len(pair) + 1]
  <2>1. PICK u \in Users : pair' = Append(pair, Fresh(u))
    BY <1>6
  <2>2. /\ Grows /\ LoginsLast
        /\ Len(pair) + 1 \in Pairs /\ Len(pair) + 1 \in DOMAIN pair' /\ pair'[Len(pair) + 1].access
        /\ usedBy[Len(pair) + 1] = None
    BY <1>1, <1>2, <1>6, <2>1, PairAdded
  <2>3. /\ d \in Request /\ d.at = "ok" /\ d.answer = Len(pair) + 1
        /\ d.kind = "password" /\ d.token = r.token /\ d.held = r.held
    <3>1. Len(pair) + 1 \in Pairs \cup Users \cup {None} /\ r \in Request /\ r.kind = "password"
      BY <1>1, <1>6, <2>2
    <3> HIDE DEF r
    <3> QED BY <3>1, Answered
  <2>4. request'[t][q] = d /\ \A o \in Calls \ {q} : request'[t][o] = request[t][o]
    BY <1>3, <1>6
  <2>5. d.token \in Token' /\ d.held \in Token'
    BY <1>1, <2>2, <2>3 DEF RequestKnown, Token, Grows
  <2> HIDE DEF d
  <2>6. RequestKnown(t, q)'
    BY <2>2, <2>3, <2>4, <2>5 DEF RequestKnown
  <2>7. Suits(t, q)'
    BY <2>3, <2>4 DEF Suits
  <2>8. Becomes(t, q, d)
    BY <1>6 DEF d
  <2> QED BY <1>1, <1>2, <2>2, <2>3, <2>6, <2>7, <2>8, OneRequest
<1>7. CASE /\ Valid(r)
           /\ Becomes(t, q, IF r.kind = "plain" THEN Idle ELSE [r EXCEPT !.at = "ok", !.answer = pair[r.token].user])
           /\ UNCHANGED pair
  <2>1. CASE r.kind = "plain"
    BY <1>1, <1>2, <1>7, <2>1, RequestEnds
  <2>2. CASE r.kind # "plain"
    <3> DEFINE d == [r EXCEPT !.at = "ok", !.answer = pair[r.token].user]
    <3>1. Grows /\ LoginsLast /\ Token' = Token
      BY <1>1, <1>2, <1>7, TokensStay DEF Token
    <3>2. r.kind \in {"login", "route"} /\ r.token \in DOMAIN pair
      BY <1>1, <1>7, <2>2 DEF Valid, Request, RequestKnown, Token
    <3>3. pair[r.token].user \in Users
      BY <1>1, <3>2, Numbers DEF PairRow
    <3>4. /\ d \in Request /\ d.at = "ok" /\ d.answer = pair[r.token].user
          /\ d.kind = r.kind /\ d.token = r.token /\ d.held = r.held
      <4>1. pair[r.token].user \in Pairs \cup Users \cup {None} /\ r \in Request
        BY <1>1, <3>3
      <4> HIDE DEF r
      <4> QED BY <4>1, Answered
    <3>5. Becomes(t, q, d) /\ pair' = pair
      BY <1>7, <2>2
    <3>6. request'[t][q] = d /\ \A o \in Calls \ {q} : request'[t][o] = request[t][o]
      BY <1>3, <3>5
    <3> HIDE DEF d
    <3>7. RequestKnown(t, q)'
      <4>1. /\ d.token \in Token' /\ d.held \in Token'
            /\ d.kind = "login" => d.token = d.held /\ d.held \in DOMAIN pair /\ pair[d.held].access
            /\ d.kind = "route" => d.token \in DOMAIN pair /\ d.held \in DOMAIN pair
        BY <1>1, <3>1, <3>4 DEF RequestKnown
      <4> QED BY <3>2, <3>4, <3>5, <3>6, <4>1 DEF RequestKnown
    <3>8. ASSUME t \notin late PROVE Suits(t, q)'
      BY <1>2, <1>5, <3>4, <3>5, <3>6, <3>8 DEF Suits
    <3> QED BY <1>1, <1>2, <3>1, <3>4, <3>5, <3>7, <3>8, OneRequest
  <2> QED BY <2>1, <2>2
<1>8. CASE ~Valid(r) /\ Becomes(t, q, [r EXCEPT !.at = "denied"]) /\ UNCHANGED pair
  <2>1. r.kind # "login"
    <3>1. r.kind = "login" => r.token \in DOMAIN pair /\ pair[r.token].access
      BY <1>1 DEF RequestKnown
    <3>2. None \notin DOMAIN pair
      BY <1>1, Numbers
    <3> QED BY <1>8, <3>1, <3>2 DEF Valid
  <2> QED BY <1>2, <1>8, <2>1, RequestWaits
<1> QED BY <1>6, <1>7, <1>8 DEF Serve

\* A refresh stays known while its page and its leader do.
LEMMA PostsStay ==
  ASSUME Typed, UNCHANGED <<pair, usedBy, posts>>,
         \A u \in Tabs : PageOf(u)' = PageOf(u) /\ tab'[u].refreshing = tab[u].refreshing,
         \A u \in Tabs, o \in Calls : request[u][o].at = "leading" => request'[u][o] = request[u][o]
  PROVE  PostsKnown'
<1>1. Grows
  BY TokensStay
<1>2. \A p \in posts : PostKnown(p)'
  BY <1>1, PostStays DEF Typed, PostsKnown
<1> QED BY <1>2 DEF Typed, PostsKnown

\* A step of one tab, after which it is known or late, leaves the others so.
LEMMA OneTab ==
  ASSUME ClientInv, NEW t \in Tabs, UNCHANGED <<pair, usedBy>>, breaks' \in 0..MaxBreaks, spilt' \in BOOLEAN,
         tab' \in [Tabs -> Tab], request' \in [Tabs -> [Calls -> Request]],
         \A u \in Tabs \ {t} : tab'[u] = tab[u] /\ request'[u] = request[u],
         StoreTyped(storage)', StoreTyped(tab[t].store)', \A q \in Calls : RequestKnown(t, q)', PostsKnown',
         \A p : p.page.tab # t => (p \in posts' <=> p \in posts),
         late' \subseteq Tabs, \A u \in Tabs \ {t} : u \in late => u \in late',
         ~spilt' => Fits(storage)', t \notin late' => PageKnown(t)'
  PROVE  ClientInv'
<1>1. Typed /\ Grows /\ LoginsLast
  BY TokensStay DEF ClientInv
<1>2. TabsTyped'
  <2>1. ASSUME NEW u \in Tabs PROVE StoreTyped(tab[u].store)'
    <3>1. CASE u = t
      BY <3>1
    <3>2. CASE u # t
      <4>1. StoreTyped(tab[u].store)' <=> StoreTyped(tab[u].store)
        BY <3>2 DEF StoreTyped, Token
      <4> QED BY <1>1, <4>1 DEF Typed, TabsTyped
    <3> QED BY <3>1, <3>2
  <2> QED BY <2>1 DEF TabsTyped
<1>3. RequestsKnown'
  <2>1. ASSUME NEW u \in Tabs, NEW o \in Calls PROVE RequestKnown(u, o)'
    <3>1. CASE u = t
      BY <3>1
    <3>2. CASE u # t
      BY <3>2, <1>1, RequestStays DEF Typed, RequestsKnown
    <3> QED BY <3>1, <3>2
  <2> QED BY <2>1 DEF RequestsKnown
<1>4. PairsTyped'
  BY <1>1 DEF Grows
<1>5. Typed'
  BY <1>2, <1>3, <1>4 DEF Typed
<1>6. ASSUME NEW u \in Tabs \ late' PROVE PageKnown(u)'
  <2>1. CASE u = t
    BY <1>6, <2>1
  <2>2. CASE u # t
    <3>1. PageOf(u)' = PageOf(u) /\ tab'[u] = tab[u] /\ request'[u] = request[u]
      BY <2>2 DEF PageOf
    <3>2. PageKnown(u)
      BY <1>6, <2>2 DEF ClientInv
    <3>3. \A p : p.page.tab = u => (p \in posts' <=> p \in posts)
      BY <2>2
    <3> QED BY <1>1, <3>1, <3>2, <3>3, PageStays
  <2> QED BY <2>1, <2>2
<1> QED BY <1>5, <1>6 DEF ClientInv

\* What set() of the store changes.
LEMMA Written ==
  ASSUME Typed, NEW t \in Tabs, NEW s, StoreTyped(s), NEW at \in {"login", "app"}, Writes(t, s, at), pair' = pair
  PROVE  /\ tab' \in [Tabs -> Tab] /\ tab'[t].store = s /\ tab'[t].page = at
         /\ \A u \in Tabs \ {t} : tab'[u] = tab[u]
         /\ \A u \in Tabs : PageOf(u)' = PageOf(u) /\ tab'[u].refreshing = tab[u].refreshing
         /\ storage' = s /\ StoreTyped(storage)' /\ StoreTyped(tab[t].store)' /\ spilt' = (t \in late')
<1>1. tab \in [Tabs -> Tab] /\ s \in Store /\ storage' = s /\ tab' = [tab EXCEPT ![t].store = s, ![t].page = at]
  BY DEF Typed, TabsTyped, StoreTyped, Writes, Persisted
<1>2. tab' \in [Tabs -> Tab]
  BY <1>1 DEF Tab
<1>3. /\ tab'[t].store = s /\ tab'[t].page = at /\ tab'[t].refreshing = tab[t].refreshing /\ tab'[t].load = tab[t].load
      /\ \A u \in Tabs \ {t} : tab'[u] = tab[u]
  BY <1>1 DEF Tab
<1>4. \A u \in Tabs : PageOf(u)' = PageOf(u) /\ tab'[u].refreshing = tab[u].refreshing
  BY <1>3 DEF PageOf
<1>5. StoreTyped(storage)' /\ StoreTyped(tab[t].store)'
  BY <1>1, <1>3 DEF StoreTyped, Token
<1>6. spilt' = (t \in late')
  BY DEF Writes
<1> QED BY <1>1, <1>2, <1>3, <1>4, <1>5, <1>6

\* A request that is over suits any tab.
LEMMA IdleSuits ==
  ASSUME NEW t \in Tabs, NEW q \in Calls, request'[t][q] = Idle
  PROVE  RequestKnown(t, q)' /\ Suits(t, q)'
<1>1. Idle \in Request
  BY DEF Idle, Request
<1> QED BY <1>1 DEF Idle, RequestKnown, Suits, Token

\* A tab whose store fits, for which no refresh is under way, is known.
LEMMA TabKnown ==
  ASSUME NEW t \in Tabs, Fits(tab[t].store)', tab'[t].page = "app" => tab'[t].store.access # None,
         \A q \in Calls : Suits(t, q)', \A p \in posts' : p.page.tab # t,
         tab'[t].store.refresh # None => usedBy'[tab'[t].store.refresh] # t
  PROVE  PageKnown(t)'
BY DEF PageKnown

\* What is not under way is over.
LEMMA NotUnderWay ==
  ASSUME Typed, NEW t \in Tabs, NEW left \in SUBSET Calls, ~UnderWay(t, left)
  PROVE  (\A p \in posts : p.page.tab # t) /\ \A o \in left : request[t][o] = Idle
BY DEF UnderWay, Typed, RequestsKnown, RequestKnown

\* An answer is received, and a profile or the tokens of a login are stored.
LEMMA ReceiveOkKeeps ==
  ASSUME ClientInv, NEW t \in Tabs, NEW q \in Calls, ReceiveOk(t, q)
  PROVE  ClientInv'
<1> DEFINE r == request[t][q]
           s == tab[t].store
<1>1. /\ Typed /\ PairsTyped /\ RequestKnown(t, q) /\ r \in Request /\ r.at = "ok" /\ r.kind \in {"password", "login", "route"}
      /\ StoreTyped(s) /\ s \in Store /\ UNCHANGED <<pair, usedBy, posts, breaks>> /\ breaks' \in 0..MaxBreaks
      /\ late \subseteq Tabs /\ tab[t].page \in {"login", "app"} /\ request \in [Tabs -> [Calls -> Request]]
  BY DEF ClientInv, Typed, TabsTyped, Tab, RequestsKnown, RequestKnown, Request, ReceiveOk, StoreTyped
<1>2. Grows /\ LoginsLast /\ Token' = Token
  BY <1>1, TokensStay DEF Token
<1>3. DOMAIN pair \subseteq Pairs /\ None \notin DOMAIN pair /\ \A n \in DOMAIN pair : pair[n] \in PairRow
  BY <1>1, Numbers
<1>4. ASSUME NEW n, NEW at \in {"login", "app"}, NEW d \in Request, StoreTyped(n), Writes(t, n, at), Becomes(t, q, d),
             RequestKnown(t, q)', late' \subseteq Tabs, \A u \in Tabs \ {t} : u \in late => u \in late',
             t \notin late' => PageKnown(t)' /\ Fits(n)'
      PROVE  ClientInv'
  <2>1. /\ tab' \in [Tabs -> Tab] /\ tab'[t].store = n /\ tab'[t].page = at
        /\ \A u \in Tabs \ {t} : tab'[u] = tab[u]
        /\ \A u \in Tabs : PageOf(u)' = PageOf(u) /\ tab'[u].refreshing = tab[u].refreshing
        /\ storage' = n /\ StoreTyped(storage)' /\ StoreTyped(tab[t].store)' /\ spilt' = (t \in late')
    BY <1>1, <1>4, Written
  <2>2. /\ request' \in [Tabs -> [Calls -> Request]] /\ \A u \in Tabs \ {t} : request'[u] = request[u]
        /\ \A o \in Calls \ {q} : request'[t][o] = request[t][o]
    BY <1>1, <1>4 DEF Becomes
  <2>3. ASSUME NEW o \in Calls PROVE RequestKnown(t, o)'
    <3>1. CASE o = q
      BY <1>4, <3>1
    <3>2. CASE o # q
      BY <1>1, <1>2, <2>2, <3>2, RequestStays DEF Typed, RequestsKnown
    <3> QED BY <3>1, <3>2
  <2>4. PostsKnown'
    <3>1. \A u \in Tabs, o \in Calls : request[u][o].at = "leading" => request'[u][o] = request[u][o]
      BY <1>1, <2>2
    <3> QED BY <1>1, <2>1, <3>1, PostsStay
  <2>5. ~spilt' => Fits(storage)'
    <3>1. Fits(storage)' <=> Fits(n)'
      BY <2>1 DEF Fits
    <3> QED BY <1>4, <2>1, <3>1
  <2>6. spilt' \in BOOLEAN
    BY <2>1
  <2>7. \A u \in Tabs \ {t} : tab'[u] = tab[u] /\ request'[u] = request[u]
    BY <2>1, <2>2
  <2>8. \A p : p.page.tab # t => (p \in posts' <=> p \in posts)
    BY <1>1
  <2>9. t \notin late' => PageKnown(t)'
    BY <1>4
  <2>10. UNCHANGED <<pair, usedBy>>
    BY <1>1
  <2> QED BY <1>1, <1>4, <2>1, <2>2, <2>3, <2>4, <2>5, <2>6, <2>7, <2>8, <2>9, <2>10, OneTab
<1>5. ASSUME NEW d, Becomes(t, q, d) PROVE request'[t][q] = d /\ \A o \in Calls \ {q} : request'[t][o] = request[t][o]
  BY <1>1, <1>5 DEF Becomes
<1>6. ASSUME NEW n, NEW at \in {"login", "app"}, StoreTyped(n), Writes(t, n, at), n.access # None, n.refresh \in Pairs,
             NEW d, Becomes(t, q, d), Suits(t, q)', Fits(n)', ~UnderWay(t, Calls \ {q}), usedBy[n.refresh] # t
      PROVE  PageKnown(t)'
  <2>1. tab'[t].store = n /\ tab'[t].page = at
    BY <1>1, <1>6, Written
  <2>2. (\A p \in posts : p.page.tab # t) /\ \A o \in Calls \ {q} : request[t][o] = Idle
    BY <1>1, <1>6, NotUnderWay
  <2>3. ASSUME NEW o \in Calls PROVE Suits(t, o)'
    <3>1. CASE o = q
      BY <1>6, <3>1
    <3>2. CASE o # q
      BY <1>5, <1>6, <2>2, <3>2, IdleSuits
    <3> QED BY <3>1, <3>2
  <2>4. Fits(tab[t].store)'
    BY <1>6, <2>1 DEF Fits
  <2>5. (\A p \in posts' : p.page.tab # t) /\ usedBy'[tab'[t].store.refresh] # t
    BY <1>1, <1>6, <2>1, <2>2
  <2> QED BY <1>6, <2>1, <2>3, <2>4, <2>5, TabKnown
<1>7. CASE r.kind = "password"
  <2> PICK n : n = NewTokens(s, r.answer)
    OBVIOUS
  <2> DEFINE d == [Idle EXCEPT !.at = "sent", !.kind = "login", !.held = r.answer, !.token = r.answer]
  <2>1. Writes(t, n, tab[t].page) /\ Becomes(t, q, d) /\ SignedIn(t, q, s, r.answer)
    BY <1>7 DEF ReceiveOk
  <2>2. r.answer \in DOMAIN pair /\ pair[r.answer].access /\ r.answer \in Pairs
    BY <1>1, <1>3, <1>7 DEF RequestKnown
  <2>3. d \in Request /\ d.at = "sent" /\ d.kind = "login" /\ d.token = r.answer /\ d.held = r.answer
    BY <2>2, Sent
  <2>4. n \in Store /\ n.access = r.answer /\ n.refresh = r.answer /\ n.user = s.user
    BY <1>1, <2>2 DEF NewTokens, Store
  <2> HIDE DEF d
  <2>5. StoreTyped(n)
    BY <1>3, <2>2, <2>4 DEF StoreTyped, Token
  <2>6. RequestKnown(t, q)' /\ Suits(t, q)'
    <3>1. r.answer \in Token' /\ r.answer \in DOMAIN pair' /\ pair'[r.answer].access
      BY <1>1, <2>2 DEF Token
    <3>2. RequestKnown(t, q)'
      BY <1>5, <2>1, <2>3, <3>1 DEF RequestKnown
    <3>3. request'[t][q].kind = "login"
      BY <1>5, <2>1, <2>3
    <3> QED BY <3>2, <3>3 DEF Suits
  <2>7. late' \subseteq Tabs /\ \A u \in Tabs \ {t} : u \in late => u \in late'
    BY <1>1, <2>1 DEF SignedIn, LateIf
  <2>8. ASSUME t \notin late' PROVE PageKnown(t)' /\ Fits(n)'
    <3>1. /\ ~UnderWay(t, Calls \ {q}) /\ usedBy[r.answer] # t
          /\ ~(s.access # None /\ s.user \notin {None, pair[r.answer].user})
      BY <2>1, <2>8 DEF SignedIn, LateIf
    <3>2. s.user \in {None, pair[r.answer].user}
      BY <1>1, <3>1 DEF StoreTyped
    <3>3. Fits(n)'
      BY <1>1, <1>3, <2>2, <2>4, <3>2 DEF Fits
    <3>4. n.access # None /\ n.refresh \in Pairs /\ usedBy[n.refresh] # t
      BY <1>3, <2>2, <2>4, <3>1
    <3> QED BY <1>1, <1>6, <2>1, <2>5, <2>6, <3>1, <3>3, <3>4
  <2> QED BY <1>1, <1>4, <2>1, <2>3, <2>5, <2>6, <2>7, <2>8
<1>8. CASE r.kind = "login"
  <2> PICK n : n = [access |-> r.held, refresh |-> r.held, user |-> r.answer]
    OBVIOUS
  <2>1. Writes(t, n, "app") /\ Becomes(t, q, Idle) /\ SignedIn(t, q, SignedOut, r.held)
    BY <1>8 DEF ReceiveOk
  <2>2. r.held \in DOMAIN pair /\ r.held \in Pairs /\ r.answer = pair[r.held].user /\ r.answer \in Users
    BY <1>1, <1>3, <1>8 DEF RequestKnown, PairRow
  <2>3. n \in Store /\ n.access = r.held /\ n.refresh = r.held /\ n.user = r.answer
    BY <2>2 DEF Store
  <2>4. StoreTyped(n)
    BY <1>3, <2>2, <2>3 DEF StoreTyped, Token
  <2>5. RequestKnown(t, q)' /\ Suits(t, q)' /\ Idle \in Request
    BY <1>5, <2>1, IdleSuits DEF Idle, Request
  <2>6. late' \subseteq Tabs /\ \A u \in Tabs \ {t} : u \in late => u \in late'
    BY <1>1, <2>1 DEF SignedIn, LateIf
  <2>7. ASSUME t \notin late' PROVE PageKnown(t)' /\ Fits(n)'
    <3>1. ~UnderWay(t, Calls \ {q}) /\ usedBy[r.held] # t
      BY <2>1, <2>7 DEF SignedIn, LateIf
    <3>2. Fits(n)'
      BY <1>1, <1>3, <2>2, <2>3 DEF Fits
    <3>3. n.access # None /\ n.refresh \in Pairs /\ usedBy[n.refresh] # t
      BY <1>3, <2>2, <2>3, <3>1
    <3> QED BY <1>6, <2>1, <2>4, <2>5, <3>1, <3>2, <3>3
  <2> QED BY <1>4, <2>1, <2>4, <2>5, <2>6, <2>7
<1>9. CASE r.kind = "route"
  <2> PICK n : n = [access |-> r.held, refresh |-> s.refresh, user |-> r.answer]
    OBVIOUS
  <2>1. Writes(t, n, tab[t].page) /\ Becomes(t, q, Idle) /\ late' = late
    BY <1>9 DEF ReceiveOk
  <2>2. /\ r.held \in DOMAIN pair /\ r.held \in Pairs /\ r.token \in DOMAIN pair
        /\ r.answer = pair[r.token].user /\ r.answer \in Users
    BY <1>1, <1>3, <1>9 DEF RequestKnown, PairRow
  <2>3. n \in Store /\ n.access = r.held /\ n.refresh = s.refresh /\ n.user = r.answer
    BY <1>1, <2>2 DEF Store
  <2>4. StoreTyped(n)
    BY <1>1, <1>3, <2>2, <2>3 DEF StoreTyped, Token
  <2>5. RequestKnown(t, q)' /\ Suits(t, q)' /\ Idle \in Request
    BY <1>5, <2>1, IdleSuits DEF Idle, Request
  <2>6. ASSUME t \notin late' PROVE PageKnown(t)' /\ Fits(n)'
    <3>1. PageKnown(t) /\ \A o \in Calls : Suits(t, o)
      BY <2>1, <2>6 DEF ClientInv, PageKnown
    <3>2. tab'[t].store = n /\ PageOf(t)' = PageOf(t)
      BY <1>1, <2>1, <2>4, Written
    <3>3. /\ s.refresh # None /\ s.refresh \in DOMAIN pair
          /\ pair[r.token].user = pair[s.refresh].user /\ pair[r.held].user = pair[s.refresh].user
      BY <1>1, <1>9, <3>1 DEF Suits, StoreTyped, Token
    <3>4. Fits(n)'
      BY <1>1, <1>3, <2>2, <2>3, <3>3 DEF Fits
    <3>5. ASSUME NEW o \in Calls PROVE Suits(t, o)'
      <4>1. CASE o = q
        BY <2>5, <4>1
      <4>2. CASE o # q
        <5>1. Suits(t, o) /\ request'[t][o] = request[t][o] /\ tab'[t].store.refresh = tab[t].store.refresh
          BY <1>5, <2>1, <2>3, <3>1, <3>2, <4>2
        <5> QED BY <1>1, <1>2, <5>1, SuitStays
      <4> QED BY <4>1, <4>2
    <3>6. ASSUME NEW p \in posts', p.page.tab = t PROVE Mine(t, p)'
      <4>1. p \in posts /\ Mine(t, p)
        BY <1>1, <3>1, <3>6 DEF PageKnown
      <4> QED BY <1>1, <2>3, <3>2, <4>1 DEF Mine, Current
    <3>7. n.refresh # None /\ usedBy'[n.refresh] = t => \E p \in posts' : p.page.tab = t /\ p.at = "answered"
      BY <1>1, <2>3, <3>1 DEF PageKnown
    <3>8. Fits(tab[t].store)' /\ n.access # None
      BY <1>3, <2>2, <2>3, <3>2, <3>4 DEF Fits
    <3> QED BY <3>2, <3>4, <3>5, <3>6, <3>7, <3>8 DEF PageKnown
  <2> QED BY <1>1, <1>4, <2>1, <2>4, <2>5, <2>6
<1> QED BY <1>1, <1>7, <1>8, <1>9

\* Signing a tab out, if nothing is under way there or that is noted.
LEMMA TabSignsOut ==
  ASSUME ClientInv, NEW t \in Tabs, NEW left \in SUBSET Calls, SignsOut(t, left), UNCHANGED <<pair, usedBy, posts>>,
         breaks' \in 0..MaxBreaks,
         request' \in [Tabs -> [Calls -> Request]], \A u \in Tabs \ {t} : request'[u] = request[u],
         \A o \in Calls \ left : request'[t][o] = Idle,
         \A o \in left : request'[t][o] = request[t][o], \A o \in Calls \ left : request[t][o].at # "leading"
  PROVE  ClientInv'
<1>1. /\ Typed /\ Grows /\ LoginsLast /\ late \subseteq Tabs
  BY TokensStay DEF ClientInv, Typed, RequestsKnown
<1>2. StoreTyped(SignedOut) /\ Writes(t, SignedOut, "login")
  BY DEF StoreTyped, Store, Token, SignedOut, SignsOut, Cleared
<1>3. /\ tab' \in [Tabs -> Tab] /\ tab'[t].store = SignedOut /\ tab'[t].page = "login"
      /\ \A u \in Tabs \ {t} : tab'[u] = tab[u]
      /\ \A u \in Tabs : PageOf(u)' = PageOf(u) /\ tab'[u].refreshing = tab[u].refreshing
      /\ storage' = SignedOut /\ StoreTyped(storage)' /\ StoreTyped(tab[t].store)' /\ spilt' = (t \in late')
  BY <1>1, <1>2, Written
<1>4. Fits(SignedOut)' /\ Fits(storage)' /\ Fits(tab[t].store)' /\ SignedOut.refresh = None
  BY <1>3 DEF Fits, SignedOut
<1>5. /\ \A o \in Calls : request'[t][o] = Idle \/ request'[t][o] = request[t][o]
      /\ \A u \in Tabs, o \in Calls : request[u][o].at = "leading" => request'[u][o] = request[u][o]
  BY <1>1
<1>6. ASSUME NEW o \in Calls PROVE RequestKnown(t, o)'
  <2>1. CASE request'[t][o] = Idle
    BY <2>1, IdleSuits
  <2>2. CASE request'[t][o] = request[t][o]
    BY <1>1, <2>2, RequestStays DEF Typed, RequestsKnown
  <2> QED BY <1>5, <2>1, <2>2
<1>7. PostsKnown'
  BY <1>1, <1>3, <1>5, PostsStay
<1>8. late' \subseteq Tabs /\ \A u \in Tabs \ {t} : u \in late => u \in late'
  BY <1>1 DEF SignsOut, LateIf
<1>9. ASSUME t \notin late' PROVE PageKnown(t)'
  <2>1. ~UnderWay(t, left)
    BY <1>9 DEF SignsOut, LateIf
  <2>2. (\A p \in posts : p.page.tab # t) /\ \A o \in left : request[t][o] = Idle
    BY <1>1, <2>1, NotUnderWay
  <2>3. \A o \in Calls : Suits(t, o)'
    BY <2>2, IdleSuits
  <2>4. \A p \in posts' : p.page.tab # t
    BY <2>2
  <2> QED BY <1>3, <1>4, <2>3, <2>4, TabKnown
<1>10. spilt' \in BOOLEAN
  BY <1>3
<1>11. \A u \in Tabs \ {t} : tab'[u] = tab[u] /\ request'[u] = request[u]
  BY <1>3
<1>12. \A p : p.page.tab # t => (p \in posts' <=> p \in posts)
  OBVIOUS
<1> QED BY <1>1, <1>3, <1>4, <1>6, <1>7, <1>8, <1>9, <1>10, <1>11, <1>12, OneTab

\* A promise rejects.
LEMMA FailsKeeps ==
  ASSUME ClientInv, NEW t \in Tabs, NEW q \in Calls, Fails(t, q), request[t][q].at # "leading",
         UNCHANGED <<pair, usedBy, posts>>, breaks' \in 0..MaxBreaks
  PROVE  ClientInv'
<1>1. Becomes(t, q, Idle) /\ request \in [Tabs -> [Calls -> Request]]
  BY DEF Fails, ClientInv, Typed, RequestsKnown
<1>2. CASE request[t][q].kind = "route"
  <2> DEFINE left == Calls \ {q}
  <2>1. SignsOut(t, left)
    BY <1>2 DEF Fails
  <2>2. request'[t][q] = Idle /\ \A o \in Calls \ {q} : request'[t][o] = request[t][o]
    BY <1>1 DEF Becomes
  <2>3. request' \in [Tabs -> [Calls -> Request]] /\ \A u \in Tabs \ {t} : request'[u] = request[u]
    <3>1. Idle \in Request
      BY DEF Idle, Request
    <3> QED BY <1>1, <3>1 DEF Becomes
  <2>4. left \in SUBSET Calls /\ (\A o \in Calls \ left : request'[t][o] = Idle)
        /\ \A o \in left : request'[t][o] = request[t][o]
    BY <2>2
  <2>5. \A o \in Calls \ left : request[t][o].at # "leading"
    OBVIOUS
  <2> HIDE DEF left
  <2> QED BY <2>1, <2>3, <2>4, <2>5, TabSignsOut
<1>3. CASE request[t][q].kind # "route"
  BY <1>1, <1>3, RequestEnds DEF Fails
<1> QED BY <1>2, <1>3

\* A request is lost.
LEMMA LoseKeeps ==
  ASSUME ClientInv, NEW t \in Tabs, NEW q \in Calls, Lose(t, q)
  PROVE  ClientInv'
<1>1. breaks' \in 0..MaxBreaks
  BY Values DEF ClientInv, Typed, Lose, Break
<1> QED BY <1>1, FailsKeeps DEF Lose

\* Somebody signs out.
LEMMA LogoutKeeps ==
  ASSUME ClientInv, NEW t \in Tabs, Logout(t)
  PROVE  ClientInv'
<1>1. SignsOut(t, Calls) /\ UNCHANGED <<pair, usedBy, request, posts>> /\ breaks' \in 0..MaxBreaks
  BY DEF Logout, ClientInv, Typed
<1>2. request' \in [Tabs -> [Calls -> Request]] /\ Calls \in SUBSET Calls /\ Calls \ Calls = {}
  BY <1>1 DEF ClientInv, Typed, RequestsKnown
<1> QED BY <1>1, <1>2, TabSignsOut

\* Going back, or forward, changes which page the tab is on.
LEMMA PageTurns ==
  ASSUME Typed, NEW t \in Tabs, NEW at \in {"login", "app"}, tab' = [tab EXCEPT ![t].page = at],
         UNCHANGED <<pair, storage>>
  PROVE  /\ tab' \in [Tabs -> Tab] /\ tab'[t].store = tab[t].store /\ tab'[t].page = at
         /\ \A u \in Tabs \ {t} : tab'[u] = tab[u]
         /\ \A u \in Tabs : PageOf(u)' = PageOf(u) /\ tab'[u].refreshing = tab[u].refreshing
         /\ StoreTyped(storage)' /\ StoreTyped(tab[t].store)' /\ (Fits(storage) => Fits(storage)')
<1>1. tab \in [Tabs -> Tab] /\ StoreTyped(tab[t].store) /\ StoreTyped(storage)
  BY DEF Typed, TabsTyped
<1>2. /\ tab' \in [Tabs -> Tab] /\ tab'[t].store = tab[t].store /\ tab'[t].page = at
      /\ tab'[t].refreshing = tab[t].refreshing /\ tab'[t].load = tab[t].load
      /\ \A u \in Tabs \ {t} : tab'[u] = tab[u]
  BY <1>1 DEF Tab
<1>3. \A u \in Tabs : PageOf(u)' = PageOf(u) /\ tab'[u].refreshing = tab[u].refreshing
  BY <1>2 DEF PageOf
<1>4. StoreTyped(storage)' /\ StoreTyped(tab[t].store)' /\ (Fits(storage) => Fits(storage)')
  BY <1>1, <1>2 DEF StoreTyped, Token, Fits
<1> QED BY <1>2, <1>3, <1>4

\* The app is left by the history of the browser.
LEMMA LeaveAppKeeps ==
  ASSUME ClientInv, NEW t \in Tabs, LeaveApp(t)
  PROVE  ClientInv'
<1>1. /\ Typed /\ Grows /\ LoginsLast /\ late \subseteq Tabs /\ spilt \in BOOLEAN /\ breaks' \in 0..MaxBreaks
      /\ UNCHANGED <<pair, usedBy, storage, request, posts, late, spilt>> /\ tab' = [tab EXCEPT ![t].page = "login"]
  BY Values, TokensStay DEF ClientInv, Typed, LeaveApp, Break
<1>2. /\ tab' \in [Tabs -> Tab] /\ tab'[t].store = tab[t].store /\ tab'[t].page = "login"
      /\ \A u \in Tabs \ {t} : tab'[u] = tab[u]
      /\ \A u \in Tabs : PageOf(u)' = PageOf(u) /\ tab'[u].refreshing = tab[u].refreshing
      /\ StoreTyped(storage)' /\ StoreTyped(tab[t].store)' /\ (Fits(storage) => Fits(storage)')
  <2>1. "login" \in {"login", "app"} /\ UNCHANGED <<pair, storage>>
    BY <1>1
  <2> QED BY <1>1, <2>1, PageTurns
<1>3. request' \in [Tabs -> [Calls -> Request]] /\ \A o \in Calls : RequestKnown(t, o)'
  BY <1>1, RequestStays DEF Typed, RequestsKnown
<1>4. PostsKnown'
  BY <1>1, <1>2, PostsStay
<1>5. ASSUME t \notin late' PROVE PageKnown(t)'
  <2>1. PageKnown(t)
    BY <1>1, <1>5 DEF ClientInv
  <2>2. ASSUME NEW o \in Calls PROVE Suits(t, o)'
    <3>1. Suits(t, o) /\ request'[t][o] = request[t][o] /\ tab'[t].store.refresh = tab[t].store.refresh
      BY <1>1, <1>2, <2>1 DEF PageKnown
    <3> QED BY <1>1, <3>1, SuitStays
  <2>3. tab'[t].page = "app" => tab[t].store.access # None
    BY <1>2
  <2> QED BY <1>1, <1>2, <2>1, <2>2, <2>3, StoreKept
<1>6. (~spilt' => Fits(storage)') /\ spilt' \in BOOLEAN /\ late' \subseteq Tabs /\ \A u \in Tabs \ {t} : u \in late => u \in late'
  BY <1>1, <1>2 DEF ClientInv
<1>7. \A u \in Tabs \ {t} : tab'[u] = tab[u] /\ request'[u] = request[u]
  BY <1>1, <1>2
<1>8. \A p : p.page.tab # t => (p \in posts' <=> p \in posts)
  BY <1>1
<1> QED BY <1>1, <1>2, <1>3, <1>4, <1>5, <1>6, <1>7, <1>8, OneTab

\* The app is entered again with the store as it is.
LEMMA EnterAppKeeps ==
  ASSUME ClientInv, NEW t \in Tabs, EnterApp(t)
  PROVE  ClientInv'
<1> DEFINE s == tab[t].store
<1>1. /\ Typed /\ Grows /\ LoginsLast /\ late \subseteq Tabs /\ spilt \in BOOLEAN /\ breaks' \in 0..MaxBreaks
      /\ UNCHANGED <<pair, usedBy, storage, posts, late, spilt>> /\ tab' = [tab EXCEPT ![t].page = "app"]
      /\ StoreTyped(s) /\ s.access # None /\ s.access \in Pairs \cup {None} /\ s.access \in DOMAIN pair
      /\ request \in [Tabs -> [Calls -> Request]]
  BY TokensStay DEF ClientInv, Typed, TabsTyped, RequestsKnown, EnterApp, StoreTyped, Store, Token
<1>2. /\ tab' \in [Tabs -> Tab] /\ tab'[t].store = s /\ tab'[t].page = "app"
      /\ \A u \in Tabs \ {t} : tab'[u] = tab[u]
      /\ \A u \in Tabs : PageOf(u)' = PageOf(u) /\ tab'[u].refreshing = tab[u].refreshing
      /\ StoreTyped(storage)' /\ StoreTyped(tab[t].store)' /\ (Fits(storage) => Fits(storage)')
  <2>1. "app" \in {"login", "app"} /\ UNCHANGED <<pair, storage>>
    BY <1>1
  <2> QED BY <1>1, <2>1, PageTurns
<1>3. PICK pr : pr = Profile(s.access)
  OBVIOUS
<1>4. pr \in Request /\ pr.at = "sent" /\ pr.kind = "route" /\ pr.token = s.access /\ pr.held = s.access
  <2>1. LET r == Profile(s.access) IN
          r \in Request /\ r.at = "sent" /\ r.kind = "route" /\ ~r.retry /\ r.token = s.access /\ r.held = s.access
    BY <1>1, Sent
  <2> QED BY <1>3, <2>1
<1>5. \/ request' = request
      \/ \E q \in Calls : request[t][q].at = "idle" /\ request' = [request EXCEPT ![t][q] = pr]
  BY <1>3 DEF EnterApp, Becomes
<1>6. /\ request' \in [Tabs -> [Calls -> Request]] /\ \A u \in Tabs \ {t} : request'[u] = request[u]
      /\ \A o \in Calls : \/ request'[t][o] = request[t][o]
                          \/ request[t][o].at = "idle" /\ request'[t][o] = pr
  BY <1>1, <1>4, <1>5
<1>7. ASSUME NEW o \in Calls PROVE RequestKnown(t, o)'
  <2>1. CASE request'[t][o] = request[t][o]
    BY <1>1, <2>1, RequestStays DEF Typed, RequestsKnown
  <2>2. CASE request'[t][o] = pr
    <3>1. s.access \in Token' /\ s.access \in DOMAIN pair'
      BY <1>1 DEF Token
    <3> QED BY <1>4, <2>2, <3>1 DEF RequestKnown
  <2> QED BY <1>6, <2>1, <2>2
<1>8. PostsKnown'
  <2>1. \A u \in Tabs, o \in Calls : request[u][o].at = "leading" => request'[u][o] = request[u][o]
    BY <1>6
  <2> QED BY <1>1, <1>2, <2>1, PostsStay
<1>9. ASSUME t \notin late' PROVE PageKnown(t)'
  <2>1. PageKnown(t) /\ Fits(s)
    BY <1>1, <1>9 DEF ClientInv, PageKnown
  <2>2. ASSUME NEW o \in Calls PROVE Suits(t, o)'
    <3>1. CASE request'[t][o] = request[t][o]
      <4>1. Suits(t, o) /\ tab'[t].store.refresh = tab[t].store.refresh
        BY <1>2, <2>1 DEF PageKnown
      <4> QED BY <1>1, <3>1, <4>1, SuitStays
    <3>2. CASE request'[t][o] = pr
      <4>1. s.refresh # None /\ pair'[s.access].user = pair'[s.refresh].user
        BY <1>1, <2>1 DEF Fits
      <4> QED BY <1>2, <1>4, <3>2, <4>1 DEF Suits
    <3> QED BY <1>6, <3>1, <3>2
  <2>3. tab'[t].page = "app" => tab[t].store.access # None
    BY <1>1
  <2> QED BY <1>1, <1>2, <2>1, <2>2, <2>3, StoreKept
<1>10. (~spilt' => Fits(storage)') /\ spilt' \in BOOLEAN /\ late' \subseteq Tabs /\ \A u \in Tabs \ {t} : u \in late => u \in late'
  BY <1>1, <1>2 DEF ClientInv
<1>11. \A u \in Tabs \ {t} : tab'[u] = tab[u] /\ request'[u] = request[u]
  BY <1>2, <1>6
<1>12. \A p : p.page.tab # t => (p \in posts' <=> p \in posts)
  BY <1>1
<1> QED BY <1>1, <1>2, <1>6, <1>7, <1>8, <1>9, <1>10, <1>11, <1>12, OneTab

\* A page that loads has a number no refresh under way knows.
LEMMA NewLoadIsNew ==
  ASSUME Typed
  PROVE  NewLoad \in Nat /\ \A p \in posts : p.page.load # NewLoad
<1> DEFINE K == {p.page.load : p \in posts}
<1>1. IsFiniteSet(K) /\ Cardinality(K) \in Nat
  <2> DEFINE f == [p \in posts |-> p.page.load]
  <2>1. f \in Surjection(posts, K)
    BY DEF Surjection
  <2> QED BY <2>1, FS_Surjection, FS_CardinalityType DEF Typed, PostsKnown
<1>2. \E n \in 1..Cardinality(K) + 1 : n \notin K
  <2> DEFINE N == 1..Cardinality(K) + 1
  <2>1. SUFFICES ASSUME N \subseteq K PROVE FALSE
    OBVIOUS
  <2>2. Cardinality(N) <= Cardinality(K)
    BY <1>1, <2>1, FS_Subset
  <2>3. Cardinality(N) = Cardinality(K) + 1
    <3> HIDE DEF K
    <3>1. 1 \in Int /\ Cardinality(K) + 1 \in Int /\ ~(1 > Cardinality(K) + 1) /\ Cardinality(K) + 1 - 1 + 1 = Cardinality(K) + 1
      BY <1>1
    <3> QED BY <3>1, FS_Interval
  <2> QED BY <1>1, <2>2, <2>3
<1>3. NewLoad = CHOOSE n \in 1..Cardinality(K) + 1 : n \notin K
  BY DEF NewLoad
<1>4. NewLoad \in 1..Cardinality(K) + 1 /\ NewLoad \notin K
  <2> HIDE DEF K
  <2> QED BY <1>2, <1>3
<1>5. NewLoad \in Nat
  <2> HIDE DEF K
  <2> QED BY <1>1, <1>4
<1> QED BY <1>4, <1>5

\* A page load leaves a tab that is known, or late.
LEMMA LoadsKeeps ==
  ASSUME ClientInv, NEW t \in Tabs, NEW s, StoreTyped(s), s = storage \/ s = SignedOut,
         NEW guarded \in BOOLEAN, Loads(t, s, guarded),
         UNCHANGED <<pair, usedBy>>, breaks' \in 0..MaxBreaks,
         posts' \subseteq posts, \A p : p.page.tab # t => (p \in posts' <=> p \in posts)
  PROVE  ClientInv'
<1>1. /\ Typed /\ Grows /\ LoginsLast /\ late \subseteq Tabs /\ request \in [Tabs -> [Calls -> Request]] /\ Token' = Token
      /\ spilt \in BOOLEAN
  BY TokensStay DEF ClientInv, Typed, RequestsKnown, Token
<1>2. NewLoad \in Nat /\ \A p \in posts : p.page.load # NewLoad
  BY <1>1, NewLoadIsNew
<1>3. PICK load : load = NewLoad
  OBVIOUS
<1>4. PICK at : at = IF guarded /\ s.access # None THEN "app" ELSE "login"
  OBVIOUS
<1>5. s \in Store /\ (s.access # None => s.access \in DOMAIN pair) /\ s.access \in Pairs \cup {None}
  BY DEF StoreTyped, Token, Store
<1>6. tab' = [tab EXCEPT ![t] = [store |-> s, refreshing |-> FALSE, load |-> load, page |-> at]]
  BY <1>3, <1>4 DEF Loads
<1>7. /\ tab' \in [Tabs -> Tab] /\ tab'[t].store = s /\ tab'[t].page = at /\ tab'[t].load = load /\ tab'[t].refreshing = FALSE
      /\ \A u \in Tabs \ {t} : tab'[u] = tab[u]
  BY <1>1, <1>2, <1>3, <1>4, <1>5, <1>6 DEF Typed, TabsTyped, Tab
<1>8. storage' = s /\ StoreTyped(storage)' /\ StoreTyped(tab[t].store)'
  BY <1>1, <1>7 DEF Loads, StoreTyped
<1>9. PICK q \in Calls : request' = [request EXCEPT ![t] =
         [r \in Calls |-> IF r = q /\ at = "app" /\ s.user = None THEN Profile(s.access) ELSE Idle]]
  BY <1>4 DEF Loads
<1>10. /\ Idle \in Request /\ Profile(s.access) \in Request
       /\ LET r == Profile(s.access) IN r.at = "sent" /\ r.kind = "route" /\ r.token = s.access /\ r.held = s.access
  <2>1. Idle \in Request
    BY DEF Idle, Request
  <2>2. LET r == Profile(s.access) IN r \in Request /\ r.at = "sent" /\ r.kind = "route" /\ ~r.retry /\ r.token = s.access /\ r.held = s.access
    BY <1>5, Sent
  <2> QED BY <2>1, <2>2
<1>11. /\ request' \in [Tabs -> [Calls -> Request]] /\ \A u \in Tabs \ {t} : request'[u] = request[u]
       /\ \A o \in Calls : \/ request'[t][o] = Idle
                           \/ s.access # None /\ request'[t][o] = Profile(s.access)
  BY <1>1, <1>4, <1>9, <1>10
<1>12. ASSUME NEW o \in Calls PROVE RequestKnown(t, o)' /\ (Fits(s) => Suits(t, o)')
  <2>1. CASE request'[t][o] = Idle
    BY <2>1, IdleSuits
  <2>2. CASE s.access # None /\ request'[t][o] = Profile(s.access)
    <3>1. PICK r : r = Profile(s.access)
      OBVIOUS
    <3>2. /\ request'[t][o] = r /\ r \in Request /\ r.at = "sent" /\ r.kind = "route" /\ r.token = s.access /\ r.held = s.access
          /\ s.access \in DOMAIN pair' /\ s.access \in Token'
      BY <1>1, <1>5, <1>10, <2>2, <3>1 DEF Token
    <3>3. RequestKnown(t, o)'
      BY <3>2 DEF RequestKnown
    <3>4. ASSUME Fits(s) PROVE Suits(t, o)'
      <4>1. tab'[t].store = s /\ s.refresh # None /\ pair'[s.access].user = pair'[s.refresh].user
        BY <1>7, <2>2, <3>4 DEF Fits
      <4> QED BY <3>2, <4>1 DEF Suits
    <3> QED BY <3>3, <3>4
  <2> QED BY <1>11, <2>1, <2>2
<1>13. /\ \A u \in Tabs \ {t} : PageOf(u)' = PageOf(u)
       /\ PageOf(t)' = [tab |-> t, load |-> load]
  BY <1>7 DEF PageOf
<1>14. \A p \in posts' : ~Current(p, t)'
  <2>1. \A p \in posts : p.page.load # load
    BY <1>2, <1>3
  <2> QED BY <1>13, <2>1 DEF Current
<1>15. PostsKnown'
  <2>1. IsFiniteSet(posts')
    BY <1>1, FS_Subset DEF Typed, PostsKnown
  <2>2. ASSUME NEW p \in posts' PROVE PostKnown(p)'
    <3>1. PostKnown(p)
      BY <1>1 DEF Typed, PostsKnown
    <3>2. ASSUME NEW u \in Tabs, Current(p, u)' PROVE tab'[u].refreshing /\ request'[u][p.leader].at = "leading"
      <4>1. u # t
        BY <1>14, <3>2
      <4>2. Current(p, u)
        BY <1>13, <3>2, <4>1 DEF Current
      <4> QED BY <1>7, <1>11, <3>1, <4>1, <4>2 DEF PostKnown
    <3> QED BY <1>1, <3>1, <3>2 DEF PostKnown
  <2> QED BY <1>1, <2>1, <2>2 DEF Typed, PostsKnown
<1>16. /\ spilt' \in BOOLEAN /\ late' \subseteq Tabs /\ \A u \in Tabs \ {t} : u \in late => u \in late'
       /\ spilt' = (spilt /\ s # SignedOut)
  BY <1>1 DEF Loads, LateIf
<1>17. ASSUME ~spilt' PROVE Fits(s)
  <2>1. CASE s = SignedOut
    BY <2>1 DEF Fits, SignedOut
  <2>2. CASE s = storage /\ s # SignedOut
    <3>1. Fits(storage)
      BY <1>16, <1>17, <2>2 DEF ClientInv
    <3>2. ASSUME NEW x, x = s, Fits(x) PROVE Fits(s)
      BY <3>2
    <3> QED BY <2>2, <3>1 DEF Fits
  <2> QED BY <2>1, <2>2
<1>18. ~spilt' => Fits(storage)' /\ Fits(tab[t].store)'
  BY <1>7, <1>8, <1>17 DEF Fits
<1>19. ASSUME t \notin late' PROVE PageKnown(t)'
  <2>1. ~spilt' /\ (\A p \in posts' : p.page.tab # t) /\ ~(s.refresh # None /\ usedBy[s.refresh] = t)
    BY <1>19 DEF Loads, LateIf
  <2>2. \A o \in Calls : Suits(t, o)'
    BY <1>12, <1>17, <2>1
  <2>3. tab'[t].page = "app" => tab'[t].store.access # None
    BY <1>4, <1>7
  <2>4. tab'[t].store.refresh # None => usedBy'[tab'[t].store.refresh] # t
    BY <1>7, <2>1
  <2> QED BY <1>18, <2>1, <2>2, <2>3, <2>4, TabKnown
<1>20. \A u \in Tabs \ {t} : tab'[u] = tab[u] /\ request'[u] = request[u]
  BY <1>7, <1>11
<1> QED BY <1>7, <1>8, <1>11, <1>12, <1>15, <1>16, <1>18, <1>19, <1>20, OneTab

\* A refresh starts: no other of this page is under way, and it presents the store's token.
LEMMA LeadKeeps ==
  ASSUME ClientInv, NEW t \in Tabs, NEW q \in Calls, request[t][q].at = "denied",
         ~tab[t].refreshing, tab[t].store.refresh # None,
         Becomes(t, q, [request[t][q] EXCEPT !.at = "leading", !.retry = TRUE]),
         tab' = [tab EXCEPT ![t].refreshing = TRUE],
         posts' = posts \cup {[page |-> PageOf(t), leader |-> q, token |-> tab[t].store.refresh, at |-> "sent", got |-> None]},
         UNCHANGED <<pair, usedBy, storage, late, spilt, breaks>>
  PROVE  ClientInv'
<1> DEFINE s == tab[t].store
<1>1. /\ Typed /\ Grows /\ LoginsLast /\ late' \subseteq Tabs /\ request \in [Tabs -> [Calls -> Request]] /\ Token' = Token
      /\ breaks' \in 0..MaxBreaks /\ tab \in [Tabs -> Tab] /\ RequestKnown(t, q) /\ StoreTyped(s)
  BY TokensStay DEF ClientInv, Typed, RequestsKnown, TabsTyped, Token
<1>2. PICK r : r = request[t][q]
  OBVIOUS
<1>3. PICK d : d = [r EXCEPT !.at = "leading", !.retry = TRUE]
  OBVIOUS
<1>4. r \in Request
  BY <1>1, <1>2 DEF RequestKnown
<1>5. d \in Request /\ d.at = "leading" /\ d.kind = r.kind /\ d.token = r.token /\ d.held = r.held
  BY <1>3, <1>4 DEF Request
<1>6. /\ request' \in [Tabs -> [Calls -> Request]] /\ \A u \in Tabs \ {t} : request'[u] = request[u]
      /\ request'[t][q] = d /\ \A o \in Calls \ {q} : request'[t][o] = request[t][o]
  BY <1>1, <1>2, <1>3, <1>5 DEF Becomes
<1>7. /\ tab' \in [Tabs -> Tab] /\ tab'[t].refreshing = TRUE /\ tab'[t].store = s /\ tab'[t].page = tab[t].page
      /\ \A u \in Tabs : PageOf(u)' = PageOf(u) /\ (u # t => tab'[u] = tab[u])
  BY <1>1 DEF Tab, PageOf
<1>8. StoreTyped(storage)' /\ StoreTyped(tab[t].store)'
  BY <1>1, <1>7 DEF Typed, StoreTyped, Token
<1>9. \A p \in posts : ~Current(p, t)
  BY <1>1 DEF Typed, PostsKnown, PostKnown
<1>10. PICK n : n = [page |-> PageOf(t), leader |-> q, token |-> s.refresh, at |-> "sent", got |-> None]
  OBVIOUS
<1>11. /\ posts' = posts \cup {n} /\ n.page = PageOf(t) /\ n.leader = q /\ n.token = s.refresh /\ n.at = "sent" /\ n.got = None
       /\ n \in Post /\ n.token \in DOMAIN pair
  <2>1. s.refresh \in Pairs /\ s.refresh \in DOMAIN pair
    BY <1>1 DEF StoreTyped, Store, Token
  <2>2. PageOf(t) \in Page
    BY <1>1, PagesAre DEF Typed
  <2> QED BY <1>10, <2>1, <2>2 DEF Post
<1>12. ASSUME NEW o \in Calls PROVE RequestKnown(t, o)'
  <2>1. CASE o = q
    <3>1. r.kind # "login" /\ (r.kind = "route" => r.token \in DOMAIN pair /\ r.held \in DOMAIN pair) /\ r.token \in Token /\ r.held \in Token
      BY <1>1, <1>2 DEF RequestKnown
    <3> QED BY <1>1, <1>5, <1>6, <2>1, <3>1 DEF RequestKnown
  <2>2. CASE o # q
    BY <1>1, <1>6, <2>2, RequestStays DEF Typed, RequestsKnown
  <2> QED BY <2>1, <2>2
<1>13. PostsKnown'
  <2>1. IsFiniteSet(posts')
    BY <1>1, <1>11, FS_AddElement DEF Typed, PostsKnown
  <2>2. ASSUME NEW p \in posts PROVE PostKnown(p)'
    <3>1. PostKnown(p)
      BY <1>1 DEF Typed, PostsKnown
    <3>2. ASSUME NEW u \in Tabs, Current(p, u)' PROVE tab'[u].refreshing /\ request'[u][p.leader].at = "leading"
      <4>1. Current(p, u)
        BY <1>7, <3>2 DEF Current
      <4>2. u # t
        BY <1>9, <4>1
      <4> QED BY <1>6, <1>7, <3>1, <4>1, <4>2 DEF PostKnown
    <3> QED BY <1>1, <3>1, <3>2 DEF PostKnown
  <2>3. PostKnown(n)'
    <3>1. ASSUME NEW u \in Tabs, Current(n, u)' PROVE u = t
      BY <1>7, <1>11, <3>1 DEF Current, PageOf
    <3>2. None \in Token'
      BY DEF Token
    <3> QED BY <1>1, <1>5, <1>6, <1>7, <1>11, <3>1, <3>2 DEF PostKnown
  <2>4. \A p \in posts : p.page # n.page
    BY <1>9, <1>11 DEF Current
  <2> QED BY <1>1, <1>11, <2>1, <2>2, <2>3, <2>4 DEF Typed, PostsKnown
<1>14. \A p : p.page.tab # t => (p \in posts' <=> p \in posts)
  BY <1>11 DEF PageOf
<1>15. ASSUME t \notin late' PROVE PageKnown(t)'
  <2>1. PageKnown(t) /\ \A o \in Calls : Suits(t, o)
    BY <1>15 DEF ClientInv, PageKnown
  <2>2. Fits(tab[t].store)'
    BY <1>7, <2>1 DEF PageKnown, Fits
  <2>3. usedBy[s.refresh] # t /\ \A p \in posts : p.page.tab # t
    BY <1>9, <2>1 DEF PageKnown, Mine
  <2>4. ASSUME NEW o \in Calls PROVE Suits(t, o)'
    <3>1. CASE o = q
      <4>1. tab'[t].store = tab[t].store /\ request'[t][q] = d /\ pair' = pair
        BY <1>6, <1>7
      <4>2. Suits(t, q)
        BY <2>1
      <4> QED BY <1>2, <1>5, <3>1, <4>1, <4>2 DEF Suits
    <3>2. CASE o # q
      <4>1. request'[t][o] = request[t][o] /\ tab'[t].store.refresh = tab[t].store.refresh /\ Suits(t, o)
        BY <1>6, <1>7, <2>1, <3>2
      <4> QED BY <1>1, <4>1, SuitStays
    <3> QED BY <3>1, <3>2
  <2>5. ASSUME NEW p \in posts', p.page.tab = t PROVE Mine(t, p)'
    <3>1. p = n
      BY <1>11, <2>3, <2>5
    <3> QED BY <1>7, <1>11, <2>3, <3>1 DEF Mine, Current
  <2>6. tab'[t].page = "app" => tab'[t].store.access # None
    BY <1>7, <2>1 DEF PageKnown
  <2>7. tab'[t].store.refresh = s.refresh /\ usedBy'[s.refresh] # t
    BY <1>7, <2>3
  <2> HIDE DEF s
  <2> QED BY <2>2, <2>4, <2>5, <2>6, <2>7 DEF PageKnown
<1>16. \A u \in Tabs \ {t} : tab'[u] = tab[u] /\ request'[u] = request[u]
  BY <1>6, <1>7
<1>17. /\ spilt' \in BOOLEAN /\ (~spilt' => Fits(storage)') /\ UNCHANGED <<pair, usedBy>>
       /\ \A u \in Tabs \ {t} : u \in late => u \in late'
  BY <1>1 DEF ClientInv, Typed, Fits
<1> QED BY <1>1, <1>6, <1>7, <1>8, <1>12, <1>13, <1>14, <1>15, <1>16, <1>17, OneTab

\* A 401 is received.
LEMMA ReceiveDeniedKeeps ==
  ASSUME ClientInv, NEW t \in Tabs, NEW q \in Calls, ReceiveDenied(t, q)
  PROVE  ClientInv'
<1> DEFINE r == request[t][q]
<1>1. r.at = "denied" /\ UNCHANGED <<pair, usedBy, breaks>> /\ breaks' \in 0..MaxBreaks
  BY DEF ReceiveDenied, ClientInv, Typed
<1>2. r.kind # "login" /\ r.at # "leading"
  BY <1>1 DEF ClientInv, Typed, RequestsKnown, RequestKnown
<1>3. CASE Fails(t, q) /\ UNCHANGED posts
  BY <1>1, <1>2, <1>3, FailsKeeps
<1>4. CASE Becomes(t, q, [r EXCEPT !.at = "queued"]) /\ UNCHANGED <<tab, storage, posts, late, spilt>>
  BY <1>1, <1>2, <1>4, RequestWaits
<1>5. CASE /\ ~Refreshing(t) /\ tab[t].store.refresh # None
           /\ Becomes(t, q, [r EXCEPT !.at = "leading", !.retry = TRUE])
           /\ tab' = [tab EXCEPT ![t].refreshing = TRUE]
           /\ posts' = posts \cup {[page |-> PageOf(t), leader |-> q, token |-> tab[t].store.refresh,
                                    at |-> "sent", got |-> None]}
           /\ UNCHANGED <<storage, late, spilt>>
  BY <1>1, <1>5, LeadKeeps DEF Refreshing
<1>6. CASE Loads(t, Cleared(tab[t].store), FALSE) /\ UNCHANGED posts
  <2>1. StoreTyped(SignedOut)
    BY DEF StoreTyped, Store, Token, SignedOut
  <2>2. Loads(t, SignedOut, FALSE)
    BY <1>6 DEF Cleared
  <2> QED BY <1>1, <1>6, <2>1, <2>2, LoadsKeeps
<1> QED BY <1>3, <1>4, <1>5, <1>6 DEF ReceiveDenied

\* A page is reloaded.
LEMMA VisitKeeps ==
  ASSUME ClientInv, NEW t \in Tabs, Visit(t)
  PROVE  ClientInv'
<1>1. breaks' \in 0..MaxBreaks /\ UNCHANGED <<pair, usedBy, posts>>
  BY Values DEF ClientInv, Typed, Visit, Break
<1>2. PICK s : s = storage
  OBVIOUS
<1>3. PICK guarded \in BOOLEAN : Loads(t, s, guarded)
  BY <1>2 DEF Visit
<1>4. StoreTyped(s)
  BY <1>2 DEF ClientInv, Typed
<1> QED BY <1>1, <1>2, <1>3, <1>4, LoadsKeeps

\* What a step of the server that keeps users and access tokens keeps.
LEMMA RowsStay ==
  ASSUME Typed, PairsTyped', DOMAIN pair \subseteq DOMAIN pair',
         \A m \in DOMAIN pair : pair'[m].user = pair[m].user /\ pair'[m].access = pair[m].access
  PROVE  Grows /\ LoginsLast
<1>1. LoginsLast
  BY DEF Typed, RequestsKnown, RequestKnown, LoginsLast
<1> QED BY <1>1 DEF Grows

\* Changing a row, or every row, keeps a sequence of pairs one.
LEMMA RowsAre ==
  ASSUME PairsTyped, NEW n \in DOMAIN pair
  PROVE  /\ LET b == [pair EXCEPT ![n].refresh = "used"] IN
              /\ b \in Seq(PairRow) /\ Len(b) = Len(pair) /\ DOMAIN b = DOMAIN pair
              /\ \A m \in DOMAIN pair : b[m].user = pair[m].user /\ b[m].access = pair[m].access
         /\ LET b == [pair EXCEPT ![n].refresh = "gone"] IN
              /\ b \in Seq(PairRow) /\ Len(b) = Len(pair) /\ DOMAIN b = DOMAIN pair
              /\ \A m \in DOMAIN pair : b[m].user = pair[m].user /\ b[m].access = pair[m].access
         /\ LET b == [pair EXCEPT ![n].access = FALSE] IN
              /\ b \in Seq(PairRow) /\ Len(b) = Len(pair) /\ DOMAIN b = DOMAIN pair
              /\ \A m \in DOMAIN pair : b[m].user = pair[m].user /\ (m # n => b[m] = pair[m])
         /\ LET b == [m \in DOMAIN pair |-> IF pair[m].user = pair[n].user
                                            THEN [pair[m] EXCEPT !.refresh = "gone"] ELSE pair[m]] IN
              /\ b \in Seq(PairRow) /\ Len(b) = Len(pair) /\ DOMAIN b = DOMAIN pair
              /\ \A m \in DOMAIN pair : b[m].user = pair[m].user /\ b[m].access = pair[m].access
<1>1. /\ pair \in Seq(PairRow) /\ DOMAIN pair = 1..Len(pair) /\ Len(pair) \in Nat
      /\ \A m \in DOMAIN pair : pair[m] \in PairRow
  BY Numbers DEF PairsTyped
<1>2. ASSUME NEW b, DOMAIN b = DOMAIN pair, b = [m \in DOMAIN b |-> b[m]], \A m \in DOMAIN pair : b[m] \in PairRow
      PROVE  b \in Seq(PairRow) /\ Len(b) = Len(pair)
  <2>1. b \in [1..Len(pair) -> PairRow]
    BY <1>1, <1>2
  <2> QED BY <1>1, <2>1
<1>3. LET b == [pair EXCEPT ![n].refresh = "used"] IN
        /\ b \in Seq(PairRow) /\ Len(b) = Len(pair) /\ DOMAIN b = DOMAIN pair
        /\ \A m \in DOMAIN pair : b[m].user = pair[m].user /\ b[m].access = pair[m].access
  <2> DEFINE b == [pair EXCEPT ![n].refresh = "used"]
  <2>1. DOMAIN b = DOMAIN pair /\ b = [m \in DOMAIN b |-> b[m]] /\ (\A m \in DOMAIN pair : b[m] \in PairRow)
        /\ \A m \in DOMAIN pair : b[m].user = pair[m].user /\ b[m].access = pair[m].access
    BY <1>1 DEF PairRow
  <2> HIDE DEF b
  <2>2. b \in Seq(PairRow) /\ Len(b) = Len(pair)
    BY <1>2, <2>1
  <2> QED BY <2>1, <2>2 DEF b
<1>4. LET b == [pair EXCEPT ![n].refresh = "gone"] IN
        /\ b \in Seq(PairRow) /\ Len(b) = Len(pair) /\ DOMAIN b = DOMAIN pair
        /\ \A m \in DOMAIN pair : b[m].user = pair[m].user /\ b[m].access = pair[m].access
  <2> DEFINE b == [pair EXCEPT ![n].refresh = "gone"]
  <2>1. DOMAIN b = DOMAIN pair /\ b = [m \in DOMAIN b |-> b[m]] /\ (\A m \in DOMAIN pair : b[m] \in PairRow)
        /\ \A m \in DOMAIN pair : b[m].user = pair[m].user /\ b[m].access = pair[m].access
    BY <1>1 DEF PairRow
  <2> HIDE DEF b
  <2>2. b \in Seq(PairRow) /\ Len(b) = Len(pair)
    BY <1>2, <2>1
  <2> QED BY <2>1, <2>2 DEF b
<1>5. LET b == [pair EXCEPT ![n].access = FALSE] IN
        /\ b \in Seq(PairRow) /\ Len(b) = Len(pair) /\ DOMAIN b = DOMAIN pair
        /\ \A m \in DOMAIN pair : b[m].user = pair[m].user /\ (m # n => b[m] = pair[m])
  <2> DEFINE b == [pair EXCEPT ![n].access = FALSE]
  <2>1. DOMAIN b = DOMAIN pair /\ b = [m \in DOMAIN b |-> b[m]] /\ (\A m \in DOMAIN pair : b[m] \in PairRow)
        /\ \A m \in DOMAIN pair : b[m].user = pair[m].user /\ (m # n => b[m] = pair[m])
    BY <1>1 DEF PairRow
  <2> HIDE DEF b
  <2>2. b \in Seq(PairRow) /\ Len(b) = Len(pair)
    BY <1>2, <2>1
  <2> QED BY <2>1, <2>2 DEF b
<1>6. LET b == [m \in DOMAIN pair |-> IF pair[m].user = pair[n].user
                                      THEN [pair[m] EXCEPT !.refresh = "gone"] ELSE pair[m]] IN
        /\ b \in Seq(PairRow) /\ Len(b) = Len(pair) /\ DOMAIN b = DOMAIN pair
        /\ \A m \in DOMAIN pair : b[m].user = pair[m].user /\ b[m].access = pair[m].access
  <2> DEFINE b == [m \in DOMAIN pair |-> IF pair[m].user = pair[n].user
                                         THEN [pair[m] EXCEPT !.refresh = "gone"] ELSE pair[m]]
  <2>1. DOMAIN b = DOMAIN pair /\ b = [m \in DOMAIN b |-> b[m]] /\ (\A m \in DOMAIN pair : b[m] \in PairRow)
        /\ \A m \in DOMAIN pair : b[m].user = pair[m].user /\ b[m].access = pair[m].access
    BY <1>1 DEF PairRow
  <2> HIDE DEF b
  <2>2. b \in Seq(PairRow) /\ Len(b) = Len(pair)
    BY <1>2, <2>1
  <2> QED BY <2>1, <2>2 DEF b
<1> QED BY <1>3, <1>4, <1>5, <1>6

\* The answer of a refresh comes to be on its way: a new pair of the user, or none.
LEMMA AnswerKeeps ==
  ASSUME ClientInv, NEW p \in posts, NEW g \in Pairs \cup {None}, Answer(p, g), Grows, LoginsLast,
         UNCHANGED <<storage, tab, request, late, spilt>>, breaks' \in 0..MaxBreaks,
         \A m \in Pairs : usedBy'[m] = usedBy[m] \/ (m = p.token /\ usedBy'[m] = p.page.tab),
         g # None => g \in DOMAIN pair' /\ usedBy'[g] # p.page.tab /\ pair'[g].user = pair[p.token].user
  PROVE  ClientInv'
<1>1. Typed /\ PairsTyped /\ PairsTyped' /\ DOMAIN pair \subseteq Pairs /\ None \notin DOMAIN pair
  BY Numbers DEF ClientInv, Typed, Grows
<1>2. PostKnown(p) /\ p \in Post /\ p.token \in DOMAIN pair /\ p.page \in Page /\ p.page.tab \in Tabs
  BY <1>1 DEF Typed, PostsKnown, PostKnown, Post, Page
<1>3. PICK d : d = [p EXCEPT !.at = "answered", !.got = g]
  OBVIOUS
<1>4. /\ d \in Post /\ d.at = "answered" /\ d.got = g /\ d.page = p.page /\ d.token = p.token /\ d.leader = p.leader
      /\ posts' = (posts \ {p}) \cup {d}
  BY <1>2, <1>3 DEF Post, Answer
<1>5. \A r \in posts \ {p} : r.page # p.page
  BY <1>1 DEF Typed, PostsKnown
<1>6. \A u \in Tabs : PageOf(u)' = PageOf(u) /\ tab'[u] = tab[u] /\ request'[u] = request[u]
  BY DEF PageOf
<1>7. PostsKnown'
  <2>1. IsFiniteSet(posts')
    BY <1>1, <1>4, FS_RemoveElement, FS_AddElement DEF Typed, PostsKnown
  <2>2. ASSUME NEW r \in posts \ {p} PROVE PostKnown(r)'
    <3>1. PostKnown(r)
      BY <1>1 DEF Typed, PostsKnown
    <3>2. r.token \in DOMAIN pair' /\ r.got \in Token' /\ (r.got # None => r.got \in DOMAIN pair /\ r.got \in Pairs)
      BY <1>1, <3>1 DEF PostKnown, Token, Grows
    <3>3. r.got # None => pair'[r.got].user = pair'[r.token].user
      BY <3>1, <3>2 DEF PostKnown, Grows
    <3>4. \A u \in Tabs : Current(r, u)' => Current(r, u)
      BY <1>6 DEF Current
    <3> QED BY <1>6, <3>1, <3>2, <3>3, <3>4 DEF PostKnown
  <2>3. PostKnown(d)'
    <3>1. d.token \in DOMAIN pair' /\ d.got \in Token'
      BY <1>2, <1>4 DEF Token, Grows
    <3>2. \A u \in Tabs : Current(d, u)' => Current(p, u)
      BY <1>4, <1>6 DEF Current
    <3>3. d.got # None => pair'[d.got].user = pair'[d.token].user
      BY <1>2, <1>4 DEF Grows
    <3> QED BY <1>2, <1>4, <1>6, <3>1, <3>2, <3>3 DEF PostKnown
  <2> QED BY <1>4, <1>5, <2>1, <2>2, <2>3, <1>1 DEF Typed, PostsKnown
<1>8. StoreTyped(storage)' /\ TabsTyped'
  <2>1. \A s : StoreTyped(s) => StoreTyped(s)'
    BY StoreStays
  <2> QED BY <1>1, <2>1 DEF Typed, TabsTyped, StoreTyped
<1>9. RequestsKnown'
  <2>1. ASSUME NEW u \in Tabs, NEW o \in Calls PROVE RequestKnown(u, o)'
    BY <1>1, RequestStays DEF Typed, RequestsKnown
  <2> QED BY <1>1, <2>1 DEF Typed, RequestsKnown
<1>10. Typed'
  BY <1>1, <1>7, <1>8, <1>9 DEF Typed
<1>11. \A s : StoreTyped(s) /\ Fits(s) => Fits(s)'
  BY <1>1, StoreStays
<1>12. ~spilt' => Fits(storage)'
  BY <1>1, <1>11 DEF ClientInv, Typed, Fits
<1>13. ASSUME NEW t \in Tabs \ late' PROVE PageKnown(t)'
  <2> DEFINE s == tab[t].store
  <2>1. PageKnown(t) /\ StoreTyped(s) /\ (s.refresh # None => s.refresh \in Pairs) /\ t # None
    BY <1>1, <1>13, Values DEF ClientInv, Typed, TabsTyped, StoreTyped, Store
  <2>2. tab'[t].store = s /\ tab'[t].page = tab[t].page /\ PageOf(t)' = PageOf(t)
    BY <1>6
  <2>3. Fits(tab[t].store)'
    BY <1>11, <2>1, <2>2 DEF PageKnown, Fits
  <2>4. \A q \in Calls : Suits(t, q)'
    BY <1>1, <1>6, <2>1, SuitStays DEF PageKnown
  <2>5. \A m \in Pairs : usedBy'[m] = t => usedBy[m] = t \/ (m = p.token /\ p.page.tab = t)
    OBVIOUS
  <2>6. ASSUME p.page.tab = t
        PROVE  Mine(t, d)' /\ \A r \in posts' : r.page.tab = t => r = d
    <3>1. Mine(t, p) /\ \A r \in posts : r.page.tab = t => Current(r, t)
      BY <2>1, <2>6 DEF PageKnown, Mine
    <3>2. \A r \in posts' : r.page.tab = t => r = d
      BY <1>4, <1>5, <3>1 DEF Mine, Current
    <3>3. d.got # None => usedBy'[d.got] # t
      BY <1>4, <2>6
    <3>4. d.page = PageOf(t)' /\ d.token = tab'[t].store.refresh /\ d.at # "sent"
      BY <1>4, <2>2, <3>1 DEF Mine, Current
    <3> QED BY <3>2, <3>3, <3>4 DEF Mine, Current
  <2>7. ASSUME NEW r \in posts', r.page.tab = t PROVE Mine(t, r)'
    <3>1. CASE p.page.tab = t
      BY <2>6, <2>7, <3>1
    <3>2. CASE p.page.tab # t
      <4>1. r \in posts /\ Mine(t, r) /\ PostKnown(r)
        BY <1>1, <1>4, <2>1, <2>7, <3>2 DEF PageKnown, Typed, PostsKnown
      <4>2. r.token \in Pairs /\ (r.got # None => r.got \in Pairs)
        BY <4>1 DEF PostKnown, Post
      <4>3. (r.at = "sent" => usedBy'[r.token] # t) /\ (r.got # None => usedBy'[r.got] # t)
        BY <2>5, <3>2, <4>1, <4>2 DEF Mine
      <4> QED BY <2>2, <4>1, <4>3 DEF Mine, Current
    <3> QED BY <3>1, <3>2
  <2>8. ASSUME s.refresh # None, usedBy'[s.refresh] = t PROVE \E r \in posts' : r.page.tab = t /\ r.at = "answered"
    <3>1. CASE p.page.tab = t
      <4>1. d \in posts' /\ d.page.tab = t /\ d.at = "answered"
        BY <1>4, <3>1
      <4> QED BY <4>1
    <3>2. CASE p.page.tab # t
      <4>1. usedBy[s.refresh] = t
        BY <2>1, <2>5, <2>8, <3>2
      <4>2. PICK w \in posts : w.page.tab = t /\ w.at = "answered"
        BY <2>1, <2>8, <4>1 DEF PageKnown
      <4>3. w \in posts'
        BY <1>4, <3>2, <4>2
      <4> QED BY <4>2, <4>3
    <3> QED BY <3>1, <3>2
  <2>9. tab[t].page = "app" => s.access # None
    BY <2>1 DEF PageKnown
  <2> HIDE DEF s
  <2> QED BY <2>2, <2>3, <2>4, <2>7, <2>8, <2>9 DEF PageKnown
<1> QED BY <1>10, <1>12, <1>13 DEF ClientInv

\* A request that goes out again.
LEMMA Resent ==
  ASSUME NEW r \in Request, NEW n \in Pairs \cup {None}
  PROVE  LET d == Again(r, n) IN
           d \in Request /\ d.at = "sent" /\ d.token = n /\ d.kind = r.kind /\ d.held = r.held
BY DEF Request, Again

\* What becomes of a request when the refresh is over: it stays, it goes out again if it
\* waited or led, or it is a profile that the app now loads.
LEMMA ToldAre ==
  ASSUME Typed, NEW p \in posts, NEW t \in Tabs, request[t][p.leader].at = "leading", p.got \in Pairs,
         NEW told \in Told(t, p), NEW q \in Calls
  PROVE  /\ told \in [Calls -> Request]
         /\ LET r == request[t][q] IN
              \/ told[q] = r
              \/ r.at \in {"queued", "leading"} /\ told[q] = Again(r, p.got)
              \/ r.at = "idle" /\ told[q] = Profile(p.got) /\ tab[t].page = "app"
<1> DEFINE went == [o \in Calls |-> IF o = p.leader THEN Again(request[t][o], p.got)
                                       ELSE Resolved(request[t][o], p.got)]
<1>1. request[t] \in [Calls -> Request]
  BY DEF Typed, RequestsKnown
<1>2. ASSUME NEW o \in Calls
      PROVE  /\ went[o] \in Request
             /\ LET r == request[t][o] IN
                  \/ went[o] = r
                  \/ r.at \in {"queued", "leading"} /\ went[o] = Again(r, p.got) /\ went[o].at = "sent"
  <2>1. PICK r \in Request : r = request[t][o]
    BY <1>1
  <2>2. PICK d : d = Again(r, p.got)
    OBVIOUS
  <2>3. d \in Request /\ d.at = "sent"
    BY <2>2, Resent
  <2>4. went[o] = r \/ (r.at \in {"queued", "leading"} /\ went[o] = d)
    <3>1. went[o] = IF o = p.leader THEN Again(request[t][o], p.got) ELSE Resolved(request[t][o], p.got)
      OBVIOUS
    <3> HIDE DEF went
    <3>2. CASE o = p.leader
      BY <2>1, <2>2, <3>1, <3>2
    <3>3. CASE o # p.leader
      BY <2>1, <2>2, <3>1, <3>3 DEF Resolved
    <3> QED BY <3>2, <3>3
  <2> HIDE DEF went
  <2> QED BY <2>1, <2>2, <2>3, <2>4
<1>3. went \in [Calls -> Request]
  <2>1. went = [o \in Calls |-> went[o]]
    OBVIOUS
  <2> HIDE DEF went
  <2> QED BY <1>2, <2>1
<1>4. Profile(p.got) \in Request
  BY Sent
<1>5. \/ told = went
      \/ \E f \in Calls : went[f].at = "idle" /\ tab[t].page = "app" /\ told = [went EXCEPT ![f] = Profile(p.got)]
  BY DEF Told
<1> HIDE DEF went
<1>6. told \in [Calls -> Request]
  BY <1>3, <1>4, <1>5
<1>7. \/ told[q] = went[q]
      \/ went[q].at = "idle" /\ tab[t].page = "app" /\ told[q] = Profile(p.got)
  BY <1>3, <1>5
<1> QED BY <1>2, <1>6, <1>7

\* The page hears of new tokens.
LEMMA NewTokensKeep ==
  ASSUME ClientInv, NEW p \in posts, NEW t \in Tabs, Current(p, t), p.got # None, posts' = posts \ {p},
         LET s == NewTokens(tab[t].store, p.got) IN
           tab' = [tab EXCEPT ![t].store = s, ![t].refreshing = FALSE] /\ storage' = s,
         NEW told \in Told(t, p), request' = [request EXCEPT ![t] = told], spilt' = (t \in late),
         UNCHANGED <<pair, usedBy, late, breaks>>
  PROVE  ClientInv'
<1> DEFINE s == tab[t].store
<1>1. /\ Typed /\ PairsTyped /\ Grows /\ LoginsLast /\ late' \subseteq Tabs /\ Token' = Token /\ breaks' \in 0..MaxBreaks
      /\ request \in [Tabs -> [Calls -> Request]] /\ tab \in [Tabs -> Tab] /\ StoreTyped(s) /\ s \in Store
      /\ tab[t].page \in {"login", "app"}
  BY TokensStay DEF ClientInv, Typed, RequestsKnown, TabsTyped, Token, StoreTyped, Tab
<1>2. /\ PostKnown(p) /\ p \in Post /\ p.token \in DOMAIN pair /\ p.got \in DOMAIN pair /\ p.got \in Pairs
      /\ p.leader \in Calls /\ request[t][p.leader].at = "leading" /\ p.page = PageOf(t)
      /\ pair[p.got].user = pair[p.token].user /\ p.page.tab = t
  BY <1>1 DEF Typed, PostsKnown, PostKnown, Post, Token, Current, PageOf
<1>3. PICK n : n = NewTokens(s, p.got)
  OBVIOUS
<1>4. n \in Store /\ n.access = p.got /\ n.refresh = p.got /\ n.user = s.user
  BY <1>1, <1>2, <1>3 DEF NewTokens, Store
<1>5. /\ tab' \in [Tabs -> Tab] /\ tab'[t].store = n /\ tab'[t].refreshing = FALSE /\ tab'[t].page = tab[t].page
      /\ \A u \in Tabs : PageOf(u)' = PageOf(u) /\ (u # t => tab'[u] = tab[u])
  <2>1. tab' = [tab EXCEPT ![t].store = n, ![t].refreshing = FALSE]
    BY <1>3
  <2>2. tab' \in [Tabs -> Tab]
    <3>1. PICK v : v = [tab EXCEPT ![t].store = n]
      OBVIOUS
    <3>2. v \in [Tabs -> Tab]
      BY <1>1, <1>4, <3>1 DEF Tab
    <3>3. tab' = [v EXCEPT ![t].refreshing = FALSE]
      BY <1>1, <2>1, <3>1
    <3> QED BY ZenonT(60), <3>2, <3>3 DEF Tab
  <2>3. /\ tab'[t].store = n /\ tab'[t].refreshing = FALSE /\ tab'[t].page = tab[t].page /\ tab'[t].load = tab[t].load
        /\ \A u \in Tabs \ {t} : tab'[u] = tab[u]
    BY <1>1, <2>1 DEF Tab
  <2>4. \A u \in Tabs : PageOf(u)' = PageOf(u)
    BY <2>3 DEF PageOf
  <2> QED BY <2>2, <2>3, <2>4
<1>6. storage' = n /\ StoreTyped(storage)' /\ StoreTyped(tab[t].store)'
  BY <1>1, <1>2, <1>3, <1>4, <1>5 DEF StoreTyped, Token
<1>7. told \in [Calls -> Request]
  BY <1>1, <1>2, ToldAre
<1>8. /\ request' \in [Tabs -> [Calls -> Request]] /\ request'[t] = told
      /\ \A u \in Tabs \ {t} : tab'[u] = tab[u] /\ request'[u] = request[u]
  BY <1>1, <1>5, <1>7
<1>9. ASSUME NEW o \in Calls PROVE RequestKnown(t, o)' /\ (t \notin late => Suits(t, o)')
  <2>1. PICK r \in Request : r = request[t][o]
    BY <1>1
  <2>2. RequestKnown(t, o)
    BY <1>1 DEF Typed, RequestsKnown
  <2>3. \/ told[o] = r
        \/ r.at \in {"queued", "leading"} /\ told[o] = Again(r, p.got)
        \/ r.at = "idle" /\ told[o] = Profile(p.got) /\ tab[t].page = "app"
    BY <1>1, <1>2, <2>1, ToldAre
  <2>4. PICK d : d = told[o]
    OBVIOUS
  <2>5. /\ d \in Request /\ request'[t][o] = d
        /\ \/ d = r
           \/ /\ r.at \in {"queued", "leading"} /\ d.at = "sent" /\ d.token = p.got /\ d.kind = r.kind /\ d.held = r.held
           \/ /\ r.at = "idle" /\ d.at = "sent" /\ d.kind = "route" /\ d.token = p.got /\ d.held = p.got
              /\ tab[t].page = "app"
    <3>1. CASE told[o] = r
      BY <1>8, <2>4, <3>1
    <3>2. CASE r.at \in {"queued", "leading"} /\ told[o] = Again(r, p.got)
      <4>1. p.got \in Pairs \cup {None}
        BY <1>2
      <4>2. LET e == Again(r, p.got) IN
              e \in Request /\ e.at = "sent" /\ e.token = p.got /\ e.kind = r.kind /\ e.held = r.held
        BY <4>1, Resent
      <4>3. d = Again(r, p.got)
        BY <2>4, <3>2
      <4>4. d \in Request /\ d.at = "sent" /\ d.token = p.got /\ d.kind = r.kind /\ d.held = r.held
        BY <4>2, <4>3
      <4> QED BY <1>8, <2>4, <3>2, <4>4
    <3>3. CASE r.at = "idle" /\ told[o] = Profile(p.got) /\ tab[t].page = "app"
      <4>1. p.got \in Pairs \cup {None}
        BY <1>2
      <4>2. LET e == Profile(p.got) IN
              e \in Request /\ e.at = "sent" /\ e.kind = "route" /\ ~e.retry /\ e.token = p.got /\ e.held = p.got
        BY <4>1, Sent
      <4>3. d \in Request /\ d.at = "sent" /\ d.kind = "route" /\ d.token = p.got /\ d.held = p.got
        BY <2>4, <3>3, <4>2
      <4> QED BY <1>8, <2>4, <3>3, <4>3
    <3> QED BY <2>3, <3>1, <3>2, <3>3
  <2>6. RequestKnown(t, o)'
    <3>1. CASE d = r
      <4>1. request'[t][o] = request[t][o]
        BY <2>1, <2>5, <3>1
      <4> QED BY <1>1, <2>2, <4>1, RequestStays
    <3>2. CASE r.at \in {"queued", "leading"} /\ d.at = "sent" /\ d.token = p.got /\ d.kind = r.kind /\ d.held = r.held
      <4>1. d.kind # "login" /\ d.held \in Token /\ (d.kind = "route" => d.held \in DOMAIN pair)
        BY <2>1, <2>2, <3>2 DEF RequestKnown
      <4>2. d.token \in Token' /\ d.token \in DOMAIN pair'
        BY <1>1, <1>2, <3>2 DEF Token
      <4> QED BY <1>1, <2>5, <3>2, <4>1, <4>2 DEF RequestKnown
    <3>3. CASE r.at = "idle" /\ d.at = "sent" /\ d.kind = "route" /\ d.token = p.got /\ d.held = p.got
      <4>1. d.token \in Token' /\ d.token \in DOMAIN pair'
        BY <1>1, <1>2, <3>3 DEF Token
      <4> QED BY <2>5, <3>3, <4>1 DEF RequestKnown
    <3> QED BY <2>5, <3>1, <3>2, <3>3
  <2>7. ASSUME t \notin late PROVE Suits(t, o)'
    <3>1. Suits(t, o) /\ Mine(t, p)
      BY <1>2, <2>7 DEF ClientInv, PageKnown
    <3>2. pair[p.got].user = pair[s.refresh].user
      BY <1>2, <3>1 DEF Mine
    <3>3. d.kind = "route" => pair[d.token].user = pair[p.got].user /\ pair[d.held].user = pair[p.got].user
      BY <2>1, <2>5, <3>1, <3>2 DEF Suits
    <3>4. request'[t][o] = d /\ tab'[t].store.refresh = p.got /\ p.got # None
      BY <1>4, <1>5, <2>5, <1>1, <1>2, Numbers
    <3> QED BY <3>3, <3>4 DEF Suits
  <2> QED BY <2>6, <2>7
<1>10. \A r \in posts' : ~Current(r, t) /\ ~Current(r, t)'
  BY <1>1, <1>2, <1>5 DEF Typed, PostsKnown, Current
<1>11. PostsKnown'
  <2>1. IsFiniteSet(posts')
    BY <1>1, FS_RemoveElement DEF Typed, PostsKnown
  <2>2. ASSUME NEW r \in posts' PROVE PostKnown(r)'
    <3>1. PostKnown(r)
      BY <1>1 DEF Typed, PostsKnown
    <3>2. ASSUME NEW u \in Tabs, Current(r, u)' PROVE tab'[u].refreshing /\ request'[u][r.leader].at = "leading"
      <4>1. u # t
        BY <1>10, <3>2
      <4>2. Current(r, u)
        BY <1>5, <3>2 DEF Current
      <4> QED BY <1>8, <3>1, <4>1, <4>2 DEF PostKnown
    <3> QED BY <1>1, <3>1, <3>2 DEF PostKnown
  <2> QED BY <1>1, <2>1, <2>2 DEF Typed, PostsKnown
<1>12. ASSUME t \notin late' PROVE Fits(storage)' /\ PageKnown(t)'
  <2>1. PageKnown(t) /\ Fits(s) /\ Mine(t, p) /\ \A r \in posts : r.page.tab = t => Current(r, t)
    BY <1>2, <1>12 DEF ClientInv, PageKnown, Mine
  <2>2. p.token # None /\ p.got # None /\ p.token = s.refresh /\ usedBy[p.got] # t
    BY <1>1, <1>2, <2>1, Numbers DEF Mine
  <2>3. Fits(n)'
    BY <1>2, <1>4, <2>1, <2>2 DEF Fits
  <2>4. Fits(storage)' /\ Fits(tab[t].store)'
    BY <1>5, <1>6, <2>3 DEF Fits
  <2>5. tab'[t].page = "app" => tab'[t].store.access # None
    BY <1>4, <1>5, <2>2
  <2>6. tab'[t].store.refresh # None => usedBy'[tab'[t].store.refresh] # t
    BY <1>4, <1>5, <2>2
  <2>7. \A r \in posts' : r.page.tab # t
    BY <1>10, <2>1
  <2>8. \A o \in Calls : Suits(t, o)'
    BY <1>9, <1>12
  <2> QED BY <2>4, <2>5, <2>6, <2>7, <2>8, TabKnown
<1>13. \A r : r.page.tab # t => (r \in posts' <=> r \in posts)
  BY <1>2
<1>14. spilt' \in BOOLEAN /\ (~spilt' => t \notin late') /\ \A u \in Tabs \ {t} : u \in late => u \in late'
  <2>1. spilt' = (t \in late)
    OBVIOUS
  <2>2. late' = late
    OBVIOUS
  <2>3. spilt' \in BOOLEAN
    BY <2>1
  <2> QED BY <2>1, <2>2, <2>3
<1>15. ~spilt' => Fits(storage)'
  BY <1>12, <1>14
<1> QED BY <1>1, <1>5, <1>6, <1>8, <1>9, <1>11, <1>12, <1>13, <1>14, <1>15, OneTab

\* The answer of a refresh whose page is gone changes nothing.
LEMMA NobodyTold ==
  ASSUME ClientInv, NEW p \in posts, p.page # PageOf(p.page.tab), posts' = posts \ {p},
         UNCHANGED <<pair, usedBy, storage, tab, request, late, spilt, breaks>>
  PROVE  ClientInv'
<1> DEFINE t == p.page.tab
<1>1. /\ Typed /\ Grows /\ LoginsLast /\ Token' = Token /\ t \in Tabs /\ late' \subseteq Tabs /\ breaks' \in 0..MaxBreaks
  BY TokensStay DEF ClientInv, Typed, PostsKnown, PostKnown, Post, Page, Token
<1>2. \A u \in Tabs : PageOf(u)' = PageOf(u) /\ tab'[u] = tab[u] /\ request'[u] = request[u] /\ ~Current(p, u)
  BY DEF PageOf, Current
<1>3. PostsKnown'
  <2>1. IsFiniteSet(posts')
    BY <1>1, FS_RemoveElement DEF Typed, PostsKnown
  <2>2. ASSUME NEW r \in posts' PROVE PostKnown(r)'
    <3>1. PostKnown(r)
      BY <1>1 DEF Typed, PostsKnown
    <3>2. \A u \in Tabs : Current(r, u)' => Current(r, u)
      BY <1>2 DEF Current
    <3> QED BY <1>1, <1>2, <3>1, <3>2 DEF PostKnown
  <2> QED BY <1>1, <2>1, <2>2 DEF Typed, PostsKnown
<1>4. StoreTyped(storage)' /\ TabsTyped' /\ RequestsKnown'
  <2>1. \A s : StoreTyped(s) => StoreTyped(s)'
    BY <1>1, StoreStays
  <2>2. \A u \in Tabs, o \in Calls : RequestKnown(u, o)'
    BY <1>1, <1>2, RequestStays DEF Typed, RequestsKnown
  <2> QED BY <1>1, <2>1, <2>2 DEF Typed, TabsTyped, StoreTyped, RequestsKnown
<1>5. ASSUME NEW u \in Tabs \ late' PROVE PageKnown(u)'
  <2>1. PageKnown(u)
    BY <1>5 DEF ClientInv
  <2>2. \A r \in posts : r.page.tab = u => Current(r, u)
    BY <2>1 DEF PageKnown, Mine
  <2>3. \A r : r.page.tab = u => (r \in posts' <=> r \in posts)
    BY <1>2, <2>2
  <2> QED BY <1>1, <1>2, <2>1, <2>3, PageStays
<1>6. ~spilt' => Fits(storage)'
  BY DEF ClientInv, Fits
<1> QED BY <1>1, <1>3, <1>4, <1>5, <1>6 DEF ClientInv, Typed, Grows

\* The answer of a refresh is received.
LEMMA ReceivePostKeeps ==
  ASSUME ClientInv, NEW p \in posts, ReceivePost(p)
  PROVE  ClientInv'
<1>1. PICK t : t = p.page.tab
  OBVIOUS
<1>2. /\ Typed /\ t \in Tabs /\ breaks' \in 0..MaxBreaks
      /\ posts' = posts \ {p} /\ UNCHANGED <<pair, usedBy, breaks>>
  BY <1>1 DEF ClientInv, Typed, PostsKnown, PostKnown, Post, Page, ReceivePost
<1>3. CASE p.page # PageOf(p.page.tab)
  BY <1>2, <1>3, NobodyTold DEF ReceivePost
<1>4. CASE p.page = PageOf(p.page.tab) /\ p.got = None
  <2>1. StoreTyped(SignedOut)
    BY DEF StoreTyped, Store, Token, SignedOut
  <2>2. Loads(t, SignedOut, FALSE)
    BY <1>1, <1>4 DEF ReceivePost, Cleared
  <2>3. posts' \subseteq posts /\ \A r : r.page.tab # t => (r \in posts' <=> r \in posts)
    BY <1>1, <1>2
  <2> QED BY <1>2, <2>1, <2>2, <2>3, LoadsKeeps
<1>5. CASE p.page = PageOf(p.page.tab) /\ p.got # None
  <2>1. /\ LET s == NewTokens(tab[t].store, p.got) IN
             tab' = [tab EXCEPT ![t].store = s, ![t].refreshing = FALSE] /\ storage' = s
        /\ spilt' = (t \in late) /\ late' = late
        /\ \E told \in Told(t, p) : request' = [request EXCEPT ![t] = told]
    BY <1>1, <1>5 DEF ReceivePost, Persisted
  <2>2. PICK told \in Told(t, p) : request' = [request EXCEPT ![t] = told]
    BY <2>1
  <2>3. Current(p, t)
    BY <1>1, <1>5 DEF Current
  <2> QED BY <1>2, <1>5, <2>1, <2>2, <2>3, NewTokensKeep
<1> QED BY <1>3, <1>4, <1>5

\* The server answers a refresh.
LEMMA ServePostKeeps ==
  ASSUME ClientInv, NEW p \in posts, ServePost(p)
  PROVE  ClientInv'
<1>1. PICK n : n = p.token
  OBVIOUS
<1>2. /\ Typed /\ PairsTyped /\ breaks' \in 0..MaxBreaks /\ UNCHANGED <<storage, tab, request, late, spilt, breaks>>
      /\ p \in Post /\ n \in DOMAIN pair /\ n \in Pairs /\ p.page.tab \in Tabs /\ p.page.tab # None
  BY <1>1, Values DEF ClientInv, Typed, PostsKnown, PostKnown, Post, Page, ServePost
<1>3. /\ DOMAIN pair = 1..Len(pair) /\ Len(pair) \in Nat /\ None \notin DOMAIN pair /\ DOMAIN pair \subseteq Pairs
      /\ \A m \in DOMAIN pair : pair[m] \in PairRow
      /\ usedBy \in [Pairs -> Tabs \cup {None}] /\ (\A m \in Pairs : usedBy[m] # None => m \in DOMAIN pair)
      /\ MaxPairs \in Nat /\ None \notin Pairs /\ Len(pair) <= MaxPairs
  BY <1>2, Numbers, Values DEF PairsTyped
<1>4. CASE pair[n].refresh = "unused"
  <2>1. usedBy' = [usedBy EXCEPT ![n] = p.page.tab]
    BY <1>1, <1>4 DEF ServePost
  <2>2. usedBy' \in [Pairs -> Tabs \cup {None}] /\ (\A m \in Pairs : usedBy'[m] # None => m \in DOMAIN pair)
        /\ \A m \in Pairs : usedBy'[m] = usedBy[m] \/ (m = p.token /\ usedBy'[m] = p.page.tab)
    BY <1>1, <1>2, <1>3, <2>1
  <2>3. PICK b : b = [pair EXCEPT ![n].refresh = "used"]
    OBVIOUS
  <2>4. /\ b \in Seq(PairRow) /\ Len(b) = Len(pair) /\ DOMAIN b = DOMAIN pair
        /\ \A m \in DOMAIN pair : b[m].user = pair[m].user /\ b[m].access = pair[m].access
    BY <1>2, <2>3, RowsAre
  <2>5. CASE Len(pair) < MaxPairs /\ pair' = Append(b, Fresh(pair[n].user)) /\ Answer(p, Len(pair) + 1)
    <3>1. Fresh(pair[n].user) \in PairRow
      BY <1>2, <1>3 DEF Fresh, PairRow
    <3>2. /\ pair' \in Seq(PairRow) /\ Len(pair') = Len(pair) + 1 /\ DOMAIN pair' = 1..(Len(pair) + 1)
          /\ \A m \in DOMAIN pair : pair'[m] = b[m]
          /\ pair'[Len(pair) + 1] = Fresh(pair[n].user)
      BY <1>3, <2>4, <2>5, <3>1
    <3>3. Len(pair) + 1 \in Pairs /\ Len(pair) + 1 \notin DOMAIN pair /\ Len(pair) + 1 \in DOMAIN pair' /\ DOMAIN pair \subseteq DOMAIN pair'
      BY <1>3, <2>5, <3>2 DEF Pairs
    <3>4. PairsTyped'
      BY <1>3, <2>2, <2>5, <3>2, <3>3 DEF PairsTyped
    <3>5. Grows /\ LoginsLast
      BY <1>2, <2>4, <3>2, <3>3, <3>4, RowsStay
    <3>6. usedBy'[Len(pair) + 1] # p.page.tab /\ pair'[Len(pair) + 1].user = pair[p.token].user
      BY <1>1, <1>2, <1>3, <2>2, <3>2, <3>3 DEF Fresh
    <3>7. PICK g \in Pairs : g = Len(pair) + 1
      BY <3>3
    <3>8. Answer(p, g) /\ g \in Pairs \cup {None} /\ g \in DOMAIN pair' /\ usedBy'[g] # p.page.tab /\ pair'[g].user = pair[p.token].user
      BY <2>5, <3>3, <3>6, <3>7
    <3> QED BY <1>2, <2>2, <3>5, <3>8, AnswerKeeps
  <2>6. CASE pair' = b /\ Answer(p, None)
    <3>1. PairsTyped'
      BY <1>3, <2>2, <2>4, <2>6 DEF PairsTyped
    <3>2. Grows /\ LoginsLast
      BY <1>2, <2>4, <2>6, <3>1, RowsStay
    <3> QED BY <1>2, <2>2, <2>6, <3>2, AnswerKeeps
  <2> QED BY <1>1, <1>4, <2>3, <2>5, <2>6 DEF ServePost
<1>5. CASE pair[n].refresh = "used"
  <2>1. /\ pair' = [m \in DOMAIN pair |-> IF pair[m].user = pair[n].user
                                          THEN [pair[m] EXCEPT !.refresh = "gone"] ELSE pair[m]]
        /\ Answer(p, None) /\ UNCHANGED usedBy
    BY <1>1, <1>5 DEF ServePost
  <2>2. /\ pair' \in Seq(PairRow) /\ Len(pair') = Len(pair) /\ DOMAIN pair' = DOMAIN pair
        /\ \A m \in DOMAIN pair : pair'[m].user = pair[m].user /\ pair'[m].access = pair[m].access
    BY <1>2, <2>1, RowsAre
  <2>3. PairsTyped'
    BY <1>3, <2>1, <2>2 DEF PairsTyped
  <2>4. Grows /\ LoginsLast
    BY <1>2, <2>2, <2>3, RowsStay
  <2> QED BY <1>2, <2>1, <2>4, AnswerKeeps
<1>6. CASE pair[n].refresh = "gone"
  <2>1. Answer(p, None) /\ UNCHANGED <<pair, usedBy>>
    BY <1>1, <1>6 DEF ServePost
  <2>2. Grows /\ LoginsLast
    BY <1>2, <2>1, TokensStay
  <2> QED BY <1>2, <2>1, <2>2, AnswerKeeps
<1> QED BY <1>2, <1>3, <1>4, <1>5, <1>6 DEF PairRow

\* The answer of a refresh is lost.
LEMMA LosePostKeeps ==
  ASSUME ClientInv, NEW p \in posts, LosePost(p)
  PROVE  ClientInv'
<1>1. Typed /\ breaks' \in 0..MaxBreaks /\ Answer(p, None) /\ UNCHANGED <<pair, usedBy, storage, tab, request, late, spilt>>
  BY Values DEF ClientInv, Typed, LosePost, Break
<1>2. Grows /\ LoginsLast
  BY <1>1, TokensStay
<1> QED BY <1>1, <1>2, AnswerKeeps

\* A step that changes only rows of pairs, and no user or access token of a login.
LEMMA OnlyRows ==
  ASSUME ClientInv, Grows, LoginsLast, UNCHANGED <<usedBy, storage, tab, request, posts, late, spilt, breaks>>
  PROVE  ClientInv'
<1>1. Typed /\ PairsTyped'
  BY DEF ClientInv, Grows
<1>2. \A u \in Tabs : PageOf(u)' = PageOf(u) /\ tab'[u] = tab[u] /\ request'[u] = request[u]
  BY DEF PageOf
<1>3. PostsKnown'
  <2>1. \A p \in posts : PostKnown(p)'
    BY <1>1, <1>2, PostStays DEF Typed, PostsKnown
  <2> QED BY <1>1, <2>1 DEF Typed, PostsKnown
<1>4. StoreTyped(storage)' /\ TabsTyped' /\ RequestsKnown'
  <2>1. \A s : StoreTyped(s) => StoreTyped(s)'
    BY <1>1, StoreStays
  <2>2. \A u \in Tabs, o \in Calls : RequestKnown(u, o)'
    BY <1>1, <1>2, RequestStays DEF Typed, RequestsKnown
  <2> QED BY <1>1, <2>1, <2>2 DEF Typed, TabsTyped, StoreTyped, RequestsKnown
<1>5. ASSUME NEW u \in Tabs \ late' PROVE PageKnown(u)'
  BY <1>1, <1>2, <1>5, PageStays DEF ClientInv
<1>6. ~spilt' => Fits(storage)'
  <2>1. \A s : StoreTyped(s) /\ Fits(s) => Fits(s)'
    BY <1>1, StoreStays DEF Typed
  <2> QED BY <1>1, <2>1 DEF ClientInv, Typed, Fits
<1> QED BY <1>1, <1>3, <1>4, <1>5, <1>6 DEF ClientInv, Typed

\* An access token expires, or the server forgets a token that was used.
LEMMA TimeKeeps ==
  ASSUME ClientInv, NEW n \in Pairs, ExpireAccess(n) \/ ForgetUsed(n)
  PROVE  ClientInv'
<1>1. Typed /\ PairsTyped /\ UNCHANGED <<usedBy, storage, tab, request, posts, late, spilt, breaks>> /\ n \in DOMAIN pair
  BY DEF ClientInv, Typed, ExpireAccess, ForgetUsed
<1>2. CASE ExpireAccess(n)
  <2>1. /\ pair' \in Seq(PairRow) /\ Len(pair') = Len(pair) /\ DOMAIN pair' = DOMAIN pair
        /\ \A m \in DOMAIN pair : pair'[m].user = pair[m].user /\ (m # n => pair'[m] = pair[m])
    <3>1. pair' = [pair EXCEPT ![n].access = FALSE]
      BY <1>2 DEF ExpireAccess
    <3> QED BY <1>1, <3>1, RowsAre
  <2>2. PairsTyped'
    BY <1>1, <2>1 DEF PairsTyped
  <2>3. LoginsLast
    <3>1. \A t \in Tabs, q \in Calls :
            request[t][q].kind \in {"password", "login"} => n \notin {request[t][q].held, request[t][q].answer}
      BY <1>2 DEF ExpireAccess
    <3>2. ASSUME NEW t \in Tabs, NEW q \in Calls PROVE RequestKnown(t, q)
      BY <1>1 DEF Typed, RequestsKnown
    <3> QED BY <2>1, <3>1, <3>2 DEF LoginsLast, RequestKnown
  <2> QED BY <1>1, <2>1, <2>2, <2>3, OnlyRows DEF Grows
<1>3. CASE ForgetUsed(n)
  <2>1. /\ pair' \in Seq(PairRow) /\ Len(pair') = Len(pair) /\ DOMAIN pair' = DOMAIN pair
        /\ \A m \in DOMAIN pair : pair'[m].user = pair[m].user /\ pair'[m].access = pair[m].access
    <3>1. pair' = [pair EXCEPT ![n].refresh = "gone"]
      BY <1>3 DEF ForgetUsed
    <3> QED BY <1>1, <3>1, RowsAre
  <2>2. PairsTyped'
    BY <1>1, <2>1 DEF PairsTyped
  <2> QED BY <1>1, <2>1, <2>2, RowsStay, OnlyRows
<1> QED BY <1>2, <1>3

-----------------------------------------------------------------------------

\* Nobody is signed in at first.
LEMMA InitIsRight ==
  ASSUME WebInit
  PROVE  ClientInv
<1>1. PairsTyped
  BY Values DEF WebInit, PairsTyped
<1>2. StoreTyped(SignedOut) /\ Fits(SignedOut) /\ SignedOut.refresh = None /\ SignedOut.user = None /\ SignedOut \in Store
  BY DEF StoreTyped, Store, Token, SignedOut, Fits
<1>3. \A t \in Tabs : tab[t].store = SignedOut /\ tab[t].refreshing = FALSE /\ tab[t].page = "login" /\ tab[t].load = 1
  BY DEF WebInit
<1>4. TabsTyped
  BY <1>2 DEF WebInit, TabsTyped, Tab
<1>5. \A t \in Tabs, q \in Calls : request[t][q] = Idle
  BY DEF WebInit
<1>6. Idle \in Request
  BY DEF Idle, Request
<1>7. RequestsKnown
  <2>1. request \in [Tabs -> [Calls -> Request]]
    BY <1>6 DEF WebInit
  <2>2. ASSUME NEW t \in Tabs, NEW q \in Calls PROVE RequestKnown(t, q)
    <3>1. request[t][q] = Idle
      BY <1>5
    <3> QED BY <1>6, <3>1 DEF Idle, RequestKnown, Token
  <2> QED BY <2>1, <2>2 DEF RequestsKnown
<1>8. PostsKnown
  BY FS_EmptySet DEF WebInit, PostsKnown
<1>9. ASSUME NEW t \in Tabs PROVE PageKnown(t)
  <2>1. \A q \in Calls : Suits(t, q)
    BY <1>3, <1>5 DEF Idle, Suits
  <2>2. posts = {}
    BY DEF WebInit
  <2> QED BY <1>2, <1>3, <2>1, <2>2 DEF PageKnown
<1>10. storage = SignedOut /\ posts = {} /\ late = {} /\ spilt = FALSE /\ breaks \in 0..MaxBreaks
  BY Values DEF WebInit
<1> QED BY <1>1, <1>2, <1>4, <1>7, <1>8, <1>9, <1>10 DEF ClientInv, Typed

\* Every step of a tab, of the server and of time keeps the invariant.
LEMMA StepIsRight ==
  ASSUME ClientInv, [WebNext]_webVars
  PROVE  ClientInv'
<1>1. CASE WebNext
  <2>1. ASSUME NEW t \in Tabs, Logout(t) \/ Visit(t) \/ LeaveApp(t) \/ EnterApp(t) PROVE ClientInv'
    BY <2>1, LogoutKeeps, VisitKeeps, LeaveAppKeeps, EnterAppKeeps
  <2>2. ASSUME NEW t \in Tabs, NEW q \in Calls, Send(t, q) \/ SendPassword(t, q) \/ GoesOn(t, q) \/ Lose(t, q)
        PROVE  ClientInv'
    BY <2>2, SendKeeps, SendPasswordKeeps, ServeKeeps, ReceiveOkKeeps, ReceiveDeniedKeeps, LoseKeeps DEF GoesOn
  <2>3. ASSUME NEW p \in posts, ServePost(p) \/ ReceivePost(p) \/ LosePost(p) PROVE ClientInv'
    BY <2>3, ServePostKeeps, ReceivePostKeeps, LosePostKeeps
  <2>4. ASSUME NEW n \in Pairs, ExpireAccess(n) \/ ForgetUsed(n) PROVE ClientInv'
    BY <2>4, TimeKeeps
  <2> QED BY <1>1, <2>1, <2>2, <2>3, <2>4 DEF WebNext
<1>2. CASE UNCHANGED webVars
  <2>1. Grows /\ LoginsLast
    BY <1>2, TokensStay DEF ClientInv, webVars
  <2> QED BY <1>2, <2>1, OnlyRows DEF webVars
<1> QED BY <1>1, <1>2

\* The invariant holds of every behaviour.
LEMMA ClientIsRight == WebSpec => []ClientInv
BY InitIsRight, StepIsRight, PTL DEF WebSpec

\* The variables have their types, and the tokens of a tab are those of the user it shows,
\* while nothing can reach it that is not of its session: whatever answers, refreshes,
\* reloads and logins cross.
THEOREM TabsShowTheirUser == WebSpec => []SessionInv
<1>1. ASSUME ClientInv PROVE WebTypeOK
  <2>1. /\ \A t \in Tabs : tab[t].store \in Store /\ tab[t].refreshing \in BOOLEAN /\ tab[t].page \in {"login", "app"}
        /\ \A t \in Tabs, q \in Calls : request[t][q] \in Request
    BY <1>1 DEF ClientInv, Typed, TabsTyped, Tab, RequestsKnown, RequestKnown
  <2>2. \A p \in posts : p.leader \in Calls /\ p.token \in Pairs /\ p.got \in Pairs \cup {None}
    BY <1>1 DEF ClientInv, Typed, PostsKnown, PostKnown, Post
  <2>3. pair \in Seq(PairRow) /\ storage \in Store /\ late \subseteq Tabs /\ spilt \in BOOLEAN /\ breaks \in 0..MaxBreaks
    BY <1>1 DEF ClientInv, Typed, PairsTyped, StoreTyped
  <2> QED BY <2>1, <2>2, <2>3 DEF WebTypeOK, Request, PairRow
<1>2. ASSUME ClientInv PROVE OwnTokens
  BY <1>2 DEF ClientInv, PageKnown, Fits, OwnTokens
<1>3. ClientInv => SessionInv
  BY <1>1, <1>2 DEF SessionInv
<1> QED BY <1>3, ClientIsRight, PTL

\* A page has at most one refresh under way, however many of its requests are denied.
THEOREM RefreshesAreAlone == WebSpec => []OneRefresh
<1>1. ASSUME ClientInv PROVE OneRefresh
  <2>1. ASSUME NEW t \in Tabs PROVE Cardinality({p \in posts : p.page = PageOf(t)}) <= 1
    <3> DEFINE mine == {p \in posts : p.page = PageOf(t)}
    <3>1. \A p, r \in mine : p = r
      BY <1>1 DEF ClientInv, Typed, PostsKnown
    <3>2. CASE mine = {}
      BY <3>2, FS_EmptySet
    <3>3. CASE mine # {}
      <4>1. PICK p : mine = {p}
        BY <3>1, <3>3
      <4>2. Cardinality({p}) = 1
        BY FS_Singleton
      <4> QED BY <4>1, <4>2
    <3> QED BY <3>2, <3>3
  <2> QED BY <2>1 DEF OneRefresh
<1> QED BY <1>1, ClientIsRight, PTL

\* No tab presents a refresh token that it exchanged itself, before a reload or after,
\* while nothing can reach it that is not of its session.
THEOREM TokensArePresentedOnce == WebSpec => []NoReuse
<1>1. ClientInv => NoReuse
  <2>1. ASSUME ClientInv, NEW p \in posts, p.at = "sent", p.page.tab \notin late PROVE usedBy[p.token] # p.page.tab
    <3>1. p.page.tab \in Tabs
      BY <2>1 DEF ClientInv, Typed, PostsKnown, PostKnown, Post, Page
    <3> QED BY <2>1, <3>1 DEF ClientInv, PageKnown, Mine
  <2> QED BY <2>1 DEF NoReuse
<1> QED BY <1>1, ClientIsRight, PTL
=============================================================================
