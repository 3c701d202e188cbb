----------------------------- MODULE IssueDrawer -----------------------------
(***************************************************************************)
(* The drawer that shows one issue of a board (apps/web, features/board/   *)
(* IssueDetailDrawer.tsx): its queries of the issue and of its comments,   *)
(* the description, whose textarea the page does not control, and the      *)
(* requests it sends, among those of other people.                         *)
(* Every event reaches the client unless the model loses it: BoardPresence *)
(* says when it does.                                                      *)
(*                                                                         *)
(* Of an issue the model keeps the description and the status, which moves *)
(* of the card change.  The other fields that are sent on blur are left    *)
(* out: nothing keeps the inputs of the story points and of the due date   *)
(* in step with the issue, and the title is trimmed first.  Of the         *)
(* comments the model keeps the number, and of the text box for a new one  *)
(* that it can be sent.                                                    *)
(***************************************************************************)
EXTENDS Integers, FiniteSets

CONSTANTS
  Cards,       \* issues whose drawer is opened
  Discussed,   \* those whose comments the model has
  Texts,       \* descriptions, numbers
  NoText,      \* no data, no issue; no textarea on the page
  NoCardOpen,  \* the drawer is closed
  Posts,       \* requests under way at a time
  MaxPosts,    \* bound: requests of this client and of others, in all
  MaxEdits,    \* bound: times the user types
  MaxVisits,   \* bound: times the drawer or its other tab is opened
  MaxLosses    \* bound: events, fetches and boards lost, in all

VARIABLES
  stored,    \* query -> what the database has
  query,     \* query -> the client's cache
  drawer,    \* the component
  post,      \* request -> NoText or what it asks
  news,      \* queries an event under way invalidates
  posted, edits, visits, losses   \* counters of the bounds

drawerVars == <<stored, query, drawer, post, news, posted, edits, visits, losses>>

\* The query keys ['issue', i] and ['comments', i].
Issue(i)    == <<"issue", i>>
Comments(i) == <<"comments", i>>
Keys == {Issue(i) : i \in Cards} \cup {Comments(i) : i \in Discussed}

\* What the database and a query have.  content: the issue's description; the number
\* of its comments.  status: the issue's; of comments nothing.
Content == [content : Nat, status : Nat]
Values == Content \cup {NoText}

Text(v) == IF v = NoText THEN NoText ELSE v.content
Blank == [content |-> 0, status |-> 0]

\* due: isInvalidated.  lost: history: nothing will tell that the data is old.
Query == [data : Values, fetch : {"none", "sent", "served"}, carry : Values,
          due : BOOLEAN, lost : BOOLEAN]

\* sent: history: what the description box has last sent.
Drawer == [open : Cards \cup {NoCardOpen}, tab : {"comments", "changelog"}, box : Texts \cup {NoText},
           focus : BOOLEAN, sent : Texts \cup {NoText}]

Post == [kind : {"issue", "comments"}, issue : Cards, text : Texts \cup {NoText},
         state : {"sent", "done", "refused"}]

ASSUME DrawerAssumption ==
  /\ Discussed \subseteq Cards
  /\ 0 \in Texts /\ Texts \subseteq Nat /\ NoText \notin Nat \cup Content \cup Post /\ NoCardOpen \notin Cards
  /\ MaxPosts \in Nat /\ MaxEdits \in Nat /\ MaxVisits \in Nat /\ MaxLosses \in Nat

Unfetched == [data |-> NoText, fetch |-> "none", carry |-> NoText, due |-> FALSE, lost |-> FALSE]
Closed == [open |-> NoCardOpen, tab |-> "comments", box |-> NoText, focus |-> FALSE,
           sent |-> NoText]

DrawerInit ==
  /\ stored = [k \in Keys |-> Blank]
  /\ query = [k \in Keys |-> Unfetched]
  /\ drawer = Closed
  /\ post = [p \in Posts |-> NoText]
  /\ news = {}
  /\ posted = 0 /\ edits = 0 /\ visits = 0 /\ losses = 0

-----------------------------------------------------------------------------
(* The queries.                                                            *)

\* enabled, and on the page.
Active(d, k) == d.open = k[2] /\ (k[1] = "issue" \/ d.tab = "comments")

Sent(q) == [q EXCEPT !.fetch = "sent", !.carry = NoText]

\* A fetch under way is cancelled for a new one, unless it is the first.
Restarts(q) == q.fetch = "none" \/ q.data # NoText

\* Mutant of Invalidated: a fetch under way is left to finish.
InvalidatedOnce(k) ==
  IF Active(drawer, k) /\ query[k].fetch = "none" THEN [Sent(query[k]) EXCEPT !.due = TRUE]
  ELSE [query[k] EXCEPT !.due = TRUE]

\* invalidateQueries: a query that is not on the page waits for the next visit.
Invalidated(k) ==
  IF Active(drawer, k) /\ Restarts(query[k]) THEN [Sent(query[k]) EXCEPT !.due = TRUE]
  ELSE [query[k] EXCEPT !.due = TRUE]

\* What the queries do when drawer d comes to show them: the issue, whose
\* staleTime is 0, is fetched; comments are if they are due or older than 30 s.
Visited(d) ==
  {[k \in Keys |->
      IF Active(d, k) /\ ~Active(drawer, k) /\ query[k].fetch = "none"
         /\ (k[1] = "issue" \/ query[k].due \/ query[k].data = NoText \/ stale)
      THEN Sent(query[k]) ELSE query[k]] : stale \in BOOLEAN}

Serve(k) ==
  /\ query[k].fetch = "sent" /\ stored[k] # NoText
  /\ query' = [query EXCEPT ![k].fetch = "served", ![k].carry = stored[k], ![k].lost = FALSE]
  /\ UNCHANGED <<stored, drawer, post, news, posted, edits, visits, losses>>

\* Mutant of Synced: the effect does not look where the focus is.
SyncedAlways(d, old, new) == IF old # new THEN new ELSE d.box

\* The effect on [issue?.description]; a textarea that is new shows its default.
Synced(d, old, new) ==
  IF old = NoText \/ (old # new /\ ~d.focus) THEN new ELSE d.box

Receive(k) ==
  /\ query[k].fetch = "served"
  /\ query' = [query EXCEPT ![k].data = query[k].carry, ![k].fetch = "none",
                            ![k].carry = NoText, ![k].due = FALSE]
  /\ drawer' = IF drawer.open = k[2] /\ k[1] = "issue"
               THEN [drawer EXCEPT !.box = Synced(drawer, Text(query[k].data), Text(query[k].carry))]
               ELSE drawer
  /\ UNCHANGED <<stored, post, news, posted, edits, visits, losses>>

Lose == losses < MaxLosses /\ losses' = losses + 1

\* The fetch and its retry fail, as they do when the issue is gone; nothing says so,
\* and the data stay.
FailFetch(k) ==
  /\ query[k].fetch # "none"
  /\ IF query[k].fetch = "sent" /\ stored[k] = NoText THEN UNCHANGED losses ELSE Lose
  /\ query' = [query EXCEPT ![k].fetch = "none", ![k].carry = NoText, ![k].lost = TRUE]
  /\ UNCHANGED <<stored, drawer, post, news, posted, edits, visits>>

-----------------------------------------------------------------------------
(* The drawer.                                                             *)

Shows(d) == drawer' = d /\ query' \in Visited(d)

\* The user opens an issue on the board, or by the link of a notification while
\* another one is open; then the textarea stays if both are in the cache, and the
\* effect only runs if the descriptions differ.
Open(i) ==
  LET old == IF drawer.open = NoCardOpen THEN NoText ELSE Text(query[Issue(drawer.open)].data)
      new == Text(query[Issue(i)].data)
  IN /\ drawer.open # i /\ ~drawer.focus
     /\ visits < MaxVisits /\ visits' = visits + 1
     /\ Shows([drawer EXCEPT !.open = i, !.sent = IF old = new THEN @ ELSE NoText,
                             !.box = IF new = NoText THEN NoText ELSE Synced(drawer, old, new)])
     /\ UNCHANGED <<stored, post, news, posted, edits, losses>>

\* onClose.  Escape closes it without a blur: what was typed is gone.
Close ==
  /\ drawer.open # NoCardOpen
  /\ drawer' = [Closed EXCEPT !.tab = drawer.tab]
  /\ UNCHANGED <<stored, query, post, news, posted, edits, visits, losses>>

\* The fetch of the board fails: BoardPage shows an error in place of board and drawer.
BoardFails ==
  /\ drawer # Closed /\ Lose
  /\ drawer' = Closed
  /\ UNCHANGED <<stored, query, post, news, posted, edits, visits>>

SwitchTab ==
  /\ drawer.open # NoCardOpen /\ ~drawer.focus
  /\ visits < MaxVisits /\ visits' = visits + 1
  /\ Shows([drawer EXCEPT !.tab = IF @ = "comments" THEN "changelog" ELSE "comments"])
  /\ UNCHANGED <<stored, post, news, posted, edits, losses>>

Focus ==
  /\ drawer.box # NoText /\ ~drawer.focus
  /\ drawer' = [drawer EXCEPT !.focus = TRUE]
  /\ UNCHANGED <<stored, query, post, news, posted, edits, visits, losses>>

Type(t) ==
  /\ drawer.focus /\ drawer.box # t /\ edits < MaxEdits /\ edits' = edits + 1
  /\ drawer' = [drawer EXCEPT !.box = t]
  /\ UNCHANGED <<stored, query, post, news, posted, visits, losses>>

Ask(kind, i, t) ==
  /\ posted < MaxPosts /\ posted' = posted + 1
  /\ \E p \in Posts :
       /\ post[p] = NoText
       /\ post' = [post EXCEPT ![p] = [kind |-> kind, issue |-> i, text |-> t, state |-> "sent"]]

\* onBlur: a text that differs from the description of the latest render is sent.
Blur ==
  /\ drawer.focus
  /\ IF drawer.box = Text(query[Issue(drawer.open)].data)
     THEN /\ drawer' = [drawer EXCEPT !.focus = FALSE]
          /\ UNCHANGED <<post, posted>>
     ELSE /\ drawer' = [drawer EXCEPT !.focus = FALSE, !.sent = drawer.box]
          /\ Ask("issue", drawer.open, drawer.box)
  /\ UNCHANGED <<stored, query, news, edits, visits, losses>>

\* The button is disabled while a comment is under way; Ctrl+Enter sends it again.
Comment ==
  /\ drawer.open \in Discussed /\ drawer.tab = "comments"
  /\ Ask("comments", drawer.open, NoText)
  /\ UNCHANGED <<stored, query, drawer, news, edits, visits, losses>>

-----------------------------------------------------------------------------
(* The server: update and addComment.  Each is announced to the board's room. *)

Written(k, t) == [stored EXCEPT ![k].content = IF k[1] = "issue" THEN t ELSE @ + 1]

There(i) == stored[Issue(i)] # NoText

\* issue:commented invalidates both queries.
Told(k) == IF k[1] = "issue" THEN {k} ELSE {k, Issue(k[2])}

Commit(p) ==
  /\ post[p] # NoText /\ post[p].state = "sent" /\ There(post[p].issue)
  /\ LET k == <<post[p].kind, post[p].issue>> IN
       /\ stored' = Written(k, post[p].text)
       /\ news' = news \cup Told(k)
  /\ post' = [post EXCEPT ![p].state = "done"]
  /\ UNCHANGED <<query, drawer, posted, edits, visits, losses>>

\* Issue not found, or any other error.
Refuse(p) ==
  /\ post[p] # NoText /\ post[p].state = "sent"
  /\ IF There(post[p].issue) THEN Lose ELSE UNCHANGED losses
  /\ post' = [post EXCEPT ![p].state = "refused"]
  /\ UNCHANGED <<stored, query, drawer, news, posted, edits, visits>>

\* The requests of other people: updates and comments, and their events.
CommitElsewhere ==
  /\ posted < MaxPosts /\ posted' = posted + 1
  /\ \E k \in {l \in Keys : There(l[2])}, t \in Texts :
       /\ stored' = Written(k, t)
       /\ news' = news \cup Told(k)
  /\ UNCHANGED <<query, drawer, post, edits, visits, losses>>

\* Nothing tells the queries in K that what they have, or carry, is old.
Untold(K) == query' = [k \in Keys |-> IF k \in K THEN [query[k] EXCEPT !.lost = TRUE] ELSE query[k]]

\* A move by somebody else, or by this user before the drawer was opened: issue:moved
\* changes the board in the cache, and the issue's own query is not invalidated.
MoveElsewhere(i) ==
  /\ posted < MaxPosts /\ posted' = posted + 1 /\ There(i)
  /\ stored' = [stored EXCEPT ![Issue(i)].status = @ + 1]
  /\ Untold({Issue(i)})
  /\ UNCHANGED <<drawer, post, news, edits, visits, losses>>

\* A delete by somebody else: issue:deleted takes the card off the board, and no more.
\* The comments go with the issue.
DeleteElsewhere(i) ==
  /\ posted < MaxPosts /\ posted' = posted + 1 /\ There(i)
  /\ stored' = [k \in Keys |-> IF k[2] # i THEN stored[k] ELSE IF k[1] = "issue" THEN NoText ELSE Blank]
  /\ Untold({k \in Keys : k[2] = i})
  /\ UNCHANGED <<drawer, post, news, edits, visits, losses>>

\* onIssueUpdated, onIssueCommented.  While the drawer is closed, and when it is the
\* first, an answer that was read before is still taken, and counts as fresh.
Hear(k) ==
  /\ k \in news
  /\ news' = news \ {k}
  /\ query' = [query EXCEPT ![k] =
       [Invalidated(k) EXCEPT !.lost =
          @ \/ (query[k].fetch = "served" /\ ~(Active(drawer, k) /\ Restarts(query[k])))]]
  /\ UNCHANGED <<stored, drawer, post, posted, edits, visits, losses>>

LoseEvent(k) ==
  /\ k \in news /\ Lose
  /\ news' = news \ {k}
  /\ query' = [query EXCEPT ![k].lost = TRUE]
  /\ UNCHANGED <<stored, drawer, post, posted, edits, visits>>

\* onSuccess.  The callbacks are those of the latest render, except when another
\* mutation has followed: they may name the issue that is open by now.  An error
\* changes nothing on the page.
Answered(p) ==
  /\ post[p] # NoText /\ post[p].state # "sent"
  /\ post' = [post EXCEPT ![p] = NoText]
  /\ IF post[p].state = "done"
     THEN \E k \in {<<post[p].kind, i>> : i \in {post[p].issue, drawer.open}} \cap Keys :
            query' = [query EXCEPT ![k] = IF k[1] = "issue" THEN Invalidated(k)
                                                ELSE IF Restarts(@) THEN Sent(@) ELSE @]
     ELSE UNCHANGED query
  /\ UNCHANGED <<stored, drawer, news, posted, edits, visits, losses>>

\* A timeout, or the connection is lost: an error to the client.
LoseAnswer(p) ==
  /\ post[p] # NoText /\ post[p].state = "done" /\ Lose
  /\ post' = [post EXCEPT ![p] = NoText]
  /\ UNCHANGED <<stored, query, drawer, news, posted, edits, visits>>

DrawerNext ==
  \/ \E k \in Keys : Serve(k) \/ Receive(k) \/ FailFetch(k) \/ Hear(k) \/ LoseEvent(k)
  \/ \E i \in Cards : Open(i) \/ MoveElsewhere(i) \/ DeleteElsewhere(i)
  \/ \E t \in Texts : Type(t)
  \/ \E p \in Posts : Commit(p) \/ Refuse(p) \/ Answered(p) \/ LoseAnswer(p)
  \/ Close \/ BoardFails \/ SwitchTab \/ Focus \/ Blur \/ Comment
  \/ CommitElsewhere

DrawerSpec == DrawerInit /\ [][DrawerNext]_drawerVars

-----------------------------------------------------------------------------
(* Properties.                                                             *)

DrawerTypeOK ==
  /\ stored \in [Keys -> Values]
  /\ query \in [Keys -> Query]
  /\ drawer \in Drawer
  /\ post \in [Posts -> Post \cup {NoText}]
  /\ news \subseteq Keys

\* Nothing that would still change what the page has of k is under way.
Calm(k) ==
  /\ Active(drawer, k) /\ query[k].fetch = "none" /\ k \notin news /\ ~query[k].lost
  /\ \A p \in Posts : post[p] # NoText => <<post[p].kind, post[p].issue>> # k

\* Once everything has been answered, the drawer has the issue and the comments the
\* database has, whatever updates, comments, events, answers, fetches and visits
\* overtook each other, unless since its last fetch the issue was moved or deleted by
\* others, of which nothing tells the drawer, or an event or a fetch was lost (lost);
\* and the description box shows what the drawer has, or what its user has sent from
\* it: never something older.
DrawerAgrees ==
  \A k \in Keys : Calm(k) =>
    /\ query[k].data = stored[k]
    /\ k[1] = "issue" /\ ~drawer.focus => drawer.box \in {Text(query[k].data), drawer.sent}

\* What the user types into the description is not overwritten by what others do, and
\* leaves the box as a request, as it was typed, for the issue it was typed into
\* (unless the drawer goes away first).
TypedIsSent ==
  [][drawer.focus /\ drawer'.open = drawer.open =>
       /\ edits' = edits => drawer'.box = drawer.box
       /\ ~drawer'.focus /\ drawer.box # Text(query[Issue(drawer.open)].data) =>
            \E p \in Posts : post[p] = NoText /\ post'[p] # NoText
                             /\ post'[p].issue = drawer.open /\ post'[p].text = drawer.box]_drawerVars

\* The variables have their types, and DrawerAgrees: the drawer shows what the
\* database has when everything has been answered, unless the issue was moved or
\* deleted, or something was lost.
DrawerInv == DrawerTypeOK /\ DrawerAgrees
=============================================================================
