--------------------------- MODULE NotificationBell ---------------------------
(***************************************************************************)
(* One user's bell (apps/web, features/notifications/NotificationBell.tsx) *)
(* and the rows it counts and lists.  It learns of a row by a push to the  *)
(* user's sockets, by asking for the count every 30 s, and by fetching the *)
(* list while it is open; pushes, answers and mutations overtake each      *)
(* other.  Notifications has the handlers that save the rows.              *)
(***************************************************************************)
EXTENDS Integers, FiniteSets, Sequences

CONSTANTS
  Notices,          \* ids of the notifications
  PageSize,         \* NOTIFICATIONS_PAGE_SIZE
  Nil,
  MaxBreaks         \* bound: sockets lost, answers lost and fetches failed, in all

VARIABLES
  notes,     \* the notifications, oldest first
  unread,    \* those with read = false
  saved,     \* those saved and not yet emitted
  bell,      \* what the component and the query cache keep
  push,      \* notification:new on their way
  mutation,  \* the mark-as-read request under way
  breaks     \* counter of the bound

bellVars == <<notes, unread, saved, bell, push, mutation, breaks>>

ListPage == [ids : SUBSET Notices, unread : SUBSET Notices]

\* asked and fetch: the requests for the count and the list; tally and page: what
\* the server has read for them.  due: the list is invalidated.
\* missed: history: the list may lack something until the server reads it again.
Bell == [online : BOOLEAN, open : BOOLEAN,
         count : Nat, asked : {"none", "sent", "served"}, tally : Nat,
         list : ListPage \cup {Nil}, fetch : {"none", "sent", "served"}, page : ListPage,
         due : BOOLEAN, missed : BOOLEAN]

AllOfThem == 0
NoPage == [ids |-> {}, unread |-> {}]

Marking == [of : Notices \cup {AllOfThem}, at : {"sent", "served"}]

ASSUME BellAssumption ==
  /\ Notices \subseteq Nat \ {AllOfThem} /\ Nil \notin Marking
  /\ PageSize \in Nat \ {0} /\ MaxBreaks \in Nat

BellInit ==
  /\ notes = <<>> /\ unread = {} /\ saved = {}
  /\ bell = [online |-> TRUE, open |-> FALSE, count |-> 0, asked |-> "none", tally |-> 0,
             list |-> Nil, fetch |-> "none", page |-> NoPage, due |-> TRUE, missed |-> FALSE]
  /\ push = <<>> /\ mutation = Nil /\ breaks = 0

-----------------------------------------------------------------------------
(* createAndEmit: the INSERT, then emitToUser, which reaches the sockets the *)
(* user has.  Handlers overtake each other between the two.                  *)

Stored == {notes[n] : n \in DOMAIN notes}

SaveRow(e) ==
  /\ e \notin Stored
  /\ notes' = Append(notes, e) /\ unread' = unread \cup {e} /\ saved' = saved \cup {e}
  /\ UNCHANGED <<bell, push, mutation, breaks>>

PushRow(e) ==
  /\ e \in saved
  /\ saved' = saved \ {e}
  /\ IF bell.online THEN push' = Append(push, e) /\ UNCHANGED bell
     ELSE bell' = [bell EXCEPT !.missed = TRUE] /\ UNCHANGED push
  /\ UNCHANGED <<notes, unread, mutation, breaks>>

-----------------------------------------------------------------------------
(* The queries, notifications/count and notifications/list.                *)

\* findAll
LastPage ==
  LET ids == {notes[n] : n \in {m \in DOMAIN notes : m > Len(notes) - PageSize}}
  IN [ids |-> ids, unread |-> ids \cap unread]

Bells(b) == bell' = b /\ UNCHANGED <<notes, unread, saved>>

\* Mutant of BellInvalidated: a fetch under way is left to finish.
BellInvalidatedOnce(b) ==
  IF b.open THEN [b EXCEPT !.due = TRUE, !.fetch = IF @ = "none" THEN "sent" ELSE @]
  ELSE [b EXCEPT !.due = TRUE]

\* invalidateQueries of the list: fetched again if it is open; an answer on its way
\* to a closed list, or the first, still counts as fresh when it arrives.
BellInvalidated(b) ==
  IF b.open /\ (b.fetch = "none" \/ b.list # Nil) THEN [b EXCEPT !.due = TRUE, !.fetch = "sent", !.page = NoPage]
  ELSE [b EXCEPT !.due = TRUE, !.missed = @ \/ b.fetch = "served"]

OnNew ==
  /\ push # <<>>
  /\ push' = Tail(push)
  /\ Bells([BellInvalidated(bell) EXCEPT !.count = @ + 1])
  /\ UNCHANGED <<mutation, breaks>>

\* Mutant of Polls: the count is not asked for again.
NoPoll == FALSE

\* refetchInterval, which does not restart a request under way.
Polls == bell.asked = "none"

AskCount ==
  /\ Polls
  /\ Bells([bell EXCEPT !.asked = "sent"])
  /\ UNCHANGED <<push, mutation, breaks>>

ServeCount ==
  /\ bell.asked = "sent"
  /\ Bells([bell EXCEPT !.asked = "served", !.tally = Cardinality(unread)])
  /\ UNCHANGED <<push, mutation, breaks>>

ReceiveCount ==
  /\ bell.asked = "served"
  /\ Bells([bell EXCEPT !.count = bell.tally, !.asked = "none", !.tally = 0])
  /\ UNCHANGED <<push, mutation, breaks>>

ServeList ==
  /\ bell.fetch = "sent"
  /\ Bells([bell EXCEPT !.fetch = "served", !.page = LastPage, !.missed = FALSE])
  /\ UNCHANGED <<push, mutation, breaks>>

ReceiveList ==
  /\ bell.fetch = "served"
  /\ Bells([bell EXCEPT !.list = bell.page, !.fetch = "none", !.page = NoPage, !.due = FALSE])
  /\ UNCHANGED <<push, mutation, breaks>>

\* A list that is due or older than staleTime is fetched when it opens.
Toggle ==
  /\ \E fetch \in {bell.fetch} \cup {"sent"} :
       /\ fetch # bell.fetch => ~bell.open /\ bell.fetch = "none"
       /\ ~bell.open /\ bell.due => fetch # "none"
       /\ Bells([bell EXCEPT !.open = ~@, !.fetch = fetch])
  /\ UNCHANGED <<push, mutation, breaks>>

Break == breaks < MaxBreaks /\ breaks' = breaks + 1

\* A fetch and its retry fail.
FailBellFetch ==
  /\ Break
  /\ \/ bell.asked # "none" /\ Bells([bell EXCEPT !.asked = "none", !.tally = 0])
     \/ /\ bell.fetch # "none"
        /\ Bells([bell EXCEPT !.fetch = "none", !.page = NoPage, !.missed = TRUE])
  /\ UNCHANGED <<push, mutation>>

Disconnect ==
  /\ Break /\ bell.online
  /\ push' = <<>>
  /\ Bells([bell EXCEPT !.online = FALSE, !.missed = @ \/ push # <<>>])
  /\ UNCHANGED mutation

Reconnect ==
  /\ ~bell.online
  /\ Bells([bell EXCEPT !.online = TRUE])
  /\ UNCHANGED <<push, mutation, breaks>>

-----------------------------------------------------------------------------
(* Mark as read.                                                           *)

\* A click on an unread one of the list, which leads to its issue if it has one, or
\* on "read all", which a badge of 0 hides.
Mark ==
  /\ bell.open /\ mutation = Nil
  /\ \/ /\ bell.count > 0
        /\ mutation' = [of |-> AllOfThem, at |-> "sent"]
        /\ UNCHANGED bell
     \/ /\ bell.list # Nil
        /\ \E e \in bell.list.unread : mutation' = [of |-> e, at |-> "sent"]
        /\ bell' \in {bell, [bell EXCEPT !.open = FALSE]}
  /\ UNCHANGED <<notes, unread, saved, push, breaks>>

ServeMark ==
  /\ mutation # Nil /\ mutation.at = "sent"
  /\ unread' = IF mutation.of = AllOfThem THEN {} ELSE unread \ {mutation.of}
  /\ mutation' = [mutation EXCEPT !.at = "served"]
  /\ UNCHANGED <<notes, saved, bell, push, breaks>>

MarkedOne(b) == [b EXCEPT !.asked = "sent", !.tally = 0]

\* onSuccess: both queries are invalidated, or the count set to 0.
ReceiveMark ==
  /\ mutation # Nil /\ mutation.at = "served"
  /\ LET b == BellInvalidated(bell) IN
     Bells(IF mutation.of = AllOfThem THEN [b EXCEPT !.count = 0] ELSE MarkedOne(b))
  /\ mutation' = Nil
  /\ UNCHANGED <<push, breaks>>

LoseMark ==
  /\ Break /\ mutation # Nil
  /\ Bells([bell EXCEPT !.missed = TRUE])
  /\ mutation' = Nil
  /\ UNCHANGED push

-----------------------------------------------------------------------------

BellNext ==
  \/ \E e \in Notices : SaveRow(e) \/ PushRow(e)
  \/ OnNew \/ AskCount \/ ServeCount \/ ReceiveCount \/ ServeList \/ ReceiveList
  \/ Toggle \/ FailBellFetch \/ Disconnect \/ Reconnect
  \/ Mark \/ ServeMark \/ ReceiveMark \/ LoseMark

\* Handlers go on, messages and answers arrive, the timer of the count fires.
BellFairness ==
  /\ \A e \in Notices : WF_bellVars(PushRow(e))
  /\ WF_bellVars(OnNew)
  /\ WF_bellVars(AskCount) /\ WF_bellVars(ServeCount) /\ WF_bellVars(ReceiveCount)

BellSpec == BellInit /\ [][BellNext]_bellVars /\ BellFairness

-----------------------------------------------------------------------------
(* Properties.                                                             *)

BellTypeOK ==
  /\ notes \in Seq(Notices) /\ unread \subseteq Stored /\ saved \subseteq Stored
  /\ bell \in Bell /\ push \in Seq(Notices)
  /\ mutation \in Marking \cup {Nil}
  /\ breaks \in 0..MaxBreaks

\* Everything was emitted, and nothing of the bell is under way.
BellCalm == saved = {} /\ push = <<>> /\ bell.fetch = "none" /\ mutation = Nil

\* The open list is the page the server has, however pushes, mutations and fetches
\* overtook each other, unless something it would have been told of was lost.
ListAgrees == BellCalm /\ bell.open /\ ~bell.missed => bell.list = LastPage

\* The badge is right in the end: once nothing new happens and the user marks no
\* more, what was counted twice, lost, or set to 0 too late is corrected by a poll.
CountSettles == <>[](mutation = Nil) => <>[](bell.count = Cardinality(unread))

\* The variables have their types, and ListAgrees: the open list of the bell is the
\* server's when everything is quiet.
BellInv == BellTypeOK /\ ListAgrees
=============================================================================
