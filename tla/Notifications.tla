---------------------------- MODULE Notifications ----------------------------
(***************************************************************************)
(* Notifications about one issue and the sprints of its project: the       *)
(* handlers of apps/api/src/modules/notifications/notifications.service.ts *)
(*                                                                         *)
(* EventEmitter2 calls a handler and does not wait for it, so handlers of  *)
(* several events run at once, while issues, comments and users change;    *)
(* each of their database round trips ends an action.  NotificationBell    *)
(* has the client that counts and lists what they save.                    *)
(***************************************************************************)
EXTENDS Integers, FiniteSets, Sequences

CONSTANTS
  Users, Managers,  \* the tenant's, and those with role ADMIN or PROJECT_MANAGER
  Events,           \* ids: one for each event, in the order of emission
  None

VARIABLES
  issue,      \* the row, or None
  commenters, \* authors of its comments
  gone,       \* users removed
  job,        \* event -> the handler that runs for it
  rows        \* user -> notifications, oldest first, each named for its event

notifyVars == <<issue, commenters, gone, job, rows>>

Types == {"created", "assigned", "commented", "statusChanged", "updated", "deleted", "sprint"}

\* to: those still to be told.  all: those found when the handler looked.
Job == [type : Types, by : Users, to : SUBSET Users, all : SUBSET Users,
        at : {"emitted", "found", "telling", "saved", "done", "failed"}, now : Users \cup {None}]

ASSUME NotificationsAssumption ==
  Managers \subseteq Users /\ Events \subseteq Nat \ {0} /\ None \notin Users \cup Job

NotifyInit ==
  /\ issue = None /\ commenters = {} /\ gone = {}
  /\ job = [e \in Events |-> None]
  /\ rows = [u \in Users |-> <<>>]

-----------------------------------------------------------------------------
(* What the other services commit and emit.                                *)

Others(set, by) == set \ {by}

\* Those of an issue's people that are not null.
Named(people) == people \ {None}

\* The event's handler is called; to holds the recipients its payload names.
Emit(type, by, to) ==
  /\ \E e \in Events :
       /\ job[e] = None /\ \A d \in Events : d < e => job[d] # None
       /\ job' = [job EXCEPT ![e] = [type |-> type, by |-> by, to |-> to, all |-> to,
                                     at |-> "emitted", now |-> None]]
  /\ UNCHANGED <<gone, rows>>

Staff == Users \ gone

Act ==
  \E by \in Staff :
    \/ \* IssuesService.create
       /\ issue = None /\ commenters = {}
       /\ \E a \in Staff \cup {None} :
            /\ issue' = [reporter |-> by, assignee |-> a]
            /\ Emit("created", by, Others(Named({a}), by))
       /\ UNCHANGED commenters
    \/ \* update, with another assignee
       /\ issue # None
       /\ \E a \in Staff \ {issue.assignee} :
            /\ issue' = [issue EXCEPT !.assignee = a]
            /\ Emit("assigned", by, Others({a}, by))
       /\ UNCHANGED commenters
    \/ \* update of the status, or of priority or due date; move
       /\ issue # None
       /\ \E type \in {"statusChanged", "updated"} : Emit(type, by, {})
       /\ UNCHANGED <<issue, commenters>>
    \/ \* addComment
       /\ issue # None
       /\ commenters' = commenters \cup {by}
       /\ Emit("commented", by, {})
       /\ UNCHANGED issue
    \/ \* remove: whoever deletes the issue, its people are told
       /\ issue # None
       /\ issue' = None /\ commenters' = {}
       /\ Emit("deleted", by, Named({issue.reporter, issue.assignee}))
    \/ \* SprintsService.start, complete
       /\ Emit("sprint", by, {})
       /\ UNCHANGED <<issue, commenters>>

\* UsersService.remove, of one who has reported nothing (a foreign key): the
\* notifications and comments go with the user, assignments become null.
RemoveUser(u) ==
  /\ u \in Staff
  /\ issue # None => issue.reporter # u
  /\ gone' = gone \cup {u}
  /\ issue' = IF issue # None /\ issue.assignee = u THEN [issue EXCEPT !.assignee = None] ELSE issue
  /\ commenters' = commenters \ {u}
  /\ rows' = [rows EXCEPT ![u] = <<>>]
  /\ UNCHANGED job

-----------------------------------------------------------------------------
(* The handlers.                                                           *)

\* Whom a handler tells about an issue it found.
Concerned(j) ==
  CASE j.type = "assigned" -> j.to
    [] j.type = "commented" -> Others(Named({issue.reporter, issue.assignee}), j.by)
    [] j.type = "statusChanged" -> Others({issue.reporter}, j.by)
    [] j.type = "updated" -> Others(Named({issue.assignee}), j.by)

\* Whom a handler tells, by the payload and the issue it finds.
Recipients(j) ==
  CASE j.type \in {"created", "deleted"} -> j.to
    [] j.type = "sprint" -> Managers \ gone
    [] OTHER -> IF issue = None THEN {} ELSE Concerned(j)

\* The handler has to tell those of the set.
Proceeding(j, to) ==
  [j EXCEPT !.to = to, !.now = None, !.at = IF to = {} THEN "done" ELSE "telling"]

Found(j, to) == Proceeding([j EXCEPT !.all = to], to)

\* That of a comment goes on with the comments.
Lookup(e) ==
  /\ job[e] # None /\ job[e].at = "emitted"
  /\ LET j == job[e]
         to == Recipients(j) IN
     job' = [job EXCEPT ![e] = IF j.type = "commented" /\ issue # None
                               THEN [j EXCEPT !.all = to, !.at = "found"]
                               ELSE Found(j, to)]
  /\ UNCHANGED <<issue, commenters, gone, rows>>

LookupComments(e) ==
  /\ job[e] # None /\ job[e].at = "found"
  /\ job' = [job EXCEPT ![e] = Found(@, @.all \cup Others(commenters, @.by))]
  /\ UNCHANGED <<issue, commenters, gone, rows>>

\* createAndEmit, the INSERT.  A recipient removed meanwhile violates the foreign
\* key, which ends the handler: it is caught around the loop.
Save(e) ==
  /\ job[e] # None /\ job[e].at = "telling"
  /\ \E u \in job[e].to :
       IF u \in gone
       THEN /\ job' = [job EXCEPT ![e].at = "failed"]
            /\ UNCHANGED rows
       ELSE /\ rows' = [rows EXCEPT ![u] = Append(@, e)]
            /\ job' = [job EXCEPT ![e].at = "saved", ![e].now = u]
  /\ UNCHANGED <<issue, commenters, gone>>

\* Mutant of Remaining: the handler returns after the first of them.
NobodyElse(j) == {}

Remaining(j) == j.to \ {j.now}

\* emitToUser, which awaits nothing; the email goes its own way.
PushNew(e) ==
  /\ job[e] # None /\ job[e].at = "saved"
  /\ job' = [job EXCEPT ![e] = Proceeding(@, Remaining(@))]
  /\ UNCHANGED <<issue, commenters, gone, rows>>

-----------------------------------------------------------------------------

Handler(e) == Lookup(e) \/ LookupComments(e) \/ Save(e) \/ PushNew(e)

NotifyNext ==
  \/ Act
  \/ \E u \in Users : RemoveUser(u)
  \/ \E e \in Events : Handler(e)

\* The event loop and the database go on with every handler.
NotifySpec == NotifyInit /\ [][NotifyNext]_notifyVars /\ \A e \in Events : WF_notifyVars(Handler(e))

-----------------------------------------------------------------------------
(* Properties.                                                             *)

NotifyTypeOK ==
  /\ issue = None \/ issue \in [reporter : Users, assignee : Users \cup {None}]
  /\ commenters \subseteq Users /\ gone \subseteq Users
  /\ \A e \in Events : job[e] = None \/ job[e] \in Job
  /\ \A u \in Users : rows[u] \in Seq(Events)

\* Nobody is told of what they did, by whatever state the handler found, but for the
\* deletion of an issue and sprints, whose handlers do not ask who did it.
ToldOfOthersOnly ==
  \A u \in Users : \A n \in DOMAIN rows[u] :
    LET j == job[rows[u][n]] IN j.by = u => j.type \in {"deleted", "sprint"}

\* A handler that ended without an error has told everybody it found, once, though
\* issue, comments and users changed while it went on.
EveryoneTold ==
  \A e \in Events : job[e] # None /\ job[e].at = "done" =>
    \A u \in Staff :
      Cardinality({n \in DOMAIN rows[u] : rows[u][n] = e}) = IF u \in job[e].all THEN 1 ELSE 0

\* The variables have their types, every handler that ends has told those it found,
\* once each, and nobody is told of their own doing.
ToldInv == NotifyTypeOK /\ EveryoneTold /\ ToldOfOthersOnly
=============================================================================
