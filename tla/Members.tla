-------------------------------- MODULE Members --------------------------------
(***************************************************************************)
(* The accounts of one tenant (apps/api/src/modules/users/users.service.ts *)
(* : updateMe, uploadAvatar, invite and remove), asked for by the profile  *)
(* page and the members page of an administrator (apps/web, features/      *)
(* settings/ProfilePage.tsx and features/members/MembersPage.tsx) and from *)
(* elsewhere, and the list the members page shows.                         *)
(*                                                                         *)
(* updateMe reads the account with its password hash, checks and hashes    *)
(* passwords, and save() then reads the row again, without the hash, which *)
(* is select: false, and updates the columns in which the entity differs:  *)
(* the hash always.  Without a row it inserts.                             *)
(***************************************************************************)
EXTENDS Integers, FiniteSets

CONSTANTS
  Accounts,   \* user ids; bound: that many are ever given
  Me,         \* the administrator's
  Gone,       \* removed
  Unborn,     \* never inserted
  Asks,       \* requests the API handles at a time
  NoAsk,
  MaxAsks,    \* bound: requests in all
  MaxTurns    \* bound: answers and fetches lost and visits of the page, in all

VARIABLES
  account,    \* id -> the row, Gone or Unborn
  ask,        \* request -> what it does and how far it got
  list,       \* the query ['users'] and the page that shows it
  meant,      \* history: id -> what the requests that took effect asked for
  overtaken,  \* history: ids saved by an update that had read an older row
  asks, turns \* counters of the bounds

membersVars == <<account, ask, list, meant, overtaken, asks, turns>>

\* The name is left out: it is sent and saved as the email is, but need not be unique.
Fields == {"email", "password", "avatar"}
FieldValues == {0, 1}
Account == [Fields -> FieldValues]

\* data: NoAsk until it is first fetched.  behind: history: nothing will tell the page
\* that the list has changed.
List == [open : BOOLEAN, data : {NoAsk} \cup SUBSET Accounts, due : BOOLEAN,
         fetch : {"none", "sent", "served"}, carry : SUBSET Accounts, behind : BOOLEAN]

\* The fields an update sends.
Dtos == UNION {[D -> FieldValues] : D \in {{}, {"email"}, {"password"}, {"email", "password"}}}

\* mine: asked for by the members page.
Asked == [op : {"update", "avatar", "invite", "remove"}, mine : BOOLEAN, of : Accounts \cup {NoAsk},
        dto : UNION {[D -> FieldValues] : D \in SUBSET Fields}, read : Account \cup {NoAsk},
        seen : Account \cup {NoAsk, Gone},
        at : {"select", "write", "put", "insert", "delete", "done", "refused"}]

ASSUME MembersAssumption ==
  /\ Me \in Accounts /\ Gone # Unborn /\ {Gone, Unborn} \cap Account = {}
  /\ NoAsk \notin Accounts \cup Account \cup Asked /\ \A S \in SUBSET Accounts : NoAsk # S
  /\ MaxAsks \in Nat /\ MaxTurns \in Nat

New(email) == [f \in Fields |-> IF f = "email" THEN email ELSE 0]

MembersInit ==
  /\ account = [a \in Accounts |-> IF a = Me THEN New(0) ELSE Unborn]
  /\ ask = [r \in Asks |-> NoAsk]
  /\ list = [open |-> FALSE, data |-> NoAsk, due |-> FALSE, fetch |-> "none", carry |-> {}, behind |-> FALSE]
  /\ meant = account /\ overtaken = {}
  /\ asks = 0 /\ turns = 0

-----------------------------------------------------------------------------
(* Accounts.                                                               *)

Present(a) == account[a] \in Account
Here == {a \in Accounts : Present(a)}

\* The unique index on tenant and email.
Taken(email, a) == \E b \in Here \ {a} : account[b].email = email

AtStep(r, at) == ask[r] # NoAsk /\ ask[r].at = at
On(r, at) == ask' = [ask EXCEPT ![r].at = at]

\* A mutation of the page is under way: its button is disabled.
Pending(ops) == \E r \in Asks : ask[r] # NoAsk /\ ask[r].mine /\ ask[r].op \in ops

Start(r, what) ==
  /\ ask[r] = NoAsk /\ asks < MaxAsks /\ asks' = asks + 1
  /\ what.mine => ~Pending({what.op})
  /\ ask' = [ask EXCEPT ![r] = what]
  /\ UNCHANGED <<account, list, meant, overtaken, turns>>

What(op, mine, a, at) ==
  [op |-> op, mine |-> mine, of |-> a, dto |-> [f \in {} |-> 0], read |-> NoAsk, seen |-> NoAsk, at |-> at]

\* The row becomes new, as asked for by wanted.  Those who did not ask for it do not
\* see that there is one more or one less.
ChangeRow(r, a, new, wanted) ==
  /\ account' = [account EXCEPT ![a] = new]
  /\ meant' = [meant EXCEPT ![a] = wanted]
  /\ list' = [list EXCEPT !.behind = @ \/ ((new \in Account) # Present(a)
                                           /\ ~(ask[r].mine /\ ask[r].op \in {"invite", "remove"}))]

\* handleSubmit of a profile page, in any of the user's tabs; updateMe up to save().  A
\* wrong current password is refused and changes nothing.
UpdateMe(r) ==
  /\ Present(Me)
  /\ \E dto \in Dtos :
       Start(r, [What("update", FALSE, Me, "select") EXCEPT !.dto = dto, !.read = account[Me]])

\* Mutant of Entity: the tests for undefined are missing.
Emptied(q) == [f \in Fields |-> IF f \in DOMAIN q.dto THEN q.dto[f] ELSE 0]

\* if (dto.field !== undefined) user.field = dto.field.
Entity(q) == [f \in Fields |-> IF f \in DOMAIN q.dto THEN q.dto[f] ELSE q.read[f]]

SaveSelect(r) ==
  /\ AtStep(r, "select")
  /\ ask' = [ask EXCEPT ![r].at = "write", ![r].seen = account[ask[r].of]]
  /\ UNCHANGED <<account, list, meant, overtaken, asks, turns>>

Diff(q) == {f \in Fields : Entity(q)[f] # q.seen[f]} \cup {"password"}

\* UPDATE, of no row if it is gone by now, or INSERT if it was gone when save() read it:
\* refused if the email is taken.
SaveWrite(r) ==
  LET q == ask[r]
      row == account[q.of]
      inserts == q.seen = Gone
      new == [f \in Fields |-> IF inserts \/ f \in Diff(q) THEN Entity(q)[f] ELSE row[f]]
  IN /\ AtStep(r, "write")
     /\ \/ /\ inserts = Present(q.of)
           /\ On(r, IF inserts THEN "refused" ELSE "done")
           /\ UNCHANGED <<account, list, meant, overtaken>>
        \/ /\ inserts # Present(q.of)
           /\ IF Taken(new.email, q.of)
              THEN On(r, "refused") /\ UNCHANGED <<account, list, meant, overtaken>>
              ELSE /\ ChangeRow(r, q.of, new, [f \in Fields |-> IF f \in DOMAIN q.dto THEN q.dto[f]
                                               ELSE IF inserts THEN 0 ELSE meant[q.of][f]])
                   /\ overtaken' = IF row = q.read /\ row = q.seen THEN overtaken ELSE overtaken \cup {q.of}
                   /\ On(r, "done")
     /\ UNCHANGED <<asks, turns>>

\* uploadAvatar: the picture goes to the object store, or not, before the UPDATE.
UploadAvatar(r) == Present(Me) /\ Start(r, What("avatar", FALSE, Me, "put"))

AvatarWrite(r) ==
  /\ AtStep(r, "put")
  /\ \/ /\ Present(Me)
        /\ \E v \in FieldValues : ChangeRow(r, Me, [account[Me] EXCEPT !.avatar = v], [meant[Me] EXCEPT !.avatar = v])
        /\ On(r, "done")
     \/ /\ On(r, "refused")
        /\ UNCHANGED <<account, list, meant>>
  /\ UNCHANGED <<overtaken, asks, turns>>

\* invite, which looks for the email first.  Bound: there is an id left.
Invite(r) ==
  \E e \in FieldValues, mine \in BOOLEAN :
    /\ ~Taken(e, NoAsk)
    /\ Cardinality({a \in Accounts : account[a] = Unborn}) > Cardinality({q \in Asks : AtStep(q, "insert")})
    /\ Start(r, [What("invite", mine, NoAsk, "insert") EXCEPT !.dto = [f \in {"email"} |-> e]])

\* The INSERT.  A mail that fails is only logged.
InviteInsert(r) ==
  /\ AtStep(r, "insert")
  /\ LET e == ask[r].dto.email IN
     IF Taken(e, NoAsk)
     THEN On(r, "refused") /\ UNCHANGED <<account, list, meant>>
     ELSE \E a \in Accounts :
            /\ account[a] = Unborn
            /\ ChangeRow(r, a, New(e), New(e))
            /\ ask' = [ask EXCEPT ![r].at = "done", ![r].of = a]
  /\ UNCHANGED <<overtaken, asks, turns>>

\* The page has no button for one's own account.
Remove(r) ==
  \E a \in Here, mine \in BOOLEAN :
    /\ mine => a # Me /\ list.open /\ list.data # NoAsk /\ a \in list.data
    /\ Start(r, What("remove", mine, a, "delete"))

\* DELETE, refused to one who has reported issues.
RemoveDelete(r) ==
  /\ AtStep(r, "delete")
  /\ \/ ChangeRow(r, ask[r].of, Gone, Gone) /\ On(r, "done")
     \/ On(r, "refused") /\ UNCHANGED <<account, list, meant>>
  /\ UNCHANGED <<overtaken, asks, turns>>

-----------------------------------------------------------------------------
(* The list of the members page.                                           *)

\* Mutant of Refetched: a fetch under way is left to finish.
RefetchedOnce(l) == [l EXCEPT !.due = TRUE, !.fetch = IF l.open /\ @ = "none" THEN "sent" ELSE @]

\* invalidateQueries.  An answer on its way to a page that is closed, or the first,
\* still counts as fresh.
Refetched(l) ==
  IF l.open /\ (l.fetch = "none" \/ l.data # NoAsk)
  THEN [l EXCEPT !.due = TRUE, !.fetch = "sent", !.carry = {}]
  ELSE [l EXCEPT !.due = TRUE, !.behind = @ \/ l.fetch = "served"]

\* onSuccess of invite and remove.
AskAnswered(r) ==
  /\ AtStep(r, "done") \/ AtStep(r, "refused")
  /\ ask' = [ask EXCEPT ![r] = NoAsk]
  /\ list' = IF ask[r].mine /\ ask[r].at = "done" /\ ask[r].op \in {"invite", "remove"}
             THEN Refetched(list) ELSE list
  /\ UNCHANGED <<account, meant, overtaken, asks, turns>>

Turn == turns < MaxTurns /\ turns' = turns + 1

\* The page is told of an error.
DropAnswer(r) ==
  /\ AtStep(r, "done") /\ ask[r].mine /\ Turn
  /\ ask' = [ask EXCEPT ![r] = NoAsk]
  /\ list' = [list EXCEPT !.behind = TRUE]
  /\ UNCHANGED <<account, meant, overtaken, asks>>

UpdateList(l) == list' = l /\ UNCHANGED <<account, ask, meant, overtaken, asks>>

\* To the page, and away from it; a list that is due or 2 minutes old is fetched.
VisitMembers ==
  /\ \E fetch \in {list.fetch, "sent"} :
       /\ fetch # list.fetch => ~list.open /\ list.fetch = "none"
       /\ ~list.open /\ (list.due \/ list.data = NoAsk) => fetch # "none"
       /\ UpdateList([list EXCEPT !.open = ~@, !.fetch = fetch])
  /\ IF list.open THEN UNCHANGED turns ELSE Turn

ServeMembers ==
  /\ list.fetch = "sent"
  /\ UpdateList([list EXCEPT !.fetch = "served", !.carry = Here, !.behind = FALSE])
  /\ UNCHANGED turns

ReceiveMembers ==
  /\ list.fetch = "served"
  /\ UpdateList([list EXCEPT !.fetch = "none", !.data = list.carry, !.carry = {}, !.due = FALSE])
  /\ UNCHANGED turns

FailMembers ==
  /\ list.fetch # "none" /\ Turn
  /\ UpdateList([list EXCEPT !.fetch = "none", !.carry = {}, !.behind = TRUE])

MembersNext ==
  \/ \E r \in Asks :
       \/ UpdateMe(r) \/ SaveSelect(r) \/ SaveWrite(r)
       \/ UploadAvatar(r) \/ AvatarWrite(r)
       \/ Invite(r) \/ InviteInsert(r) \/ Remove(r) \/ RemoveDelete(r)
       \/ AskAnswered(r) \/ DropAnswer(r)
  \/ VisitMembers \/ ServeMembers \/ ReceiveMembers \/ FailMembers

MembersSpec == MembersInit /\ [][MembersNext]_membersVars

-----------------------------------------------------------------------------
(* Properties.                                                             *)

MembersTypeOK ==
  /\ account \in [Accounts -> Account \cup {Gone, Unborn}]
  /\ ask \in [Asks -> Asked \cup {NoAsk}]
  /\ list \in List
  /\ overtaken \subseteq Accounts

\* An account has what was last asked for it, field by field, the password included,
\* and one that was removed stays so, however updates, uploads, invitations and
\* removals interleave, unless an update that had read it before another change was
\* saved after it: that one writes the old values back, or the account.
AccountsAsMeant == \A a \in Accounts \ overtaken : account[a] = meant[a]

\* When what the members page asked for is answered, its list has the members there
\* are, unless somebody else invited or removed one or an answer was lost.
MembersListed ==
  list.open /\ list.fetch = "none" /\ ~list.behind /\ ~Pending({"invite", "remove"}) => list.data = Here

\* The variables have their types, and AccountsAsMeant: accounts are as last asked for.
MembersInv == MembersTypeOK /\ AccountsAsMeant
=============================================================================
