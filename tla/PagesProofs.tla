------------------------------ MODULE PagesProofs ------------------------------
(* What Members guarantees for any accounts and requests, IssuePages for any     *)
(* issues and page size, IssueDrawer for any issues, texts and requests,         *)
(* Registration for any slugs, requests and checks, Notifications for any users  *)
(* and events, and NotificationBell for any notifications and page size.         *)
EXTENDS IssueDrawer, IssuePages, Members, Registration, Notifications, NotificationBell,
        FiniteSetTheorems, WellFoundedInduction, TLAPS

-----------------------------------------------------------------------------
(* Members.                                                                 *)

\* What a request knows: an update has read the user's row, and save() that row or
\* its absence; only invitations and removals come from the members page.
Asking(q) ==
  /\ q \in Asked
  /\ q.op \in {"update", "avatar"} => q.of = Me /\ ~q.mine
  /\ q.op = "update" => q.read \in Account
  /\ q.op = "invite" => "email" \in DOMAIN q.dto
  /\ q.op = "remove" => q.of \in Accounts
  /\ q.at \in {"select", "write"} => q.op = "update"
  /\ q.at = "write" => q.seen \in Account \cup {Gone}
  /\ q.at = "put" => q.op = "avatar"
  /\ q.at = "insert" => q.op = "invite"
  /\ q.at = "delete" => q.op = "remove"

RowsKnown ==
  /\ account \in [Accounts -> Account \cup {Gone, Unborn}] /\ account[Me] # Unborn
  /\ meant \in [Accounts -> Account \cup {Gone, Unborn}]
  /\ \A a \in Accounts : Present(a) => meant[a] \in Account
  /\ list \in List

AsksKnown ==
  /\ ask \in [Asks -> Asked \cup {NoAsk}]
  /\ \A r \in Asks : ask[r] # NoAsk => Asking(ask[r])

AccountsInv == RowsKnown /\ AsksKnown /\ overtaken \subseteq Accounts /\ AccountsAsMeant

\* The answer that will have the page fetch the list again is on its way.
OnItsWay ==
  \E r \in Asks : ask[r] # NoAsk /\ ask[r].mine /\ ask[r].op \in {"invite", "remove"} /\ ask[r].at = "done"

\* Unless somebody else changed the list, or something was lost, the list a fetch
\* carries, or the one the page has, or will fetch, is the one there is.
ListKnown ==
  ~list.behind =>
    \/ OnItsWay
    \/ /\ list.fetch = "served" => list.carry = Here
       /\ list.fetch = "none" => list.data = NoAsk \/ list.due \/ list.data = Here

\* A page that is open does not wait for a list it does not fetch.
OpenKnown == list.open /\ list.fetch = "none" /\ ~list.behind => ~list.due /\ list.data # NoAsk

ListInv == AccountsInv /\ ListKnown /\ OpenKnown

-----------------------------------------------------------------------------

\* The fields a request sends, when they are these.
LEMMA DtosTyped ==
  ASSUME NEW D \in SUBSET Fields, NEW dto \in [D -> FieldValues]
  PROVE  dto \in UNION {[E -> FieldValues] : E \in SUBSET Fields}
OBVIOUS

\* What Members' assumption says of its values.
LEMMA ValuesDiffer ==
  /\ Me \in Accounts /\ Gone \notin Account /\ Unborn \notin Account /\ Gone # Unborn
  /\ NoAsk \notin Asked /\ NoAsk \notin Accounts /\ NoAsk \notin SUBSET Accounts
BY MembersAssumption

\* An account that is new.
LEMMA NewAccounts == ASSUME NEW e \in FieldValues PROVE New(e) \in Account
BY DEF New, Account, FieldValues

\* A request begins, goes on or ends.
LEMMA AsksGo ==
  ASSUME AsksKnown, NEW r \in Asks, NEW what, what = NoAsk \/ Asking(what),
         ask' = [ask EXCEPT ![r] = what]
  PROVE  AsksKnown'
<1>1. what \in Asked \cup {NoAsk}
  BY DEF Asking
<1>2. ask' \in [Asks -> Asked \cup {NoAsk}]
  BY <1>1 DEF AsksKnown
<1>3. ASSUME NEW q \in Asks, ask'[q] # NoAsk PROVE Asking(ask'[q])
  BY <1>3 DEF AsksKnown
<1>4. ASSUME NEW q \in Asks, ask'[q] # NoAsk PROVE Asking(ask[q])'
  BY <1>3, <1>4 DEF Asking
<1> QED BY <1>2, <1>4 DEF AsksKnown

\* A step of a request that changes neither an account nor the list.
LEMMA NothingChanges ==
  ASSUME ListInv, NEW r \in Asks, NEW what, what = NoAsk \/ Asking(what),
         ask' = [ask EXCEPT ![r] = what], ask[r] = NoAsk \/ ask[r].at # "done",
         UNCHANGED <<account, list, meant, overtaken>>
  PROVE  ListInv'
<1>1. AsksKnown'
  BY AsksGo DEF ListInv, AccountsInv
<1>2. OnItsWay => OnItsWay'
  BY <1>1 DEF OnItsWay, ListInv, AccountsInv, AsksKnown
<1>3. Here' = Here
  BY DEF Here, Present
<1> QED BY <1>1, <1>2, <1>3 DEF ListInv, AccountsInv, RowsKnown, Present, AccountsAsMeant, ListKnown, OpenKnown

\* A request changes a row, and is done.
LEMMA RowChanges ==
  ASSUME ListInv, NEW r \in Asks, NEW what, Asking(what), ask[r] # NoAsk,
         ask' = [ask EXCEPT ![r] = what], what.at = "done", what.op = ask[r].op, what.mine = ask[r].mine,
         NEW a \in Accounts, NEW new \in Account \cup {Gone},
         NEW wanted \in Account \cup {Gone}, new \in Account => wanted \in Account,
         ChangeRow(r, a, new, wanted),
         overtaken' = overtaken \/ overtaken' = overtaken \cup {a},
         a \in overtaken' \/ new = wanted
  PROVE  ListInv'
<1>1. AsksKnown'
  BY AsksGo DEF ListInv, AccountsInv
<1> DEFINE blind == (new \in Account) # Present(a) /\ ~(ask[r].mine /\ ask[r].op \in {"invite", "remove"})
<1>2. /\ account' = [account EXCEPT ![a] = new] /\ meant' = [meant EXCEPT ![a] = wanted]
      /\ list' = [list EXCEPT !.behind = list.behind \/ blind]
  BY DEF ChangeRow
<1>3. blind \in BOOLEAN
  OBVIOUS
<1> HIDE DEF blind
<1>4. list' \in List
  BY <1>2, <1>3 DEF ListInv, AccountsInv, RowsKnown, List
<1>5. RowsKnown'
  <2>1. account' \in [Accounts -> Account \cup {Gone, Unborn}] /\ meant' \in [Accounts -> Account \cup {Gone, Unborn}]
    BY <1>2 DEF ListInv, AccountsInv, RowsKnown
  <2>2. account'[Me] # Unborn
    BY <1>2, ValuesDiffer DEF ListInv, AccountsInv, RowsKnown
  <2>3. ASSUME NEW b \in Accounts, Present(b)' PROVE meant'[b] \in Account
    BY <1>2, <2>3, ValuesDiffer DEF ListInv, AccountsInv, RowsKnown, Present
  <2> QED BY <1>4, <2>1, <2>2, <2>3 DEF RowsKnown
<1>6. overtaken' \subseteq Accounts /\ AccountsAsMeant'
  BY <1>2 DEF ListInv, AccountsInv, RowsKnown, AccountsAsMeant
<1>7. list'.behind = (list.behind \/ blind) /\ \A f \in {"open", "data", "due", "fetch", "carry"} : list'[f] = list[f]
  BY <1>2 DEF ListInv, AccountsInv, RowsKnown, List
<1>8. OpenKnown'
  BY <1>7 DEF ListInv, OpenKnown
<1>9. ListKnown'
  <2>1. CASE (new \in Account) = Present(a)
    <3>1. Here' = Here
      BY <1>2, <2>1 DEF Here, Present, ListInv, AccountsInv, RowsKnown
    <3>2. OnItsWay => OnItsWay'
      BY <1>1, ValuesDiffer DEF OnItsWay, ListInv, AccountsInv, AsksKnown, Asking
    <3> QED BY <3>1, <3>2, <1>7 DEF ListInv, ListKnown
  <2>2. CASE ask[r].mine /\ ask[r].op \in {"invite", "remove"}
    <3>1. ask'[r] = what /\ what # NoAsk
      BY ValuesDiffer DEF ListInv, AccountsInv, AsksKnown, Asking
    <3> QED BY <2>2, <3>1 DEF OnItsWay, ListKnown
  <2>3. CASE (new \in Account) # Present(a) /\ ~(ask[r].mine /\ ask[r].op \in {"invite", "remove"})
    <3>1. list'.behind
      BY <1>7, <2>3 DEF blind
    <3> QED BY <3>1 DEF ListKnown
  <2> QED BY <2>1, <2>2, <2>3
<1> QED BY <1>1, <1>5, <1>6, <1>8, <1>9 DEF ListInv, AccountsInv

-----------------------------------------------------------------------------
(* What requests do to the accounts.                                        *)

\* A request that sends none.
LEMMA NoFields == [f \in {} |-> 0] \in UNION {[E -> FieldValues] : E \in SUBSET Fields}
<1>1. [f \in {} |-> 0] \in [{} -> FieldValues]
  OBVIOUS
<1> QED BY <1>1, DtosTyped

\* The requests of the members page hold no more than this.
LEMMA Asks0 ==
  ASSUME NEW op \in {"update", "avatar", "invite", "remove"}, NEW mine \in BOOLEAN,
         NEW a \in Accounts \cup {NoAsk}, NEW at \in {"select", "put", "insert", "delete"}
  PROVE  /\ What(op, mine, a, at) \in Asked
         /\ What(op, mine, a, at).op = op /\ What(op, mine, a, at).mine = mine
         /\ What(op, mine, a, at).of = a /\ What(op, mine, a, at).at = at
BY NoFields DEF What, Asked

\* updateMe reads the row.
LEMMA UpdateMes == ASSUME ListInv, NEW r \in Asks, UpdateMe(r) PROVE ListInv'
<1> DEFINE base == What("update", FALSE, Me, "select")
<1>1. PICK dto \in Dtos : Start(r, [base EXCEPT !.dto = dto, !.read = account[Me]])
  BY DEF UpdateMe
<1> DEFINE what == [base EXCEPT !.dto = dto, !.read = account[Me]]
<1>2. base \in Asked /\ base.op = "update" /\ base.mine = FALSE /\ base.of = Me /\ base.at = "select"
  <2>1. [f \in {} |-> 0] \in UNION {[E -> FieldValues] : E \in SUBSET Fields}
    BY NoFields
  <2> QED BY <2>1, ValuesDiffer DEF What, Asked
<1> HIDE DEF base
<1>3. dto \in UNION {[E -> FieldValues] : E \in SUBSET Fields}
  BY DtosTyped DEF Dtos, Fields
<1>4. account[Me] \in Account
  BY <1>1 DEF UpdateMe, Present
<1>5. what \in Asked /\ what.op = "update" /\ what.mine = FALSE /\ what.of = Me /\ what.at = "select"
        /\ what.read = account[Me]
  BY <1>2, <1>3, <1>4 DEF Asked
<1> HIDE DEF what
<1>6. Asking(what)
  BY <1>4, <1>5 DEF Asking
<1>7. ask' = [ask EXCEPT ![r] = what] /\ ask[r] = NoAsk /\ UNCHANGED <<account, list, meant, overtaken>>
  BY <1>1 DEF Start, what
<1> QED BY <1>6, <1>7, NothingChanges

\* save() reads the row again.
LEMMA SaveSelects == ASSUME ListInv, NEW r \in Asks, SaveSelect(r) PROVE ListInv'
<1> DEFINE what == [ask[r] EXCEPT !.at = "write", !.seen = account[ask[r].of]]
<1>1. Asking(ask[r]) /\ ask[r].at = "select" /\ ask[r].op = "update" /\ ask[r].of = Me
  BY DEF ListInv, AccountsInv, AsksKnown, SaveSelect, AtStep, Asking
<1>2. account[Me] \in Account \cup {Gone}
  BY ValuesDiffer DEF ListInv, AccountsInv, RowsKnown
<1>3. what \in Asked /\ what.op = "update" /\ what.mine = ask[r].mine /\ what.of = Me /\ what.at = "write"
        /\ what.read = ask[r].read /\ what.seen = account[Me]
  BY <1>1, <1>2 DEF Asked, Asking
<1>4. ask' = [ask EXCEPT ![r] = what] /\ UNCHANGED <<account, list, meant, overtaken>>
  BY <1>1 DEF SaveSelect, ListInv, AccountsInv, AsksKnown
<1> HIDE DEF what
<1>5. Asking(what)
  BY <1>1, <1>2, <1>3 DEF Asking
<1> QED BY <1>1, <1>4, <1>5, NothingChanges

\* A request gets to the end.
LEMMA AsksEnd ==
  ASSUME ListInv, NEW r \in Asks, ask[r] # NoAsk, NEW at \in {"done", "refused"}
  PROVE  LET what == [ask[r] EXCEPT !.at = at]
         IN  Asking(what) /\ what.at = at /\ what.op = ask[r].op /\ what.mine = ask[r].mine
<1>1. Asking(ask[r])
  BY DEF ListInv, AccountsInv, AsksKnown
<1> QED BY <1>1 DEF Asking, Asked

\* A refusal changes nothing.
LEMMA Refusals ==
  ASSUME ListInv, NEW r \in Asks, ask[r] # NoAsk, ask[r].at # "done", NEW at \in {"done", "refused"}, On(r, at),
         UNCHANGED <<account, list, meant, overtaken>>
  PROVE  ListInv'
<1> DEFINE what == [ask[r] EXCEPT !.at = at]
<1>1. Asking(what)
  BY AsksEnd
<1>2. ask' = [ask EXCEPT ![r] = what]
  BY DEF On
<1> HIDE DEF what
<1> QED BY <1>1, <1>2, NothingChanges

\* save() updates the row that was there when it read it, or inserts one.
LEMMA SaveWrites == ASSUME ListInv, NEW r \in Asks, SaveWrite(r) PROVE ListInv'
<1> DEFINE q == ask[r]
           row == account[Me]
           inserts == q.seen = Gone
           new == [f \in Fields |-> IF inserts \/ f \in Diff(q) THEN Entity(q)[f] ELSE row[f]]
           wanted == [f \in Fields |-> IF f \in DOMAIN q.dto THEN q.dto[f]
                                       ELSE IF inserts THEN 0 ELSE meant[Me][f]]
<1>1. Asking(q) /\ q \in Asked /\ q # NoAsk /\ q.at = "write" /\ q.of = Me /\ q.read \in Account /\ q.seen \in Account \cup {Gone}
  BY DEF ListInv, AccountsInv, AsksKnown, SaveWrite, AtStep, Asking
<1>2. \/ On(r, "refused") /\ UNCHANGED <<account, list, meant, overtaken>>
      \/ On(r, "done") /\ UNCHANGED <<account, list, meant, overtaken>>
      \/ /\ inserts # Present(Me)
         /\ ChangeRow(r, Me, new, wanted)
         /\ overtaken' = IF row = q.read /\ row = q.seen THEN overtaken ELSE overtaken \cup {Me}
         /\ On(r, "done")
  BY <1>1 DEF SaveWrite
<1>3. CASE On(r, "refused") /\ UNCHANGED <<account, list, meant, overtaken>>
  BY <1>1, <1>3, Refusals
<1>4. CASE On(r, "done") /\ UNCHANGED <<account, list, meant, overtaken>>
  BY <1>1, <1>4, Refusals
<1>5. CASE /\ inserts # Present(Me)
           /\ ChangeRow(r, Me, new, wanted)
           /\ overtaken' = IF row = q.read /\ row = q.seen THEN overtaken ELSE overtaken \cup {Me}
           /\ On(r, "done")
  <2> DEFINE what == [q EXCEPT !.at = "done"]
  <2>1. Asking(what) /\ what.at = "done" /\ what.op = q.op /\ what.mine = q.mine
    BY <1>1, AsksEnd
  <2>2. ask' = [ask EXCEPT ![r] = what]
    BY <1>5 DEF On
  <2>3. PICK D \in SUBSET Fields : q.dto \in [D -> FieldValues]
    BY <1>1 DEF Asked
  <2>4. \A f \in Fields : Entity(q)[f] \in FieldValues
    BY <1>1, <2>3 DEF Entity, Account
  <2>5. inserts \/ row \in Account
    BY <1>5 DEF Present
  <2>6. new \in Account
    BY <2>4, <2>5 DEF Account
  <2>7. inserts \/ meant[Me] \in Account
    BY <1>5, ValuesDiffer DEF ListInv, AccountsInv, RowsKnown, Present
  <2>8. wanted \in Account
    BY <2>3, <2>7 DEF Account, FieldValues
  <2>9. Me \in overtaken' \/ new = wanted
    <3>1. CASE Me \in overtaken \/ row # q.read \/ row # q.seen
      BY <1>5, <3>1
    <3>2. CASE Me \notin overtaken /\ row = q.read /\ row = q.seen
      <4>1. row \in Account /\ ~inserts /\ meant[Me] = row
        BY <1>1, <3>2, ValuesDiffer DEF ListInv, AccountsInv, AccountsAsMeant
      <4>2. ASSUME NEW f \in Fields PROVE new[f] = wanted[f]
        BY <3>2, <4>1 DEF Entity, Diff
      <4> QED BY <4>2
    <3> QED BY <3>1, <3>2
  <2>10. overtaken' = overtaken \/ overtaken' = overtaken \cup {Me}
    BY <1>5
  <2>11. ChangeRow(r, Me, new, wanted)
    BY <1>5
  <2> HIDE DEF new, wanted, what, row, inserts
  <2> QED BY <1>1, <2>1, <2>2, <2>6, <2>8, <2>9, <2>10, <2>11, ValuesDiffer, RowChanges
<1> QED BY <1>2, <1>3, <1>4, <1>5

\* uploadAvatar begins.
LEMMA UploadAvatars == ASSUME ListInv, NEW r \in Asks, UploadAvatar(r) PROVE ListInv'
<1> DEFINE what == What("avatar", FALSE, Me, "put")
<1>1. what \in Asked /\ what.op = "avatar" /\ what.mine = FALSE /\ what.of = Me /\ what.at = "put"
  <2>1. [f \in {} |-> 0] \in UNION {[E -> FieldValues] : E \in SUBSET Fields}
    BY NoFields
  <2> QED BY <2>1, ValuesDiffer DEF What, Asked
<1>2. Asking(what)
  BY <1>1 DEF Asking
<1>3. ask' = [ask EXCEPT ![r] = what] /\ ask[r] = NoAsk /\ UNCHANGED <<account, list, meant, overtaken>>
  BY DEF UploadAvatar, Start
<1> HIDE DEF what
<1> QED BY <1>2, <1>3, NothingChanges

\* The UPDATE of the picture, if the account is still there.
LEMMA AvatarWrites == ASSUME ListInv, NEW r \in Asks, AvatarWrite(r) PROVE ListInv'
<1>1. Asking(ask[r]) /\ ask[r] # NoAsk /\ ask[r].at = "put" /\ ask[r].of = Me
  BY DEF ListInv, AccountsInv, AsksKnown, AvatarWrite, AtStep, Asking
<1>2. CASE On(r, "refused") /\ UNCHANGED <<account, list, meant>>
  BY <1>1, <1>2, Refusals DEF AvatarWrite
<1>3. CASE /\ Present(Me)
           /\ \E v \in FieldValues : ChangeRow(r, Me, [account[Me] EXCEPT !.avatar = v], [meant[Me] EXCEPT !.avatar = v])
           /\ On(r, "done")
  <2>1. PICK v \in FieldValues : ChangeRow(r, Me, [account[Me] EXCEPT !.avatar = v], [meant[Me] EXCEPT !.avatar = v])
    BY <1>3
  <2> DEFINE what == [ask[r] EXCEPT !.at = "done"]
             new == [account[Me] EXCEPT !.avatar = v]
             wanted == [meant[Me] EXCEPT !.avatar = v]
  <2>2. Asking(what) /\ what.at = "done" /\ what.op = ask[r].op /\ what.mine = ask[r].mine
    BY <1>1, AsksEnd
  <2>3. ask' = [ask EXCEPT ![r] = what]
    BY <1>3 DEF On
  <2>4. account[Me] \in Account /\ meant[Me] \in Account
    BY <1>3, ValuesDiffer DEF Present, ListInv, AccountsInv, RowsKnown
  <2>5. new \in Account /\ wanted \in Account
    BY <2>4 DEF Account
  <2>6. overtaken' = overtaken
    BY DEF AvatarWrite
  <2>7. Me \in overtaken' \/ new = wanted
    BY <2>6, ValuesDiffer DEF ListInv, AccountsInv, AccountsAsMeant
  <2>8. ChangeRow(r, Me, new, wanted)
    BY <2>1
  <2> HIDE DEF what, new, wanted
  <2> QED BY <1>1, <2>2, <2>3, <2>5, <2>6, <2>7, <2>8, ValuesDiffer, RowChanges
<1> QED BY <1>2, <1>3 DEF AvatarWrite

\* invite looks for the email.
LEMMA Invites == ASSUME ListInv, NEW r \in Asks, Invite(r) PROVE ListInv'
<1>1. PICK e \in FieldValues, mine \in BOOLEAN :
        Start(r, [What("invite", mine, NoAsk, "insert") EXCEPT !.dto = [f \in {"email"} |-> e]])
  BY DEF Invite
<1> DEFINE base == What("invite", mine, NoAsk, "insert")
           dto == [f \in {"email"} |-> e]
           what == [base EXCEPT !.dto = dto]
<1>2. base \in Asked /\ base.op = "invite" /\ base.mine = mine /\ base.of = NoAsk /\ base.at = "insert"
  BY Asks0
<1> HIDE DEF base
<1>3. dto \in [{"email"} -> FieldValues] /\ "email" \in DOMAIN dto
  OBVIOUS
<1>4. dto \in UNION {[E -> FieldValues] : E \in SUBSET Fields}
  BY <1>3, DtosTyped DEF Fields
<1> HIDE DEF dto
<1>5. what \in Asked /\ what.op = "invite" /\ what.at = "insert" /\ what.dto = dto
  BY <1>2, <1>4 DEF Asked
<1>6. ask' = [ask EXCEPT ![r] = what] /\ ask[r] = NoAsk /\ UNCHANGED <<account, list, meant, overtaken>>
  BY <1>1 DEF Start, base, dto
<1> HIDE DEF what
<1>7. Asking(what)
  BY <1>3, <1>5 DEF Asking
<1> QED BY <1>6, <1>7, NothingChanges

\* The INSERT of an account nobody had.
LEMMA InviteInserts == ASSUME ListInv, NEW r \in Asks, InviteInsert(r) PROVE ListInv'
<1> DEFINE e == ask[r].dto.email
<1>1. Asking(ask[r]) /\ ask[r] \in Asked /\ ask[r] # NoAsk /\ ask[r].at = "insert" /\ ask[r].op = "invite"
  BY DEF ListInv, AccountsInv, AsksKnown, InviteInsert, AtStep, Asking
<1>2. e \in FieldValues
  <2>1. PICK D \in SUBSET Fields : ask[r].dto \in [D -> FieldValues]
    BY <1>1 DEF Asked
  <2> QED BY <1>1, <2>1 DEF Asking
<1>3. overtaken' = overtaken
  BY DEF InviteInsert
<1>4. CASE On(r, "refused") /\ UNCHANGED <<account, list, meant>>
  BY <1>1, <1>3, <1>4, Refusals
<1>5. CASE \E a \in Accounts :
             /\ account[a] = Unborn
             /\ ChangeRow(r, a, New(e), New(e))
             /\ ask' = [ask EXCEPT ![r].at = "done", ![r].of = a]
  <2>1. PICK a \in Accounts : /\ account[a] = Unborn
                              /\ ChangeRow(r, a, New(e), New(e))
                              /\ ask' = [ask EXCEPT ![r].at = "done", ![r].of = a]
    BY <1>5
  <2> DEFINE what == [ask[r] EXCEPT !.at = "done", !.of = a]
  <2>2. what \in Asked /\ what.at = "done" /\ what.op = ask[r].op /\ what.mine = ask[r].mine /\ what.dto = ask[r].dto
    BY <1>1 DEF Asked
  <2>3. ask' = [ask EXCEPT ![r] = what]
    BY <2>1 DEF ListInv, AccountsInv, AsksKnown
  <2>4. New(e) \in Account
    BY <1>2, NewAccounts
  <2> HIDE DEF what
  <2>5. Asking(what)
    BY <1>1, <2>2 DEF Asking
  <2> QED BY <1>1, <1>3, <2>1, <2>2, <2>3, <2>4, <2>5, RowChanges
<1> QED BY <1>4, <1>5 DEF InviteInsert

\* The page asks for an account to be removed.
LEMMA Removes == ASSUME ListInv, NEW r \in Asks, Remove(r) PROVE ListInv'
<1>1. PICK a \in Accounts, mine \in BOOLEAN : Start(r, What("remove", mine, a, "delete"))
  BY DEF Remove, Here
<1> DEFINE what == What("remove", mine, a, "delete")
<1>2. what \in Asked /\ what.op = "remove" /\ what.of = a /\ what.at = "delete"
  BY Asks0
<1>3. ask' = [ask EXCEPT ![r] = what] /\ ask[r] = NoAsk /\ UNCHANGED <<account, list, meant, overtaken>>
  BY <1>1 DEF Start
<1> HIDE DEF what
<1>4. Asking(what)
  BY <1>2 DEF Asking
<1> QED BY <1>3, <1>4, NothingChanges

\* DELETE.
LEMMA RemoveDeletes == ASSUME ListInv, NEW r \in Asks, RemoveDelete(r) PROVE ListInv'
<1>1. Asking(ask[r]) /\ ask[r] # NoAsk /\ ask[r].at = "delete" /\ ask[r].of \in Accounts
  BY DEF ListInv, AccountsInv, AsksKnown, RemoveDelete, AtStep, Asking
<1>2. overtaken' = overtaken
  BY DEF RemoveDelete
<1>3. CASE On(r, "refused") /\ UNCHANGED <<account, list, meant>>
  BY <1>1, <1>2, <1>3, Refusals
<1>4. CASE ChangeRow(r, ask[r].of, Gone, Gone) /\ On(r, "done")
  <2> DEFINE what == [ask[r] EXCEPT !.at = "done"]
  <2>1. Asking(what) /\ what.at = "done" /\ what.op = ask[r].op /\ what.mine = ask[r].mine
    BY <1>1, AsksEnd
  <2>2. ask' = [ask EXCEPT ![r] = what]
    BY <1>4 DEF On
  <2> HIDE DEF what
  <2> QED BY <1>1, <1>2, <1>4, <2>1, <2>2, ValuesDiffer, RowChanges
<1> QED BY <1>3, <1>4 DEF RemoveDelete

-----------------------------------------------------------------------------
(* The list of the members page.                                            *)

\* A list that is fetched again.
LEMMA Refetches ==
  ASSUME NEW l \in List
  PROVE  /\ Refetched(l) \in List /\ Refetched(l).open = l.open /\ Refetched(l).data = l.data
         /\ Refetched(l).due /\ (l.behind => Refetched(l).behind)
         /\ Refetched(l).fetch = "sent" \/ (Refetched(l).fetch = l.fetch /\ (l.fetch = "served" => Refetched(l).behind))
         /\ l.open => Refetched(l).fetch # "none"
BY DEF Refetched, List

\* The answer of an invitation or removal the page asked for has it fetch the list again.
LEMMA Answers0 == ASSUME ListInv, NEW r \in Asks, AskAnswered(r) PROVE ListInv'
<1>1. AsksKnown' /\ ask' = [ask EXCEPT ![r] = NoAsk]
  BY AsksGo DEF ListInv, AccountsInv, AskAnswered
<1>2. Here' = Here
  BY DEF Here, Present, AskAnswered
<1>3. CASE ask[r].mine /\ ask[r].at = "done" /\ ask[r].op \in {"invite", "remove"}
  <2>1. list' = Refetched(list) /\ list \in List
    BY <1>3 DEF AskAnswered, ListInv, AccountsInv, RowsKnown
  <2>2. list' \in List
    BY <2>1, Refetches
  <2>3. ListKnown'
    BY <2>1, Refetches DEF ListKnown
  <2>4. OpenKnown'
    BY <2>1, Refetches DEF OpenKnown
  <2> QED BY <1>1, <2>2, <2>3, <2>4 DEF AskAnswered, ListInv, AccountsInv, RowsKnown, Present, AccountsAsMeant
<1>4. CASE ~(ask[r].mine /\ ask[r].at = "done" /\ ask[r].op \in {"invite", "remove"})
  <2>1. list' = list
    BY <1>4 DEF AskAnswered
  <2>2. OnItsWay => OnItsWay'
    BY <1>1, <1>4 DEF OnItsWay, ListInv, AccountsInv, AsksKnown
  <2>3. ListKnown' /\ OpenKnown'
    BY <1>2, <2>1, <2>2 DEF ListInv, ListKnown, OpenKnown
  <2> QED BY <1>1, <2>1, <2>3 DEF AskAnswered, ListInv, AccountsInv, RowsKnown, Present, AccountsAsMeant
<1> QED BY <1>3, <1>4

\* The answer is lost.
LEMMA Drops == ASSUME ListInv, NEW r \in Asks, DropAnswer(r) PROVE ListInv'
<1>1. AsksKnown'
  BY AsksGo DEF ListInv, AccountsInv, DropAnswer
<1>2. list' \in List /\ list'.behind
  BY DEF ListInv, AccountsInv, RowsKnown, DropAnswer, List
<1> QED BY <1>1, <1>2 DEF DropAnswer, ListInv, AccountsInv, RowsKnown, Present, AccountsAsMeant, ListKnown, OpenKnown

\* The list alone changes.
LEMMA ListChanges ==
  ASSUME ListInv, NEW l \in List, UpdateList(l),
         ~l.behind => \/ OnItsWay
                      \/ /\ l.fetch = "served" => l.carry = Here
                         /\ l.fetch = "none" => l.data = NoAsk \/ l.due \/ l.data = Here,
         l.open /\ l.fetch = "none" /\ ~l.behind => ~l.due /\ l.data # NoAsk
  PROVE  ListInv'
<1>1. list' = l /\ UNCHANGED <<account, ask, meant, overtaken>>
  BY DEF UpdateList
<1>2. Here' = Here /\ OnItsWay' = OnItsWay
  BY <1>1 DEF Here, Present, OnItsWay
<1> QED BY <1>1, <1>2 DEF ListInv, AccountsInv, AsksKnown, Asking, RowsKnown, Present, AccountsAsMeant, ListKnown, OpenKnown

\* To the page, and away from it.
LEMMA Visits == ASSUME ListInv, VisitMembers PROVE ListInv'
<1>1. PICK fetch \in {list.fetch, "sent"} :
        /\ fetch # list.fetch => ~list.open /\ list.fetch = "none"
        /\ ~list.open /\ (list.due \/ list.data = NoAsk) => fetch # "none"
        /\ UpdateList([list EXCEPT !.open = ~list.open, !.fetch = fetch])
  BY DEF VisitMembers
<1> DEFINE l == [list EXCEPT !.open = ~list.open, !.fetch = fetch]
<1>2. list \in List
  BY DEF ListInv, AccountsInv, RowsKnown
<1>3. l \in List /\ l.open = ~list.open /\ l.fetch = fetch /\ l.data = list.data /\ l.due = list.due
      /\ l.behind = list.behind /\ l.carry = list.carry
  BY <1>2 DEF List
<1> HIDE DEF l
<1>4. ~l.behind => \/ OnItsWay
                   \/ /\ l.fetch = "served" => l.carry = Here
                      /\ l.fetch = "none" => l.data = NoAsk \/ l.due \/ l.data = Here
  BY <1>1, <1>3 DEF ListInv, ListKnown
<1>5. l.open /\ l.fetch = "none" /\ ~l.behind => ~l.due /\ l.data # NoAsk
  BY <1>1, <1>3
<1>6. UpdateList(l)
  BY <1>1 DEF l
<1> QED BY <1>3, <1>4, <1>5, <1>6, ListChanges

\* The list is read.
LEMMA Serves == ASSUME ListInv, ServeMembers PROVE ListInv'
<1> DEFINE l == [list EXCEPT !.fetch = "served", !.carry = Here, !.behind = FALSE]
<1>1. list \in List /\ Here \in SUBSET Accounts
  BY DEF ListInv, AccountsInv, RowsKnown, Here
<1>2. l \in List /\ l.fetch = "served" /\ l.carry = Here
  BY <1>1 DEF List
<1>3. UpdateList(l)
  BY DEF ServeMembers
<1> HIDE DEF l
<1> QED BY <1>2, <1>3, ListChanges

\* The page has it.
LEMMA Receives == ASSUME ListInv, ReceiveMembers PROVE ListInv'
<1> DEFINE l == [list EXCEPT !.fetch = "none", !.data = list.carry, !.carry = {}, !.due = FALSE]
<1>1. list \in List /\ list.fetch = "served"
  BY DEF ListInv, AccountsInv, RowsKnown, ReceiveMembers
<1>2. l \in List /\ l.fetch = "none" /\ l.data = list.carry /\ l.due = FALSE /\ l.behind = list.behind
      /\ l.data \in SUBSET Accounts
  BY <1>1 DEF List
<1>3. UpdateList(l)
  BY DEF ReceiveMembers
<1> HIDE DEF l
<1>4. ~l.behind => OnItsWay \/ l.data = Here
  BY <1>1, <1>2 DEF ListInv, ListKnown
<1>5. l.data # NoAsk
  BY <1>2, ValuesDiffer
<1> QED BY <1>2, <1>3, <1>4, <1>5, ListChanges

\* A fetch fails.
LEMMA Fails0 == ASSUME ListInv, FailMembers PROVE ListInv'
<1> DEFINE l == [list EXCEPT !.fetch = "none", !.carry = {}, !.behind = TRUE]
<1>1. list \in List
  BY DEF ListInv, AccountsInv, RowsKnown
<1>2. l \in List /\ l.behind
  BY <1>1 DEF List
<1>3. UpdateList(l)
  BY DEF FailMembers
<1> HIDE DEF l
<1> QED BY <1>2, <1>3, ListChanges

-----------------------------------------------------------------------------

\* Only the administrator has an account.
LEMMA MembersInitInv == ASSUME MembersInit PROVE ListInv
<1>1. New(0) \in Account
  BY NewAccounts DEF FieldValues
<1>2. list \in List /\ list.fetch = "none" /\ list.data = NoAsk /\ ~list.open
  <2>1. list = [open |-> FALSE, data |-> NoAsk, due |-> FALSE, fetch |-> "none", carry |-> {}, behind |-> FALSE]
    BY DEF MembersInit
  <2>2. {} \in SUBSET Accounts
    OBVIOUS
  <2> QED BY <2>1, <2>2 DEF List
<1>3. RowsKnown
  BY <1>1, <1>2, ValuesDiffer DEF MembersInit, RowsKnown, Present
<1>4. AsksKnown
  BY DEF MembersInit, AsksKnown
<1> QED BY <1>2, <1>3, <1>4 DEF MembersInit, ListInv, AccountsInv, AccountsAsMeant, ListKnown, OpenKnown

\* Every step keeps the invariant.
LEMMA MembersNextInv == ASSUME ListInv, [MembersNext]_membersVars PROVE ListInv'
<1>1. CASE UNCHANGED membersVars
  BY <1>1 DEF membersVars, ListInv, AccountsInv, AsksKnown, Asking, RowsKnown, Present, AccountsAsMeant,
              ListKnown, OnItsWay, Here, OpenKnown
<1>2. ASSUME NEW r \in Asks,
             \/ UpdateMe(r) \/ SaveSelect(r) \/ SaveWrite(r) \/ UploadAvatar(r) \/ AvatarWrite(r)
             \/ Invite(r) \/ InviteInsert(r) \/ Remove(r) \/ RemoveDelete(r)
             \/ AskAnswered(r) \/ DropAnswer(r)
      PROVE  ListInv'
  BY <1>2, UpdateMes, SaveSelects, SaveWrites, UploadAvatars, AvatarWrites, Invites, InviteInserts,
     Removes, RemoveDeletes, Answers0, Drops
<1>3. CASE VisitMembers \/ ServeMembers \/ ReceiveMembers \/ FailMembers
  BY <1>3, Visits, Serves, Receives, Fails0
<1> QED BY <1>1, <1>2, <1>3 DEF MembersNext

\* It always holds.
LEMMA MembersAre == MembersSpec => []ListInv
BY MembersInitInv, MembersNextInv, PTL DEF MembersSpec

\* An account has what was last asked for it, however updates, uploads, invitations
\* and removals interleave, but for an update overtaken by another change.
THEOREM AccountsAreAsMeant == MembersSpec => []MembersInv
<1>1. ListInv => MembersInv
  BY DEF ListInv, AccountsInv, RowsKnown, AsksKnown, MembersInv, MembersTypeOK
<1> QED BY <1>1, MembersAre, PTL

\* The members page lists the members there are, once what it asked for is answered.
THEOREM ListIsRight == MembersSpec => []MembersListed
<1>1. ListInv => MembersListed
  <2> SUFFICES ASSUME ListInv, list.open, list.fetch = "none", ~list.behind, ~Pending({"invite", "remove"})
               PROVE  list.data = Here
    BY DEF MembersListed
  <2>1. ~OnItsWay
    BY DEF OnItsWay, Pending
  <2> QED BY <2>1 DEF ListInv, ListKnown, OpenKnown
<1> QED BY <1>1, MembersAre, PTL

-----------------------------------------------------------------------------
(* The pages of the list of issues.                                         *)

PagesTyped ==
  /\ order \in [Ids -> Places \cup {Out}] /\ got \in [Ids -> Int]
  /\ reader \in [cursor : Cursor \cup {NoCursor}, ids : SUBSET Ids, done : BOOLEAN, torn : BOOLEAN]

\* An issue nobody touched was given once if the cursor is past it, or at the end;
\* until then never.
Given(i) == got[i] = IF order[i] # Out /\ (reader.done \/ ~After(i, reader.cursor)) THEN 1 ELSE 0

\* Whatever was torn, it was given once at most, and then the cursor is past it.
AtMostOnce(i) ==
  /\ got[i] \in {0, 1}
  /\ got[i] = 1 => order[i] # Out /\ (reader.done \/ ~After(i, reader.cursor))

\* The ids of the page under way: the first of those that match.  An issue that matches
\* and is not among them comes after them all, and there are more than are given.
IdsKnown ==
  /\ \A i \in reader.ids : order[i] # Out /\ After(i, reader.cursor)
  /\ \A i \in Ids \ (shifted \cup reader.ids) :
       order[i] # Out /\ After(i, reader.cursor) =>
         /\ \A j \in reader.ids : Before(j, i)
         /\ Cardinality(reader.ids) > Limit

PagesInv ==
  /\ PagesTyped
  /\ \A i \in Ids \ shifted : AtMostOnce(i) /\ (reader.torn \/ Given(i))
  /\ reader.ids # {} => ~reader.done /\ (reader.torn \/ IdsKnown)

\* A finite set of issues that has one has a last one, in a total order.
LEMMA LastExists ==
  ASSUME NEW S, IsFiniteSet(S), S # {}, NEW L,
         \A i, j \in S : i = j \/ <<i, j>> \in L \/ <<j, i>> \in L,
         \A i, j, k \in S : <<i, j>> \in L /\ <<j, k>> \in L => <<i, k>> \in L
  PROVE  \E m \in S : \A j \in S \ {m} : <<j, m>> \in L
<1> DEFINE HasLast(T) == \E m \in T : \A j \in T \ {m} : <<j, m>> \in L
           Lacking == {T \in FiniteSubsetsOf(S) : T # {} /\ ~HasLast(T)}
<1>1. ASSUME Lacking # {} PROVE FALSE
  <2>1. Lacking \subseteq FiniteSubsetsOf(S)
    OBVIOUS
  <2>2. PICK T \in Lacking : \A U \in Lacking : <<U, T>> \notin StrictSubsetOrdering(S)
    <3> HIDE DEF Lacking
    <3> QED BY <1>1, <2>1, FS_StrictSubsetOrderingWellFounded, WFMin
  <2>3. PICK x \in T : TRUE
    BY <2>2
  <2>4. T \subseteq S /\ IsFiniteSet(T) /\ IsFiniteSet(T \ {x})
    BY <2>2, FS_RemoveElement DEF FiniteSubsetsOf
  <2>5. T \ {x} \notin Lacking
    <3>1. T \ {x} \in SUBSET S /\ T \in SUBSET S /\ T \ {x} \subseteq T /\ T \ {x} # T
      BY <2>3, <2>4
    <3>2. <<T \ {x}, T>> \in StrictSubsetOrdering(S)
      BY <3>1 DEF StrictSubsetOrdering
    <3> HIDE DEF Lacking
    <3> QED BY <2>2, <3>2
  <2>6. T \ {x} = {} \/ HasLast(T \ {x})
    BY <2>4, <2>5 DEF FiniteSubsetsOf
  <2>7. T \ {x} = {} => HasLast(T)
    BY <2>3
  <2>8. ASSUME HasLast(T \ {x}) PROVE HasLast(T)
    <3>1. PICK m \in T \ {x} : \A j \in (T \ {x}) \ {m} : <<j, m>> \in L
      BY <2>8
    <3>2. CASE <<x, m>> \in L
      BY <3>1, <3>2
    <3>3. CASE <<m, x>> \in L
      <4>1. ASSUME NEW j \in T \ {x} PROVE <<j, x>> \in L
        BY <2>3, <2>4, <3>1, <3>3
      <4> QED BY <2>3, <4>1
    <3> QED BY <2>3, <2>4, <3>1, <3>2, <3>3
  <2> QED BY <2>2, <2>6, <2>7, <2>8
<1>2. S \in FiniteSubsetsOf(S)
  BY DEF FiniteSubsetsOf
<1> QED BY <1>1, <1>2

\* ORDER BY order, id is a total order of the issues there are.
LEMMA BeforeIsTotal ==
  ASSUME PagesTyped, NEW i \in Ids, NEW j \in Ids, NEW k \in Ids, order[i] # Out, order[j] # Out, order[k] # Out
  PROVE  /\ i = j \/ Before(i, j) \/ Before(j, i)
         /\ Before(i, j) /\ Before(j, k) => Before(i, k)
         /\ ~Before(i, i)
<1>1. order[i] \in Int /\ order[j] \in Int /\ order[k] \in Int /\ i \in Int /\ j \in Int /\ k \in Int
  BY PagesAssumption DEF PagesTyped
<1> QED BY <1>1 DEF Before

\* Issues of which there are any have a first and a last one.
LEMMA EndsExist ==
  ASSUME PagesTyped, NEW S \in SUBSET Ids, S # {}, \A i \in S : order[i] # Out
  PROVE  /\ \E m \in S : \A j \in S \ {m} : Before(j, m)
         /\ \E m \in S : \A j \in S \ {m} : Before(m, j)
<1> DEFINE L == {p \in Ids \X Ids : Before(p[1], p[2])}
           M == {p \in Ids \X Ids : Before(p[2], p[1])}
<1>1. IsFiniteSet(S)
  BY FS_Subset, PagesAssumption
<1>2. \A i, j \in S : (<<i, j>> \in L <=> Before(i, j)) /\ (<<i, j>> \in M <=> Before(j, i))
  OBVIOUS
<1> HIDE DEF L, M
<1>3. \A i, j, k \in S : /\ i = j \/ Before(i, j) \/ Before(j, i)
                         /\ Before(i, j) /\ Before(j, k) => Before(i, k)
  BY BeforeIsTotal
<1>4. \E m \in S : \A j \in S \ {m} : <<j, m>> \in L
  <2>1. \A i, j \in S : i = j \/ <<i, j>> \in L \/ <<j, i>> \in L
    BY <1>2, <1>3
  <2>2. \A i, j, k \in S : <<i, j>> \in L /\ <<j, k>> \in L => <<i, k>> \in L
    BY <1>2, <1>3
  <2> QED BY <1>1, <2>1, <2>2, LastExists
<1>5. \E m \in S : \A j \in S \ {m} : <<j, m>> \in M
  <2>1. \A i, j \in S : i = j \/ <<i, j>> \in M \/ <<j, i>> \in M
    BY <1>2, <1>3
  <2>2. \A i, j, k \in S : <<i, j>> \in M /\ <<j, k>> \in M => <<i, k>> \in M
    BY <1>2, <1>3
  <2> QED BY <1>1, <2>1, <2>2, LastExists
<1> QED BY <1>2, <1>4, <1>5

\* What the first n of some issues are: all before any that is left out; if one is left
\* out there are more than n, and n of them are first.
LEMMA FirstOfIs ==
  ASSUME PagesTyped, NEW M \in SUBSET Ids, \A i \in M : order[i] # Out, NEW n \in Nat \ {0}
  PROVE  /\ FirstOf(M, n) \subseteq M /\ IsFiniteSet(M)
         /\ \A i \in M \ FirstOf(M, n), j \in FirstOf(M, n) : Before(j, i)
         /\ M # {} => FirstOf(M, n) # {}
         /\ M # FirstOf(M, n) => Cardinality(M) > n
<1> DEFINE Preds(i) == {j \in M : Before(j, i)}
<1>1. M \in SUBSET Ids /\ \A i \in M : order[i] # Out
  OBVIOUS
<1>2. IsFiniteSet(M) /\ \A i \in M : IsFiniteSet(Preds(i)) /\ Cardinality(Preds(i)) \in Nat
  <2>1. IsFiniteSet(M)
    BY <1>1, FS_Subset, PagesAssumption
  <2>2. ASSUME NEW i \in M PROVE IsFiniteSet(Preds(i))
    BY <2>1, FS_Subset
  <2> QED BY <2>1, <2>2, FS_CardinalityType
<1>3. FirstOf(M, n) = {i \in M : Cardinality(Preds(i)) < n}
  BY DEF FirstOf
<1>4. ASSUME NEW i \in M \ FirstOf(M, n), NEW j \in FirstOf(M, n) PROVE Before(j, i)
  <2>1. j \in M /\ Cardinality(Preds(j)) < n /\ ~(Cardinality(Preds(i)) < n)
    BY <1>3, <1>4
  <2>2. ASSUME Before(i, j) PROVE FALSE
    <3>1. Preds(i) \subseteq Preds(j)
      <4>1. ASSUME NEW k \in M, Before(k, i) PROVE Before(k, j)
        BY <1>1, <2>1, <2>2, <4>1, BeforeIsTotal
      <4> QED BY <4>1
    <3>2. Cardinality(Preds(i)) <= Cardinality(Preds(j))
      BY <1>2, <2>1, <3>1, FS_Subset
    <3>3. Cardinality(Preds(i)) \in Nat /\ Cardinality(Preds(j)) \in Nat /\ n \in Nat
      BY <1>2, <2>1
    <3> HIDE DEF Preds
    <3> QED BY <2>1, <3>2, <3>3
  <2>3. i # j
    BY <1>4
  <2> QED BY <1>1, <2>1, <2>2, <2>3, BeforeIsTotal
<1>5. ASSUME M # {} PROVE FirstOf(M, n) # {}
  <2>1. PICK m \in M : \A j \in M \ {m} : Before(m, j)
    BY <1>1, <1>5, EndsExist
  <2>2. ASSUME NEW j \in Preds(m) PROVE FALSE
    <3>1. j \in M /\ Before(j, m)
      OBVIOUS
    <3>2. j # m
      BY <1>1, <3>1, BeforeIsTotal
    <3>3. Before(m, j)
      BY <2>1, <3>1, <3>2
    <3> QED BY <1>1, <3>1, <3>3, BeforeIsTotal
  <2>3. Preds(m) = {}
    BY <2>2
  <2>4. Cardinality(Preds(m)) = 0
    BY <2>3, FS_EmptySet
  <2>5. m \in FirstOf(M, n)
    BY <1>3, <2>4
  <2> QED BY <2>5
<1>6. ASSUME M # FirstOf(M, n) PROVE Cardinality(M) > n
  <2>1. PICK i \in M : ~(Cardinality(Preds(i)) < n)
    BY <1>3, <1>6
  <2>2. i \notin Preds(i)
    BY <1>1, BeforeIsTotal
  <2>3. Preds(i) \in SUBSET (M \ {i}) /\ IsFiniteSet(M \ {i})
    BY <1>2, <2>2, FS_RemoveElement
  <2>4. Cardinality(Preds(i)) <= Cardinality(M \ {i})
    BY <2>3, FS_Subset
  <2>5. Cardinality(M \ {i}) = Cardinality(M) - 1 /\ Cardinality(M) \in Nat
    BY <1>2, FS_RemoveElement, FS_CardinalityType
  <2>6. Cardinality(Preds(i)) \in Nat /\ n \in Nat
    BY <1>2
  <2> HIDE DEF Preds
  <2> QED BY <2>1, <2>4, <2>5, <2>6
<1> QED BY <1>2, <1>3, <1>4, <1>5, <1>6

\* If some are left out of the first n, the first n are n at least.
LEMMA FirstOfIsFull ==
  ASSUME PagesTyped, NEW M \in SUBSET Ids, \A i \in M : order[i] # Out, NEW n \in Nat \ {0},
         M # FirstOf(M, n)
  PROVE  Cardinality(FirstOf(M, n)) >= n
<1> DEFINE Preds(i) == {j \in M : Before(j, i)}
           F == FirstOf(M, n)
<1>1. IsFiniteSet(M) /\ IsFiniteSet(F) /\ F \subseteq M /\ \A i \in M \ F, j \in F : Before(j, i)
  BY FirstOfIs, FS_Subset
<1>2. M \ F # {} /\ M \ F \in SUBSET Ids /\ \A i \in M \ F : order[i] # Out
  BY <1>1
<1>3. PICK m \in M \ F : \A j \in (M \ F) \ {m} : Before(m, j)
  <2> HIDE DEF F
  <2> QED BY <1>2, EndsExist
<1>4. ASSUME NEW j \in Preds(m) PROVE j \in F
  <2>1. j \in M /\ Before(j, m) /\ m \in M
    BY <1>1, <1>3
  <2>2. j # m
    BY <2>1, BeforeIsTotal
  <2>3. ~Before(m, j)
    BY <2>1, BeforeIsTotal
  <2> QED BY <1>3, <2>1, <2>2, <2>3
<1>5. Preds(m) \subseteq F
  BY <1>4
<1>6. Cardinality(Preds(m)) <= Cardinality(F) /\ Cardinality(F) \in Nat /\ IsFiniteSet(Preds(m))
      /\ Cardinality(Preds(m)) \in Nat
  BY <1>1, <1>5, FS_Subset, FS_CardinalityType
<1>7. ~(Cardinality(Preds(m)) < n)
  BY <1>1, <1>3 DEF FirstOf
<1> QED BY <1>6, <1>7

\* The ids are selected, or there are none.
LEMMA FindIdsKeeps == ASSUME PagesInv, FindIds PROVE PagesInv'
<1> DEFINE c == reader.cursor
           found == Matches(c)
           ids == FirstOf(found, Limit + 1)
<1>1. PagesTyped /\ c \in Cursor \cup {NoCursor} /\ Limit \in Nat \ {0} /\ Limit + 1 \in Nat \ {0}
  BY PagesAssumption DEF PagesInv, PagesTyped
<1>2. ~reader.done /\ reader' = [reader EXCEPT !.ids = ids, !.done = (found = {})] /\ UNCHANGED <<order, got, shifted>>
  BY DEF FindIds
<1>3. found \in SUBSET Ids /\ \A i \in found : order[i] # Out /\ After(i, c)
  BY DEF Matches
<1>4. /\ ids \subseteq found /\ IsFiniteSet(found) /\ \A i \in found \ ids, j \in ids : Before(j, i)
      /\ found # {} => ids # {}
      /\ found # ids => Cardinality(ids) > Limit
  <2> HIDE DEF found
  <2>1. /\ ids \subseteq found /\ IsFiniteSet(found) /\ \A i \in found \ ids, j \in ids : Before(j, i)
        /\ found # {} => ids # {}
    BY <1>1, <1>3, FirstOfIs
  <2>2. ASSUME found # ids PROVE Cardinality(ids) > Limit
    <3>1. Cardinality(ids) >= Limit + 1
      BY <1>1, <1>3, <2>2, FirstOfIsFull
    <3>2. Cardinality(ids) \in Nat
      BY <2>1, FS_Subset, FS_CardinalityType
    <3> QED BY <1>1, <3>1, <3>2
  <2> QED BY <2>1, <2>2
<1>5. (found = {}) \in BOOLEAN
  OBVIOUS
<1> HIDE DEF ids
<1>6. /\ reader'.cursor = c /\ reader'.ids = ids /\ (reader'.done <=> found = {}) /\ reader'.torn = reader.torn
      /\ reader' \in [cursor : Cursor \cup {NoCursor}, ids : SUBSET Ids, done : BOOLEAN, torn : BOOLEAN]
  <2> HIDE DEF found
  <2> QED BY <1>1, <1>2, <1>3, <1>4, <1>5 DEF PagesTyped
<1>7. PagesTyped'
  BY <1>1, <1>2, <1>6 DEF PagesTyped
<1>8. ASSUME NEW i \in Ids \ shifted' PROVE AtMostOnce(i)' /\ (reader'.torn \/ Given(i)')
  <2>1. AtMostOnce(i) /\ (reader.torn \/ Given(i)) /\ order' = order /\ got' = got
    BY <1>2, <1>8 DEF PagesInv
  <2>2. AtMostOnce(i)'
    BY <1>2, <1>6, <2>1 DEF AtMostOnce, After
  <2>3. ASSUME Given(i) PROVE Given(i)'
    <3>1. CASE found = {}
      <4>1. order[i] # Out => ~After(i, c)
        BY <3>1 DEF Matches
      <4> QED BY <1>2, <1>6, <2>1, <2>3, <4>1 DEF Given, After
    <3>2. CASE found # {}
      BY <1>2, <1>6, <2>1, <2>3, <3>2 DEF Given, After
    <3> QED BY <3>1, <3>2
  <2> QED BY <1>6, <2>1, <2>2, <2>3
<1>9. ids # {} => IdsKnown'
  <2>1. \A i \in ids : order[i] # Out /\ After(i, c)
    BY <1>3, <1>4
  <2>2. ASSUME NEW i \in Ids \ (shifted \cup ids), order[i] # Out, After(i, c)
        PROVE  (\A j \in ids : Before(j, i)) /\ Cardinality(ids) > Limit
    <3>1. i \in found \ ids
      BY <2>2 DEF Matches
    <3> QED BY <1>4, <3>1
  <2>3. \A i, j \in Ids : Before(i, j)' <=> Before(i, j)
    BY <1>2 DEF Before
  <2>4. order' = order /\ shifted' = shifted /\ reader'.ids = ids /\ ids \subseteq Ids /\ reader'.cursor = c
    BY <1>2, <1>3, <1>4, <1>6
  <2>5. ASSUME NEW i \in ids PROVE order'[i] # Out /\ After(i, reader.cursor)'
    BY <2>1, <2>4, <2>5 DEF After
  <2>6. ASSUME NEW i \in Ids \ (shifted' \cup ids), order'[i] # Out, After(i, reader.cursor)'
        PROVE  (\A j \in ids : Before(j, i)') /\ Cardinality(ids) > Limit
    <3>1. i \in Ids \ (shifted \cup ids) /\ order[i] # Out /\ After(i, c)
      BY <2>4, <2>6 DEF After
    <3> QED BY <2>2, <2>3, <2>4, <3>1
  <2> QED BY <2>4, <2>5, <2>6 DEF IdsKnown
<1>10. reader'.ids # {} => ~reader'.done
  BY <1>4, <1>6
<1> QED BY <1>6, <1>7, <1>8, <1>9, <1>10 DEF PagesInv

\* The rows are given, and the cursor moves to the last of them.
LEMMA FindRowsKeeps == ASSUME PagesInv, FindRows PROVE PagesInv'
<1> DEFINE c == reader.cursor
           found == reader.ids \cap Matches(c)
           given == FirstOf(found, Limit)
           last == CHOOSE i \in given : \A j \in given \ {i} : Before(j, i)
           new == IF given = {} THEN NoCursor ELSE [order |-> order[last], id |-> last]
<1>1. PagesTyped /\ ~reader.done /\ c \in Cursor \cup {NoCursor} /\ Limit \in Nat \ {0} /\ reader.ids # {}
  BY PagesAssumption DEF PagesInv, PagesTyped, FindRows
<1>2. /\ got' = [i \in Ids |-> IF i \in given THEN got[i] + 1 ELSE got[i]]
      /\ reader' = [reader EXCEPT !.cursor = new, !.ids = {}, !.done = Cardinality(found) <= Limit]
      /\ UNCHANGED <<order, shifted>>
  BY DEF FindRows
<1>3. found \in SUBSET Ids /\ found \subseteq reader.ids /\ \A i \in found : order[i] # Out /\ order[i] \in Places /\ After(i, c)
  BY <1>1 DEF Matches, PagesTyped
<1> HIDE DEF found
<1>4. /\ given \subseteq found /\ IsFiniteSet(found) /\ \A i \in found \ given, j \in given : Before(j, i)
      /\ found # {} => given # {}
      /\ found # given => Cardinality(found) > Limit
  BY <1>1, <1>3, FirstOfIs
<1>5. Cardinality(found) \in Nat
  BY <1>4, FS_CardinalityType
<1> HIDE DEF given
<1>6. ASSUME given # {}
      PROVE  last \in given /\ \A j \in given \ {last} : Before(j, last)
  <2>1. \E m \in given : \A j \in given \ {m} : Before(j, m)
    BY <1>1, <1>3, <1>4, <1>6, EndsExist
  <2> QED BY <2>1
<1> HIDE DEF last
<1>7. new \in Cursor \cup {NoCursor} /\ (given # {} => new = [order |-> order[last], id |-> last] /\ new # NoCursor)
  <2>1. CASE given = {}
    BY <2>1
  <2>2. CASE given # {}
    <3>1. last \in Ids /\ order[last] \in Places
      BY <1>3, <1>4, <1>6, <2>2
    <3>2. new = [order |-> order[last], id |-> last]
      BY <2>2
    <3> QED BY <3>1, <3>2, PagesAssumption DEF Cursor
  <2> QED BY <2>1, <2>2
<1> HIDE DEF new
<1>8. (Cardinality(found) <= Limit) \in BOOLEAN
  OBVIOUS
<1>9. /\ reader'.cursor = new /\ reader'.ids = {} /\ (reader'.done <=> Cardinality(found) <= Limit) /\ reader'.torn = reader.torn
      /\ reader' \in [cursor : Cursor \cup {NoCursor}, ids : SUBSET Ids, done : BOOLEAN, torn : BOOLEAN]
  BY <1>1, <1>2, <1>7, <1>8 DEF PagesTyped
<1>10. PagesTyped'
  BY <1>1, <1>2, <1>9 DEF PagesTyped
<1>11. given = {} => reader'.done
  <2> SUFFICES ASSUME given = {} PROVE reader'.done
    OBVIOUS
  <2>1. Cardinality(found) = 0
    BY <1>4, FS_EmptySet
  <2> QED BY <1>1, <1>9, <2>1
\* The cursor only goes on, and is past what is given.
<1>12. ASSUME NEW i \in Ids, order[i] # Out, i \in given \/ ~After(i, c), given # {} PROVE ~After(i, new)
  <2>1. order[i] \in Int /\ i \in Int /\ order[last] \in Int /\ last \in Int /\ After(last, c)
    BY <1>1, <1>3, <1>4, <1>6, <1>12, PagesAssumption DEF PagesTyped
  <2>2. new # NoCursor /\ new.order = order[last] /\ new.id = last
    BY <1>7, <1>12
  <2>3. CASE i \in given
    <3>1. i = last \/ Before(i, last)
      BY <1>6, <2>3
    <3> QED BY <2>1, <2>2, <3>1 DEF After, Before
  <2>4. CASE ~After(i, c)
    <3>1. c # NoCursor /\ c.order \in Int /\ c.id \in Int
      BY <1>1, <2>4, PagesAssumption DEF After, Cursor
    <3> QED BY <2>1, <2>2, <2>4, <3>1 DEF After
  <2> QED BY <1>12, <2>3, <2>4
<1>13. ASSUME NEW i \in Ids \ shifted PROVE AtMostOnce(i)' /\ (reader.torn \/ Given(i)')
  <2>1. /\ AtMostOnce(i) /\ (reader.torn \/ Given(i)) /\ got'[i] = IF i \in given THEN got[i] + 1 ELSE got[i]
        /\ order' = order
    BY <1>2 DEF PagesInv
  <2>2. AtMostOnce(i)' <=> got'[i] \in {0, 1} /\ (got'[i] = 1 => order[i] # Out /\ (reader'.done \/ ~After(i, new)))
    BY <1>9, <2>1 DEF AtMostOnce, After
  <2>3. Given(i)' <=> got'[i] = IF order[i] # Out /\ (reader'.done \/ ~After(i, new)) THEN 1 ELSE 0
    BY <1>9, <2>1 DEF Given, After
  <2>4. CASE i \in given
    <3>1. order[i] # Out /\ After(i, c) /\ ~After(i, new)
      BY <1>3, <1>4, <1>12, <2>4
    <3>2. got[i] = 0 /\ got'[i] = 1
      BY <1>1, <2>1, <2>4, <3>1 DEF AtMostOnce
    <3> QED BY <2>2, <2>3, <3>1, <3>2
  <2>5. CASE i \notin given
    <3>1. got'[i] = got[i]
      BY <2>1, <2>5
    <3>2. AtMostOnce(i)'
      <4>1. ASSUME got[i] = 1, ~reader'.done PROVE ~After(i, new)
        <5>1. ~After(i, c) /\ given # {}
          BY <1>1, <1>11, <2>1, <4>1 DEF AtMostOnce
        <5>2. CASE order[i] # Out
          BY <1>12, <5>1, <5>2
        <5>3. order[i] # Out
          BY <2>1, <4>1 DEF AtMostOnce
        <5> QED BY <5>2, <5>3
      <4> QED BY <2>1, <2>2, <3>1, <4>1 DEF AtMostOnce
    <3>3. ASSUME ~reader.torn PROVE Given(i)'
      <4>1. Given(i) /\ IdsKnown
        BY <1>1, <2>1, <3>3 DEF PagesInv
      <4>2. found = reader.ids
        BY <1>1, <4>1 DEF found, IdsKnown, Matches, PagesTyped
      <4>3. CASE order[i] = Out
        BY <2>3, <3>1, <4>1, <4>3 DEF Given
      <4>4. CASE order[i] # Out /\ ~After(i, c)
        BY <1>1, <1>11, <1>12, <2>3, <3>1, <4>1, <4>4 DEF Given
      <4>5. CASE order[i] # Out /\ After(i, c)
        <5>1. got[i] = 0
          BY <1>1, <4>1, <4>5 DEF Given
        <5>2. Cardinality(found) > Limit /\ \A j \in given : Before(j, i)
          <6>1. CASE i \in reader.ids
            BY <1>4, <2>5, <4>2, <6>1
          <6>2. CASE i \notin reader.ids
            BY <1>4, <1>13, <4>1, <4>2, <4>5, <6>2 DEF IdsKnown
          <6> QED BY <6>1, <6>2
        <5>3. ~reader'.done /\ given # {}
          BY <1>1, <1>5, <1>9, <1>11, <5>2
        <5>4. Before(last, i)
          BY <1>6, <5>2, <5>3
        <5>5. After(i, new)
          <6>1. order[i] \in Int /\ i \in Int /\ order[last] \in Int /\ last \in Int
            BY <1>1, <1>3, <1>4, <1>6, <4>5, <5>3, PagesAssumption DEF PagesTyped
          <6>2. new # NoCursor /\ new.order = order[last] /\ new.id = last
            BY <1>7, <5>3
          <6> QED BY <5>4, <6>1, <6>2 DEF After, Before
        <5> QED BY <2>3, <3>1, <5>1, <5>3, <5>5
      <4> QED BY <4>3, <4>4, <4>5
    <3> QED BY <3>2, <3>3
  <2> QED BY <2>4, <2>5
<1> QED BY <1>2, <1>9, <1>10, <1>13 DEF PagesInv

\* A change makes no promise about the issue it changes, and none of the others moves;
\* it tears the page whose ids it is among.
LEMMA Shifts == ASSUME PagesInv, NEW i \in Ids, Shift(i) PROVE PagesInv'
<1>1. PICK o \in Places \cup {Out} : order' = [order EXCEPT ![i] = o]
  BY DEF Shift
<1>2. /\ reader' = [reader EXCEPT !.torn = (reader.torn \/ i \in reader.ids)] /\ UNCHANGED got
      /\ shifted' = shifted \cup {i}
  BY DEF Shift
<1>3. (reader.torn \/ i \in reader.ids) \in BOOLEAN
  OBVIOUS
<1>4. /\ reader'.cursor = reader.cursor /\ reader'.ids = reader.ids /\ reader'.done = reader.done
      /\ (reader'.torn <=> reader.torn \/ i \in reader.ids)
      /\ reader' \in [cursor : Cursor \cup {NoCursor}, ids : SUBSET Ids, done : BOOLEAN, torn : BOOLEAN]
  BY <1>2, <1>3 DEF PagesInv, PagesTyped
<1>5. PagesTyped'
  BY <1>1, <1>2, <1>4 DEF PagesInv, PagesTyped
<1>6. \A j \in Ids \ {i} : order'[j] = order[j]
  BY <1>1 DEF PagesInv, PagesTyped
<1>7. ASSUME NEW j \in Ids \ shifted' PROVE AtMostOnce(j)' /\ (reader'.torn \/ Given(j)')
  <2>1. j \in Ids \ shifted /\ order'[j] = order[j]
    BY <1>2, <1>6, <1>7
  <2>2. AtMostOnce(j) /\ (reader.torn \/ Given(j))
    BY <2>1 DEF PagesInv
  <2>3. After(j, reader.cursor)' <=> After(j, reader.cursor)
    BY <1>4, <2>1 DEF After
  <2> QED BY <1>2, <1>4, <2>1, <2>2, <2>3 DEF AtMostOnce, Given
<1>8. ASSUME reader.ids # {}, ~reader'.torn PROVE IdsKnown'
  <2>1. i \notin reader.ids /\ IdsKnown /\ reader.ids \subseteq Ids
    BY <1>4, <1>8 DEF PagesInv, PagesTyped
  <2>2. ASSUME NEW j \in reader.ids PROVE order'[j] # Out /\ After(j, reader.cursor)'
    BY <1>4, <1>6, <2>1, <2>2 DEF IdsKnown, After
  <2>3. ASSUME NEW j \in Ids \ (shifted' \cup reader.ids), order'[j] # Out, After(j, reader.cursor)'
        PROVE  (\A k \in reader.ids : Before(k, j)') /\ Cardinality(reader.ids) > Limit
    <3>1. j \in Ids \ (shifted \cup reader.ids) /\ order'[j] = order[j]
      BY <1>2, <1>6, <2>3
    <3>2. order[j] # Out /\ After(j, reader.cursor)
      BY <1>4, <2>3, <3>1 DEF After
    <3>3. (\A k \in reader.ids : Before(k, j)) /\ Cardinality(reader.ids) > Limit
      BY <2>1, <3>1, <3>2 DEF IdsKnown
    <3>4. ASSUME NEW k \in reader.ids PROVE Before(k, j)'
      BY <1>6, <2>1, <3>1, <3>3 DEF Before
    <3> QED BY <3>3, <3>4
  <2> QED BY <1>4, <2>2, <2>3 DEF IdsKnown
<1>9. reader.ids # {} => ~reader.done
  BY DEF PagesInv
<1> QED BY <1>4, <1>5, <1>7, <1>8, <1>9 DEF PagesInv

\* Every step keeps the invariant.
LEMMA PagesNextInv == ASSUME PagesInv, [PagesNext]_pagesVars PROVE PagesInv'
<1>1. CASE UNCHANGED pagesVars
  BY <1>1 DEF pagesVars, PagesInv, PagesTyped, AtMostOnce, Given, IdsKnown, After, Before
<1> QED BY <1>1, FindIdsKeeps, FindRowsKeeps, Shifts DEF PagesNext

\* A client that follows the cursors to the end is given every issue nobody touched at
\* most once, and, unless an issue of a page was changed between the two SELECTs of that
\* page, exactly once, whatever becomes of the others, for any page size.
THEOREM IssuesAreGivenOnce == PagesSpec => []EachGivenOnce
<1>1. PagesInit => PagesInv
  <2> SUFFICES ASSUME PagesInit PROVE PagesInv
    OBVIOUS
  <2>1. PagesTyped /\ reader.ids = {} /\ ~reader.done /\ reader.cursor = NoCursor
    BY DEF PagesInit, PagesTyped
  <2>2. ASSUME NEW i \in Ids PROVE AtMostOnce(i) /\ Given(i)
    BY <2>1 DEF PagesInit, AtMostOnce, Given, After
  <2> QED BY <2>1, <2>2 DEF PagesInv
<1>2. PagesInv => EachGivenOnce
  BY DEF PagesInv, PagesTyped, AtMostOnce, Given, EachGivenOnce
<1> QED BY <1>1, <1>2, PagesNextInv, PTL DEF PagesSpec

-----------------------------------------------------------------------------
(* The issue drawer.                                                        *)

\* What posts hold: a description for an issue, nothing for a comment.
DrawerTyped ==
  /\ stored \in [Keys -> Values]
  /\ query \in [Keys -> Query]
  /\ drawer \in Drawer
  /\ post \in [Posts -> Post \cup {NoText}]
  /\ news \subseteq Keys /\ edits \in Nat
  /\ \A p \in Posts : post[p] # NoText => <<post[p].kind, post[p].issue>> \in Keys
                                          /\ (post[p].kind = "issue" => post[p].text \in Texts)

\* Unless an event under way will tell, or nothing will, the page has what the database
\* has, or will fetch it, and what a fetch carries is that.
QueryKnown(k) ==
  /\ k[1] = "issue" => \A v \in {stored[k], query[k].data, query[k].carry} : Text(v) \in Texts \cup {NoText}
  /\ k[1] = "comments" => stored[k] # NoText
  /\ query[k].fetch = "served" => query[k].carry # NoText
  /\ k \notin news /\ ~query[k].lost =>
       /\ query[k].fetch = "served" => query[k].carry = stored[k]
       /\ query[k].fetch = "none" => query[k].data = NoText \/ query[k].due \/ query[k].data = stored[k]
  /\ Active(drawer, k) /\ query[k].fetch = "none" /\ ~query[k].lost => ~query[k].due /\ query[k].data # NoText

\* The text box shows the issue's description, or what was sent from it, unless the
\* user types; there is one when there is an issue to show.
BoxKnown ==
  /\ drawer.focus => drawer.box # NoText
  /\ drawer.box # NoText => drawer.open \in Cards /\ query[Issue(drawer.open)].data # NoText
  /\ drawer.open \in Cards /\ ~drawer.focus /\ query[Issue(drawer.open)].data # NoText =>
       drawer.box \in {Text(query[Issue(drawer.open)].data), drawer.sent}

DrawerKnown == DrawerTyped /\ (\A k \in Keys : QueryKnown(k)) /\ BoxKnown

\* The keys of the queries.
LEMMA KeysAre ==
  /\ \A k \in Keys : k[2] \in Cards /\ (k[1] = "issue" => k = Issue(k[2])) /\ k[1] \in {"issue", "comments"}
  /\ \A i \in Cards : Issue(i) \in Keys /\ Issue(i)[1] = "issue" /\ Issue(i)[2] = i
  /\ \A i \in Discussed : <<"comments", i>> \in Keys
BY DrawerAssumption DEF Keys, Issue, Comments

\* What the assumption says of values.
LEMMA TextsAre == /\ NoText \notin Nat /\ NoText \notin Content /\ NoText \notin Post /\ NoCardOpen \notin Cards
                  /\ Texts \subseteq Nat /\ NoText \notin Texts /\ Discussed \subseteq Cards
                  /\ Text(NoText) = NoText
BY DrawerAssumption DEF Text

\* Only what is not there has no text.
LEMMA TextIs == ASSUME NEW v \in Values PROVE Text(v) = NoText <=> v = NoText
BY TextsAre DEF Text, Values, Content

\* What has not changed is still known.
LEMMA KeyStays ==
  ASSUME NEW k, QueryKnown(k), query'[k] = query[k], stored'[k] = stored[k], drawer' = drawer,
         k \in news => k \in news'
  PROVE  QueryKnown(k)'
BY DEF QueryKnown, Active

\* The box stays right while the drawer and the data stay.
LEMMA BoxStays ==
  ASSUME DrawerKnown, drawer' = drawer, \A k \in Keys : query'[k].data = query[k].data
  PROVE  BoxKnown'
BY KeysAre DEF DrawerKnown, BoxKnown

\* The query of one key goes on; its data stay.
LEMMA QueryGoes ==
  ASSUME DrawerKnown, NEW k \in Keys, NEW q \in Query, q.data = query[k].data,
         query' = [query EXCEPT ![k] = q], UNCHANGED <<stored, drawer, edits>>,
         UNCHANGED post \/ \E p \in Posts : post' = [post EXCEPT ![p] = NoText],
         news \ {k} \subseteq news', news' \subseteq Keys,
         q.fetch = "served" => q.carry # NoText, q.carry \in {NoText, query[k].carry, stored[k]},
         k \notin news' /\ ~q.lost =>
           /\ q.fetch = "served" => q.carry = stored[k]
           /\ q.fetch = "none" => q.data = NoText \/ q.due \/ q.data = stored[k],
         Active(drawer, k) /\ q.fetch = "none" /\ ~q.lost => ~q.due /\ q.data # NoText
  PROVE  DrawerKnown'
<1>1. query' \in [Keys -> Query] /\ query'[k] = q /\ \A l \in Keys \ {k} : query'[l] = query[l]
  BY DEF DrawerKnown, DrawerTyped
<1>2. /\ post' \in [Posts -> Post \cup {NoText}]
      /\ \A p \in Posts : post'[p] # NoText => post'[p] = post[p]
  BY DEF DrawerKnown, DrawerTyped
<1>3. DrawerTyped'
  BY <1>1, <1>2 DEF DrawerKnown, DrawerTyped
<1>4. QueryKnown(k)'
  <2>1. QueryKnown(k)
    BY DEF DrawerKnown
  <2>2. k[1] = "issue" => Text(q.carry) \in Texts \cup {NoText}
    BY <2>1, TextsAre DEF QueryKnown
  <2> QED BY <1>1, <2>1, <2>2 DEF QueryKnown, Active
<1>5. ASSUME NEW l \in Keys, l # k PROVE QueryKnown(l)'
  <2>1. QueryKnown(l) /\ query'[l] = query[l] /\ stored'[l] = stored[l] /\ (l \in news => l \in news')
    BY <1>1, <1>5 DEF DrawerKnown
  <2> QED BY <2>1, KeyStays
<1>6. BoxKnown'
  BY <1>1, BoxStays
<1> QED BY <1>3, <1>4, <1>5, <1>6 DEF DrawerKnown

\* The answer is read.
LEMMA QueryServes == ASSUME DrawerKnown, NEW k \in Keys, Serve(k) PROVE DrawerKnown'
<1> DEFINE q == [query[k] EXCEPT !.fetch = "served", !.carry = stored[k], !.lost = FALSE]
<1>1. query[k] \in Query /\ stored[k] \in Values /\ stored[k] # NoText /\ news \subseteq Keys
  BY DEF Serve, DrawerKnown, DrawerTyped
<1>2. q \in Query /\ q.data = query[k].data /\ q.fetch = "served" /\ q.carry = stored[k]
  BY <1>1 DEF Query, Values
<1>3. query' = [query EXCEPT ![k] = q] /\ UNCHANGED <<stored, drawer, edits, post, news>>
  BY DEF Serve, DrawerKnown, DrawerTyped
<1> HIDE DEF q
<1> QED BY <1>1, <1>2, <1>3, TextsAre, QueryGoes

\* A fetch fails.
LEMMA QueryFails == ASSUME DrawerKnown, NEW k \in Keys, FailFetch(k) PROVE DrawerKnown'
<1> DEFINE q == [query[k] EXCEPT !.fetch = "none", !.carry = NoText, !.lost = TRUE]
<1>1. query[k] \in Query /\ news \subseteq Keys
  BY DEF DrawerKnown, DrawerTyped
<1>2. q \in Query /\ q.data = query[k].data /\ q.fetch = "none" /\ q.lost /\ q.carry = NoText
  BY <1>1 DEF Query, Values
<1>3. query' = [query EXCEPT ![k] = q] /\ UNCHANGED <<stored, drawer, edits, post, news>>
  BY DEF FailFetch, DrawerKnown, DrawerTyped
<1> HIDE DEF q
<1> QED BY <1>1, <1>2, <1>3, QueryGoes

\* An event is lost.
LEMMA EventsGetLost == ASSUME DrawerKnown, NEW k \in Keys, LoseEvent(k) PROVE DrawerKnown'
<1> DEFINE q == [query[k] EXCEPT !.lost = TRUE]
<1>1. query[k] \in Query /\ news \subseteq Keys /\ QueryKnown(k)
  BY DEF DrawerKnown, DrawerTyped
<1>2. q \in Query /\ q.data = query[k].data /\ q.fetch = query[k].fetch /\ q.carry = query[k].carry /\ q.lost
  BY <1>1 DEF Query
<1>3. query' = [query EXCEPT ![k] = q] /\ UNCHANGED <<stored, drawer, edits, post>> /\ news' = news \ {k}
  BY DEF LoseEvent, DrawerKnown, DrawerTyped
<1> HIDE DEF q
<1>4. q.fetch = "served" => q.carry # NoText
  BY <1>1, <1>2 DEF QueryKnown
<1>5. news \ {k} \subseteq news' /\ news' \subseteq Keys
  BY <1>1, <1>3
<1> QED BY <1>2, <1>3, <1>4, <1>5, QueryGoes

\* A query that is invalidated.
LEMMA InvalidatedIs ==
  ASSUME DrawerKnown, NEW k \in Keys
  PROVE  LET q == Invalidated(k) IN
         /\ q \in Query /\ q.data = query[k].data /\ q.due = TRUE /\ q.lost = query[k].lost
         /\ q.carry \in {NoText, query[k].carry}
         /\ IF Active(drawer, k) /\ Restarts(query[k]) THEN q.fetch = "sent"
            ELSE q.fetch = query[k].fetch /\ q.carry = query[k].carry
BY DEF Invalidated, Sent, DrawerKnown, DrawerTyped, Query, Values

\* An event is heard.
LEMMA Hears == ASSUME DrawerKnown, NEW k \in Keys, Hear(k) PROVE DrawerKnown'
<1> DEFINE i == Invalidated(k)
           missed == query[k].fetch = "served" /\ ~(Active(drawer, k) /\ Restarts(query[k]))
           q == [i EXCEPT !.lost = i.lost \/ missed]
<1>1. query[k] \in Query /\ news \subseteq Keys /\ QueryKnown(k)
  BY DEF DrawerKnown, DrawerTyped
<1>2. /\ i \in Query /\ i.data = query[k].data /\ i.due = TRUE /\ i.lost = query[k].lost /\ i.carry \in {NoText, query[k].carry}
      /\ IF Active(drawer, k) /\ Restarts(query[k]) THEN i.fetch = "sent"
         ELSE i.fetch = query[k].fetch /\ i.carry = query[k].carry
  BY InvalidatedIs
<1> HIDE DEF i
<1>3. q \in Query /\ q.data = i.data /\ q.due = i.due /\ q.fetch = i.fetch /\ q.carry = i.carry
      /\ (q.lost <=> i.lost \/ missed)
  <2>1. missed \in BOOLEAN
    OBVIOUS
  <2> HIDE DEF missed
  <2> QED BY <1>2, <2>1 DEF Query
<1>4. query' = [query EXCEPT ![k] = q] /\ UNCHANGED <<stored, drawer, edits, post>> /\ news' = news \ {k}
  BY DEF Hear, i
<1> HIDE DEF q
<1>5. q.fetch = "served" => q.carry # NoText
  BY <1>1, <1>2, <1>3 DEF QueryKnown
<1>6. ~q.lost => /\ q.fetch = "served" => q.carry = stored[k]
                 /\ q.fetch = "none" => q.data = NoText \/ q.due \/ q.data = stored[k]
  BY <1>2, <1>3
<1>7. Active(drawer, k) /\ q.fetch = "none" => FALSE
  BY <1>2, <1>3 DEF Restarts
<1>8. news \ {k} \subseteq news' /\ news' \subseteq Keys
  BY <1>1, <1>4
<1> QED BY <1>2, <1>3, <1>4, <1>5, <1>6, <1>7, <1>8, QueryGoes

\* The answer comes: the data and, of the issue that is open, the box.
LEMMA QueryReceives == ASSUME DrawerKnown, NEW k \in Keys, Receive(k) PROVE DrawerKnown'
<1> DEFINE q == [query[k] EXCEPT !.data = query[k].carry, !.fetch = "none", !.carry = NoText, !.due = FALSE]
<1>1. query[k] \in Query /\ news \subseteq Keys /\ QueryKnown(k) /\ query[k].fetch = "served" /\ drawer \in Drawer
  BY DEF DrawerKnown, DrawerTyped, Receive
<1>2. query[k].carry \in Content
  BY <1>1 DEF QueryKnown, Query, Values
<1>3. q \in Query /\ q.data = query[k].carry /\ q.fetch = "none" /\ q.due = FALSE /\ q.lost = query[k].lost
      /\ q.carry = NoText
  BY <1>1, <1>2 DEF Query, Values
<1>4. query' = [query EXCEPT ![k] = q] /\ UNCHANGED <<stored, post, news, edits>>
  BY DEF Receive, DrawerKnown, DrawerTyped
<1> HIDE DEF q
<1> DEFINE new == query[k].carry
           text == Text(new)
           box == Synced(drawer, Text(query[k].data), text)
<1>5. \/ drawer' = drawer /\ ~(drawer.open = k[2] /\ k[1] = "issue")
      \/ drawer' = [drawer EXCEPT !.box = box] /\ k = Issue(drawer.open) /\ drawer.open \in Cards
  BY KeysAre DEF Receive
<1>6. /\ query' \in [Keys -> Query] /\ query'[k] = q /\ \A l \in Keys \ {k} : query'[l] = query[l]
  BY <1>3, <1>4 DEF DrawerKnown, DrawerTyped
<1>7. drawer' = drawer \/ drawer'.box \in {text, drawer.box}
  BY <1>1, <1>5 DEF Synced, Drawer
<1>8. drawer'.open = drawer.open /\ drawer'.tab = drawer.tab /\ drawer'.focus = drawer.focus /\ drawer'.sent = drawer.sent
  BY <1>1, <1>5 DEF Drawer
<1>9. BoxKnown'
  <2>1. CASE drawer' = drawer /\ ~(drawer.open = k[2] /\ k[1] = "issue")
    <3>1. ASSUME drawer.open \in Cards PROVE Issue(drawer.open) # k /\ Issue(drawer.open) \in Keys
      BY <2>1, <3>1, KeysAre
    <3> QED BY <1>6, <2>1, <3>1 DEF DrawerKnown, BoxKnown
  <2>2. CASE drawer' = [drawer EXCEPT !.box = box] /\ k = Issue(drawer.open) /\ drawer.open \in Cards
    <3>1. drawer'.box = box
      BY <1>1, <2>2 DEF Drawer
    <3>2. query'[Issue(drawer'.open)].data = new /\ new # NoText
      BY <1>2, <1>3, <1>6, <1>8, <2>2, TextsAre
    <3>3. drawer.focus => drawer.box # NoText
      BY <2>2 DEF DrawerKnown, BoxKnown
    <3>4. text # NoText /\ (Text(query[k].data) = NoText <=> query[k].data = NoText)
      BY <1>1, <1>2, <3>2, TextIs DEF Query, Values
    <3>5. drawer.focus => box # NoText
      BY <3>3, <3>4 DEF Synced
    <3>6. ~drawer.focus => box \in {text, drawer.sent}
      BY <2>2, <3>4 DEF Synced, DrawerKnown, BoxKnown
    <3> HIDE DEF box
    <3> QED BY <1>8, <2>2, <3>1, <3>2, <3>5, <3>6 DEF BoxKnown
  <2> QED BY <1>5, <2>1, <2>2
<1>10. DrawerTyped'
  <2>1. drawer' \in Drawer
    <3>1. k[1] = "issue" => text \in Texts \cup {NoText}
      BY <1>1 DEF QueryKnown
    <3>2. CASE drawer' = [drawer EXCEPT !.box = box] /\ k = Issue(drawer.open) /\ drawer.open \in Cards
      <4>1. box \in Texts \cup {NoText}
        BY <1>1, <3>1, <3>2, KeysAre DEF Synced, Drawer
      <4> HIDE DEF box
      <4> QED BY <1>1, <3>2, <4>1 DEF Drawer
    <3> QED BY <1>1, <1>5, <3>2
  <2> QED BY <1>4, <1>6, <2>1 DEF DrawerKnown, DrawerTyped
<1>11. ASSUME NEW l \in Keys PROVE QueryKnown(l)'
  <2>1. Active(drawer, l)' <=> Active(drawer, l)
    BY <1>8 DEF Active
  <2>2. QueryKnown(l)
    BY DEF DrawerKnown
  <2>3. CASE l # k
    BY <1>4, <1>6, <2>1, <2>2, <2>3 DEF QueryKnown
  <2>4. CASE l = k
    <3>1. query'[k] = q /\ stored' = stored /\ news' = news /\ q.data # NoText /\ QueryKnown(k)
      BY <1>1, <1>2, <1>3, <1>4, <1>6, TextsAre
    <3>2. k[1] = "issue" => \A v \in {stored[k], q.data, q.carry} : Text(v) \in Texts \cup {NoText}
      BY <1>3, <3>1, TextsAre DEF QueryKnown
    <3> QED BY <1>1, <1>3, <2>1, <2>4, <3>1, <3>2 DEF QueryKnown
  <2> QED BY <2>3, <2>4
<1> QED BY <1>9, <1>10, <1>11 DEF DrawerKnown

\* The drawer changes: a query it comes to show is fetched, or known.
LEMMA DrawerTurns ==
  ASSUME DrawerKnown, NEW k \in Keys, UNCHANGED <<stored, news>>,
         \/ /\ query'[k] = query[k]
            /\ Active(drawer', k) /\ query[k].fetch = "none" => Active(drawer, k) \/ (~query[k].due /\ query[k].data # NoText)
         \/ query'[k] = Sent(query[k])
  PROVE  QueryKnown(k)'
<1>1. QueryKnown(k) /\ query[k] \in Query
  BY DEF DrawerKnown, DrawerTyped
<1>2. Active(drawer, k)' <=> Active(drawer', k)
  BY DEF Active
<1>3. CASE query'[k] = query[k]
  BY <1>1, <1>2, <1>3 DEF QueryKnown, Sent, Query
<1>4. CASE query'[k] = Sent(query[k])
  <2>1. /\ query'[k].data = query[k].data /\ query'[k].fetch = "sent" /\ query'[k].carry = NoText
    BY <1>1, <1>4 DEF Sent, Query
  <2>2. k[1] = "issue" => \A v \in {stored[k], query'[k].data, query'[k].carry} : Text(v) \in Texts \cup {NoText}
    BY <1>1, <2>1, TextsAre DEF QueryKnown
  <2> QED BY <1>1, <1>2, <2>1, <2>2 DEF QueryKnown
<1> QED BY <1>3, <1>4

\* What a visit leaves alone, and what it fetches.
LEMMA VisitedIs ==
  ASSUME DrawerKnown, NEW d, drawer' = d, query' \in Visited(d), UNCHANGED <<stored, news>>
  PROVE  /\ query' \in [Keys -> Query] /\ \A k \in Keys : query'[k].data = query[k].data
         /\ \A k \in Keys : QueryKnown(k)'
<1>1. PICK stale \in BOOLEAN :
        query' = [k \in Keys |->
          IF Active(d, k) /\ ~Active(drawer, k) /\ query[k].fetch = "none"
             /\ (k[1] = "issue" \/ query[k].due \/ query[k].data = NoText \/ stale)
          THEN Sent(query[k]) ELSE query[k]]
  BY DEF Visited
<1>2. \A k \in Keys : query[k] \in Query /\ Sent(query[k]) \in Query /\ Sent(query[k]).data = query[k].data
  BY DEF DrawerKnown, DrawerTyped, Query, Values, Sent
<1>3. query' \in [Keys -> Query] /\ \A k \in Keys : query'[k].data = query[k].data
  BY <1>1, <1>2
<1>4. ASSUME NEW k \in Keys PROVE QueryKnown(k)'
  <2>1. \/ /\ query'[k] = query[k]
           /\ Active(drawer', k) /\ query[k].fetch = "none" => Active(drawer, k) \/ (~query[k].due /\ query[k].data # NoText)
        \/ query'[k] = Sent(query[k])
    BY <1>1
  <2> QED BY <2>1, DrawerTurns
<1> QED BY <1>3, <1>4

\* Another issue is opened.
LEMMA Opens == ASSUME DrawerKnown, NEW i \in Cards, Open(i) PROVE DrawerKnown'
<1> DEFINE old == IF drawer.open = NoCardOpen THEN NoText ELSE Text(query[Issue(drawer.open)].data)
           new == Text(query[Issue(i)].data)
           box == IF new = NoText THEN NoText ELSE Synced(drawer, old, new)
           sent == IF old = new THEN drawer.sent ELSE NoText
           d == [drawer EXCEPT !.open = i, !.sent = sent, !.box = box]
<1>1. drawer' = d /\ query' \in Visited(d) /\ ~drawer.focus /\ UNCHANGED <<stored, post, news, edits>>
  BY DEF Open, Shows
<1>2. drawer \in Drawer /\ Issue(i) \in Keys /\ BoxKnown /\ (drawer.open # NoCardOpen => drawer.open \in Cards)
  BY KeysAre DEF DrawerKnown, DrawerTyped, Drawer
<1>3. new \in Texts \cup {NoText}
  BY <1>2, KeysAre DEF DrawerKnown, QueryKnown
<1>4. box \in Texts \cup {NoText} /\ sent \in Texts \cup {NoText}
  BY <1>2, <1>3 DEF Drawer, Synced
<1>5. (box # NoText => new # NoText) /\ (new # NoText => box \in {new, sent})
  <2>1. CASE drawer.open = NoCardOpen \/ old # new
    BY <1>1, <2>1 DEF Synced
  <2>2. CASE drawer.open # NoCardOpen /\ old = new
    <3>1. drawer.open \in Cards /\ Issue(drawer.open) \in Keys /\ old = Text(query[Issue(drawer.open)].data)
      BY <1>2, <2>2, KeysAre
    <3>2. query[Issue(drawer.open)].data \in Values
      BY <3>1 DEF DrawerKnown, DrawerTyped, Query
    <3>3. new # NoText => drawer.box \in {new, drawer.sent}
      BY <1>1, <1>2, <2>2, <3>1, <3>2, TextIs DEF BoxKnown
    <3> HIDE DEF old, new
    <3> QED BY <2>2, <3>3 DEF Synced
  <2> QED BY <2>1, <2>2
<1> HIDE DEF old, new, box, sent
<1>6. d \in Drawer /\ d.open = i /\ d.box = box /\ d.sent = sent /\ d.focus = drawer.focus
  BY <1>2, <1>4 DEF Drawer
<1> HIDE DEF d
<1>7. /\ query' \in [Keys -> Query] /\ \A k \in Keys : query'[k].data = query[k].data
      /\ \A k \in Keys : QueryKnown(k)'
  BY <1>1, VisitedIs
<1>8. Text(query'[Issue(drawer'.open)].data) = new
  BY <1>1, <1>2, <1>6, <1>7 DEF new
<1>9. query'[Issue(drawer'.open)].data = NoText <=> new = NoText
  <2>1. query'[Issue(drawer'.open)].data \in Values
    BY <1>1, <1>2, <1>6, <1>7 DEF Query
  <2> QED BY <1>8, <2>1, TextIs
<1>10. BoxKnown'
  BY <1>1, <1>5, <1>6, <1>8, <1>9 DEF BoxKnown
<1> QED BY <1>1, <1>6, <1>7, <1>10 DEF DrawerKnown, DrawerTyped

\* The other tab.
LEMMA Switches == ASSUME DrawerKnown, SwitchTab PROVE DrawerKnown'
<1> DEFINE tab == IF drawer.tab = "comments" THEN "changelog" ELSE "comments"
           d == [drawer EXCEPT !.tab = tab]
<1>1. drawer' = d /\ query' \in Visited(d) /\ UNCHANGED <<stored, post, news, edits>>
  BY DEF SwitchTab, Shows
<1>2. d \in Drawer /\ d.open = drawer.open /\ d.box = drawer.box /\ d.sent = drawer.sent /\ d.focus = drawer.focus
  BY DEF DrawerKnown, DrawerTyped, Drawer
<1> HIDE DEF d
<1>3. /\ query' \in [Keys -> Query] /\ \A k \in Keys : query'[k].data = query[k].data
      /\ \A k \in Keys : QueryKnown(k)'
  BY <1>1, VisitedIs
<1>4. BoxKnown'
  BY <1>1, <1>2, <1>3, KeysAre DEF BoxKnown, DrawerKnown
<1> QED BY <1>1, <1>2, <1>3, <1>4 DEF DrawerKnown, DrawerTyped

\* A drawer that is closed, or the same one with other text, shows nothing new.
LEMMA DrawerAlone ==
  ASSUME DrawerKnown, NEW d \in Drawer, drawer' = d, UNCHANGED <<stored, query, news>>,
         d.open = NoCardOpen \/ (d.open = drawer.open /\ d.tab = drawer.tab)
  PROVE  /\ drawer' \in Drawer /\ stored' \in [Keys -> Values] /\ query' \in [Keys -> Query] /\ news' \subseteq Keys
         /\ \A k \in Keys : QueryKnown(k)'
<1>1. ASSUME NEW k \in Keys PROVE QueryKnown(k)'
  <2>1. Active(d, k) => Active(drawer, k)
    BY KeysAre, TextsAre DEF Active
  <2> QED BY <2>1, DrawerTurns
<1> QED BY <1>1 DEF DrawerKnown, DrawerTyped

\* The drawer goes away.
LEMMA Closes == ASSUME DrawerKnown, Close \/ BoardFails PROVE DrawerKnown'
<1>1. PICK d : drawer' = d
  OBVIOUS
<1>2. UNCHANGED <<stored, query, post, news, edits>>
  BY DEF Close, BoardFails
<1>3. d \in Drawer /\ d.open = NoCardOpen /\ d.box = NoText /\ d.focus = FALSE
  <2>1. CASE Close
    <3>1. d = [Closed EXCEPT !.tab = drawer.tab] /\ drawer.tab \in {"comments", "changelog"}
      BY <1>1, <2>1 DEF Close, DrawerKnown, DrawerTyped, Drawer
    <3> QED BY <3>1 DEF Closed, Drawer
  <2>2. CASE BoardFails
    BY <1>1, <2>2 DEF BoardFails, Closed, Drawer
  <2> QED BY <2>1, <2>2
<1>4. drawer' = d
  BY <1>1
<1>5. BoxKnown'
  BY <1>3, <1>4, TextsAre DEF BoxKnown
<1>6. /\ drawer' \in Drawer /\ stored' \in [Keys -> Values] /\ query' \in [Keys -> Query] /\ news' \subseteq Keys
      /\ \A k \in Keys : QueryKnown(k)'
  BY <1>2, <1>3, <1>4, DrawerAlone
<1>7. DrawerTyped'
  BY <1>2, <1>6 DEF DrawerTyped, DrawerKnown
<1> QED BY <1>5, <1>6, <1>7 DEF DrawerKnown

\* The cursor is in the box.
LEMMA Focuses == ASSUME DrawerKnown, Focus PROVE DrawerKnown'
<1> DEFINE d == [drawer EXCEPT !.focus = TRUE]
<1>1. d \in Drawer /\ d.open = drawer.open /\ d.tab = drawer.tab /\ d.box = drawer.box /\ d.sent = drawer.sent /\ d.focus = TRUE
  BY DEF DrawerKnown, DrawerTyped, Drawer
<1>2. drawer' = d /\ drawer.box # NoText /\ UNCHANGED <<stored, query, post, news, edits>>
  BY DEF Focus
<1> HIDE DEF d
<1>3. BoxKnown'
  BY <1>1, <1>2 DEF DrawerKnown, BoxKnown
<1>4. /\ drawer' \in Drawer /\ stored' \in [Keys -> Values] /\ query' \in [Keys -> Query] /\ news' \subseteq Keys
      /\ \A k \in Keys : QueryKnown(k)'
  BY <1>1, <1>2, DrawerAlone
<1>5. DrawerTyped'
  BY <1>2, <1>4 DEF DrawerTyped, DrawerKnown
<1> QED BY <1>3, <1>4, <1>5 DEF DrawerKnown

\* The user types.
LEMMA UserTypes == ASSUME DrawerKnown, NEW t \in Texts, Type(t) PROVE DrawerKnown'
<1> DEFINE d == [drawer EXCEPT !.box = t]
<1>1. d \in Drawer /\ d.open = drawer.open /\ d.tab = drawer.tab /\ d.box = t /\ d.focus = drawer.focus
  BY DEF DrawerKnown, DrawerTyped, Drawer
<1>2. drawer' = d /\ drawer.focus /\ edits' = edits + 1 /\ UNCHANGED <<stored, query, post, news>>
  BY DEF Type
<1> HIDE DEF d
<1>3. BoxKnown'
  BY <1>1, <1>2, TextsAre DEF DrawerKnown, BoxKnown
<1>4. /\ drawer' \in Drawer /\ stored' \in [Keys -> Values] /\ query' \in [Keys -> Query] /\ news' \subseteq Keys
      /\ \A k \in Keys : QueryKnown(k)'
  BY <1>1, <1>2, DrawerAlone
<1>5. DrawerTyped'
  BY <1>2, <1>4 DEF DrawerTyped, DrawerKnown
<1> QED BY <1>3, <1>4, <1>5 DEF DrawerKnown

\* A request begins.
LEMMA AskIs ==
  ASSUME DrawerKnown, NEW kind \in {"issue", "comments"}, NEW i \in Cards, <<kind, i>> \in Keys,
         NEW t \in Texts \cup {NoText}, kind = "issue" => t \in Texts, Ask(kind, i, t)
  PROVE  /\ post' \in [Posts -> Post \cup {NoText}]
         /\ \A p \in Posts : post'[p] # NoText => <<post'[p].kind, post'[p].issue>> \in Keys
                                                  /\ (post'[p].kind = "issue" => post'[p].text \in Texts)
         /\ \E p \in Posts : post[p] = NoText /\ post'[p] # NoText /\ post'[p].issue = i /\ post'[p].text = t
<1> DEFINE what == [kind |-> kind, issue |-> i, text |-> t, state |-> "sent"]
<1>1. PICK p \in Posts : post[p] = NoText /\ post' = [post EXCEPT ![p] = what]
  BY DEF Ask
<1>2. what \in Post /\ what # NoText /\ what.kind = kind /\ what.issue = i /\ what.text = t
  BY TextsAre DEF Post
<1> HIDE DEF what
<1> QED BY <1>1, <1>2 DEF DrawerKnown, DrawerTyped

\* The text is sent if it is not the description.
LEMMA Blurs == ASSUME DrawerKnown, Blur PROVE DrawerKnown'
<1> DEFINE data == Text(query[Issue(drawer.open)].data)
           d == IF drawer.box = data THEN [drawer EXCEPT !.focus = FALSE]
                ELSE [drawer EXCEPT !.focus = FALSE, !.sent = drawer.box]
<1>1. drawer \in Drawer /\ drawer.focus /\ drawer.box \in Texts /\ drawer.open \in Cards
      /\ query[Issue(drawer.open)].data # NoText
  BY DEF Blur, DrawerKnown, DrawerTyped, BoxKnown, Drawer
<1>2. d \in Drawer /\ d.open = drawer.open /\ d.tab = drawer.tab /\ d.box = drawer.box /\ d.focus = FALSE
      /\ d.box \in {data, d.sent}
  BY <1>1 DEF Drawer
<1>3. drawer' = d /\ UNCHANGED <<stored, query, news, edits>>
  BY DEF Blur
<1>4. \/ UNCHANGED post
      \/ Ask("issue", drawer.open, drawer.box)
  BY DEF Blur
<1>5. Issue(drawer.open) \in Keys /\ <<"issue", drawer.open>> \in Keys
  BY <1>1, KeysAre DEF Issue
<1>6. /\ post' \in [Posts -> Post \cup {NoText}]
      /\ \A p \in Posts : post'[p] # NoText => <<post'[p].kind, post'[p].issue>> \in Keys
                                               /\ (post'[p].kind = "issue" => post'[p].text \in Texts)
  BY <1>1, <1>4, <1>5, AskIs DEF DrawerKnown, DrawerTyped
<1> HIDE DEF d
<1>7. BoxKnown'
  BY <1>1, <1>2, <1>3, TextsAre DEF BoxKnown
<1>8. /\ drawer' \in Drawer /\ stored' \in [Keys -> Values] /\ query' \in [Keys -> Query] /\ news' \subseteq Keys
      /\ \A k \in Keys : QueryKnown(k)'
  BY <1>2, <1>3, DrawerAlone
<1> QED BY <1>3, <1>6, <1>7, <1>8 DEF DrawerKnown, DrawerTyped

\* A comment is sent.
LEMMA Comments0 == ASSUME DrawerKnown, Comment PROVE DrawerKnown'
<1>1. drawer.open \in Discussed /\ Ask("comments", drawer.open, NoText) /\ UNCHANGED <<stored, query, drawer, news, edits>>
  BY DEF Comment
<1>2. drawer.open \in Cards /\ <<"comments", drawer.open>> \in Keys
  BY <1>1, KeysAre, TextsAre
<1>3. /\ post' \in [Posts -> Post \cup {NoText}]
      /\ \A p \in Posts : post'[p] # NoText => <<post'[p].kind, post'[p].issue>> \in Keys
                                               /\ (post'[p].kind = "issue" => post'[p].text \in Texts)
  BY <1>1, <1>2, AskIs
<1>4. \A k \in Keys : QueryKnown(k)'
  BY <1>1, KeyStays DEF DrawerKnown
<1>5. BoxKnown'
  BY <1>1, BoxStays
<1> QED BY <1>1, <1>3, <1>4, <1>5 DEF DrawerKnown, DrawerTyped

\* What is there, of an issue that is: comments always are.
LEMMA There0 ==
  ASSUME DrawerKnown, NEW k \in Keys, There(k[2]) PROVE stored[k] \in Content
BY KeysAre DEF DrawerKnown, DrawerTyped, QueryKnown, There, Values

\* The database has something new: whoever has the old is told.
LEMMA Writes0 ==
  ASSUME DrawerKnown, NEW k \in Keys, NEW t, k[1] = "issue" => t \in Texts, There(k[2]),
         stored' = Written(k, t), news' = news \cup Told(k), UNCHANGED <<query, drawer, edits>>,
         UNCHANGED post \/ \E p \in Posts, q \in Post : post' = [post EXCEPT ![p] = q] /\ post[p] # NoText
                             /\ q.kind = post[p].kind /\ q.issue = post[p].issue /\ q.text = post[p].text
  PROVE  DrawerKnown'
<1>1. stored[k] \in Content /\ stored \in [Keys -> Values]
  BY There0 DEF DrawerKnown, DrawerTyped
<1>2. stored' \in [Keys -> Values] /\ stored'[k] # NoText /\ (k[1] = "issue" => Text(stored'[k]) \in Texts)
      /\ \A l \in Keys \ {k} : stored'[l] = stored[l]
  <2> DEFINE more == IF k[1] = "issue" THEN t ELSE stored[k].content + 1
             new == [stored[k] EXCEPT !.content = more]
  <2>1. more \in Nat /\ (k[1] = "issue" => more \in Texts)
    <3>1. CASE k[1] = "issue"
      <4>1. t \in Texts /\ more = t
        BY <3>1
      <4> HIDE DEF more
      <4> QED BY <4>1, TextsAre
    <3>2. CASE k[1] # "issue"
      <4>1. more = stored[k].content + 1 /\ stored[k].content \in Nat
        BY <1>1, <3>2 DEF Content
      <4> HIDE DEF more
      <4> QED BY <3>2, <4>1
    <3> QED BY <3>1, <3>2
  <2>2. stored' = [stored EXCEPT ![k] = new]
    BY DEF Written
  <2> HIDE DEF more
  <2>3. new \in Content /\ new.content = more
    BY <1>1, <2>1 DEF Content
  <2> HIDE DEF new
  <2>4. Text(new) = more /\ new \in Values /\ new # NoText
    BY <2>3, TextsAre DEF Text, Values
  <2> QED BY <1>1, <2>1, <2>2, <2>4
<1>3. Told(k) \subseteq Keys /\ k \in Told(k)
  BY KeysAre DEF Told
<1>4. /\ post' \in [Posts -> Post \cup {NoText}]
      /\ \A p \in Posts : post'[p] # NoText => <<post'[p].kind, post'[p].issue>> \in Keys
                                               /\ (post'[p].kind = "issue" => post'[p].text \in Texts)
  BY DEF DrawerKnown, DrawerTyped
<1>5. DrawerTyped'
  BY <1>2, <1>3, <1>4 DEF DrawerKnown, DrawerTyped
<1>6. ASSUME NEW l \in Keys PROVE QueryKnown(l)'
  <2>1. QueryKnown(l) /\ query'[l] = query[l] /\ drawer' = drawer /\ (l \in news => l \in news')
    BY DEF DrawerKnown
  <2>2. CASE l = k
    <3>1. l \in news' /\ (k[1] = "issue" => Text(stored'[l]) \in Texts)
      BY <1>2, <1>3, <2>2
    <3>2. /\ l[1] = "issue" => \A v \in {stored'[l], query[l].data, query[l].carry} : Text(v) \in Texts \cup {NoText}
          /\ l[1] = "comments" => stored'[l] # NoText
      BY <1>2, <2>1, <2>2, <3>1 DEF QueryKnown
    <3> QED BY <2>1, <2>2, <3>1, <3>2 DEF QueryKnown, Active
  <2>3. CASE l # k
    BY <1>2, <2>1, <2>3, KeyStays
  <2> QED BY <2>2, <2>3
<1>7. BoxKnown'
  BY BoxStays
<1> QED BY <1>5, <1>6, <1>7 DEF DrawerKnown

\* A request is carried out, or refused.
LEMMA Commits == ASSUME DrawerKnown, NEW p \in Posts, Commit(p) \/ Refuse(p) PROVE DrawerKnown'
<1>1. post[p] \in Post /\ post[p] # NoText /\ <<post[p].kind, post[p].issue>> \in Keys
      /\ (post[p].kind = "issue" => post[p].text \in Texts)
  BY DEF Commit, Refuse, DrawerKnown, DrawerTyped
<1>2. CASE Commit(p)
  <2> DEFINE q == [post[p] EXCEPT !.state = "done"]
             k == <<post[p].kind, post[p].issue>>
             t == post[p].text
  <2>1. q \in Post /\ q.kind = post[p].kind /\ q.issue = post[p].issue /\ q.text = post[p].text
    BY <1>1 DEF Post
  <2>2. post' = [post EXCEPT ![p] = q]
    BY <1>2 DEF Commit
  <2>3. k \in Keys /\ (k[1] = "issue" => t \in Texts)
    BY <1>1
  <2>4. stored' = Written(k, t) /\ news' = news \cup Told(k) /\ UNCHANGED <<query, drawer, edits>> /\ There(k[2])
    BY <1>2 DEF Commit
  <2> HIDE DEF q, k, t
  <2> QED BY <1>1, <2>1, <2>2, <2>3, <2>4, Writes0
<1>3. CASE Refuse(p)
  <2> DEFINE q == [post[p] EXCEPT !.state = "refused"]
  <2>1. q \in Post /\ q.kind = post[p].kind /\ q.issue = post[p].issue /\ q.text = post[p].text
    BY <1>1 DEF Post
  <2>2. post' = [post EXCEPT ![p] = q] /\ UNCHANGED <<stored, query, drawer, news, edits>>
    BY <1>3 DEF Refuse
  <2> HIDE DEF q
  <2>3. DrawerTyped'
    BY <1>1, <2>1, <2>2 DEF DrawerKnown, DrawerTyped
  <2>4. \A k \in Keys : QueryKnown(k)'
    BY <2>2, KeyStays DEF DrawerKnown
  <2>5. BoxKnown'
    BY <2>2, BoxStays
  <2> QED BY <2>3, <2>4, <2>5 DEF DrawerKnown
<1> QED BY <1>2, <1>3

\* Somebody else's is.
LEMMA CommitsElsewhere == ASSUME DrawerKnown, CommitElsewhere PROVE DrawerKnown'
<1>1. PICK k \in Keys, t \in Texts : There(k[2]) /\ stored' = Written(k, t) /\ news' = news \cup Told(k)
  BY DEF CommitElsewhere
<1>2. UNCHANGED <<query, drawer, post, edits>>
  BY DEF CommitElsewhere
<1> QED BY <1>1, <1>2, Writes0

\* The database has something else, and nothing tells those that have the old.
LEMMA Untolds ==
  ASSUME DrawerKnown, NEW K \in SUBSET Keys, Untold(K), stored' \in [Keys -> Values],
         \A k \in Keys \ K : stored'[k] = stored[k],
         \A k \in K : /\ k[1] = "issue" => Text(stored'[k]) \in Texts \cup {NoText}
                      /\ k[1] = "comments" => stored'[k] # NoText,
         UNCHANGED <<drawer, post, news, edits>>
  PROVE  DrawerKnown'
<1>1. ASSUME NEW k \in Keys
      PROVE  /\ query[k] \in Query /\ query'[k] \in Query /\ \A f \in {"data", "fetch", "carry", "due"} : query'[k][f] = query[k][f]
             /\ IF k \in K THEN query'[k].lost ELSE query'[k] = query[k]
  BY DEF Untold, DrawerKnown, DrawerTyped, Query
<1>2. query' \in [Keys -> Query]
  BY <1>1 DEF Untold
<1>3. DrawerTyped'
  BY <1>2 DEF DrawerKnown, DrawerTyped
<1>4. ASSUME NEW k \in Keys PROVE QueryKnown(k)'
  <2>1. QueryKnown(k)
    BY DEF DrawerKnown
  <2>2. CASE k \in K
    <3>1. /\ query'[k].lost /\ query'[k].data = query[k].data /\ query'[k].fetch = query[k].fetch
          /\ query'[k].carry = query[k].carry
      BY <1>1, <2>2
    <3> QED BY <2>1, <2>2, <3>1 DEF QueryKnown
  <2>3. CASE k \notin K
    BY <1>1, <2>1, <2>3, KeyStays
  <2> QED BY <2>2, <2>3
<1>5. BoxKnown'
  BY <1>1, BoxStays
<1> QED BY <1>3, <1>4, <1>5 DEF DrawerKnown

\* The issue is moved by somebody else.
LEMMA MovesElsewhere == ASSUME DrawerKnown, NEW i \in Cards, MoveElsewhere(i) PROVE DrawerKnown'
<1>1. Issue(i) \in Keys /\ stored \in [Keys -> Values] /\ stored[Issue(i)] \in Content
  BY KeysAre DEF MoveElsewhere, There, DrawerKnown, DrawerTyped, Values
<1> DEFINE new == [stored[Issue(i)] EXCEPT !.status = stored[Issue(i)].status + 1]
<1>2. new \in Content /\ new.content = stored[Issue(i)].content
  BY <1>1 DEF Content
<1>3. stored' = [stored EXCEPT ![Issue(i)] = new]
  BY DEF MoveElsewhere
<1> HIDE DEF new
<1>4. Text(new) = Text(stored[Issue(i)]) /\ new \in Values /\ new # NoText
  BY <1>1, <1>2, TextsAre DEF Text, Values
<1>5. stored' \in [Keys -> Values] /\ stored'[Issue(i)] = new /\ \A k \in Keys \ {Issue(i)} : stored'[k] = stored[k]
  BY <1>1, <1>3, <1>4
<1>6. Text(stored[Issue(i)]) \in Texts \cup {NoText}
  BY <1>1, KeysAre DEF DrawerKnown, QueryKnown
<1>7. Untold({Issue(i)}) /\ UNCHANGED <<drawer, post, news, edits>> /\ {Issue(i)} \in SUBSET Keys
  BY <1>1 DEF MoveElsewhere
<1> QED BY <1>4, <1>5, <1>6, <1>7, Untolds

\* The issue is deleted by somebody else.
LEMMA DeletesElsewhere == ASSUME DrawerKnown, NEW i \in Cards, DeleteElsewhere(i) PROVE DrawerKnown'
<1> DEFINE K == {k \in Keys : k[2] = i}
<1>1. stored' = [k \in Keys |-> IF k[2] # i THEN stored[k] ELSE IF k[1] = "issue" THEN NoText ELSE Blank]
      /\ Untold(K) /\ UNCHANGED <<drawer, post, news, edits>>
  BY DEF DeleteElsewhere
<1>2. Blank \in Values /\ NoText \in Values /\ Blank # NoText
  BY TextsAre DEF Blank, Values, Content
<1>3. stored' \in [Keys -> Values]
  BY <1>1, <1>2 DEF DrawerKnown, DrawerTyped
<1>4. \A k \in Keys \ K : stored'[k] = stored[k]
  BY <1>1
<1>5. \A k \in K : /\ k[1] = "issue" => Text(stored'[k]) \in Texts \cup {NoText}
                   /\ k[1] = "comments" => stored'[k] # NoText
  BY <1>1, <1>2 DEF Text
<1> HIDE DEF K
<1>6. K \in SUBSET Keys
  BY DEF K
<1> QED BY <1>1, <1>3, <1>4, <1>5, <1>6, Untolds

\* The answer comes, or is lost.
LEMMA Answers ==
  ASSUME DrawerKnown, NEW p \in Posts, Answered(p) \/ LoseAnswer(p) PROVE DrawerKnown'
<1>1. post' = [post EXCEPT ![p] = NoText] /\ UNCHANGED <<stored, drawer, news, edits>>
  BY DEF Answered, LoseAnswer
<1>2. CASE UNCHANGED query
  <2>1. DrawerTyped'
    BY <1>1, <1>2 DEF DrawerKnown, DrawerTyped
  <2>2. \A k \in Keys : QueryKnown(k)'
    BY <1>1, <1>2, KeyStays DEF DrawerKnown
  <2>3. BoxKnown'
    BY <1>1, <1>2, BoxStays
  <2> QED BY <2>1, <2>2, <2>3 DEF DrawerKnown
<1>3. ASSUME NEW k \in Keys,
             query' = [query EXCEPT ![k] = IF k[1] = "issue" THEN Invalidated(k)
                                           ELSE IF Restarts(query[k]) THEN Sent(query[k]) ELSE query[k]]
      PROVE  DrawerKnown'
  <2> DEFINE q == IF k[1] = "issue" THEN Invalidated(k)
                  ELSE IF Restarts(query[k]) THEN Sent(query[k]) ELSE query[k]
             i == Invalidated(k)
             s == Sent(query[k])
  <2>1. query[k] \in Query /\ QueryKnown(k) /\ news \subseteq Keys
    BY DEF DrawerKnown, DrawerTyped
  <2>2. /\ i \in Query /\ i.data = query[k].data /\ i.due = TRUE /\ i.lost = query[k].lost /\ i.carry \in {NoText, query[k].carry}
        /\ IF Active(drawer, k) /\ Restarts(query[k]) THEN i.fetch = "sent"
           ELSE i.fetch = query[k].fetch /\ i.carry = query[k].carry
    BY InvalidatedIs
  <2>3. s \in Query /\ s.data = query[k].data /\ s.fetch = "sent" /\ s.carry = NoText
    BY <2>1 DEF Sent, Query, Values
  <2>4. q \in {i, s, query[k]}
    OBVIOUS
  <2> HIDE DEF q, i, s
  <2>5. q.fetch = "served" => q.carry # NoText
    BY <2>1, <2>2, <2>3, <2>4 DEF QueryKnown
  <2>6. q \in Query /\ q.data = query[k].data /\ q.carry \in {NoText, query[k].carry, stored[k]}
    BY <2>1, <2>2, <2>3, <2>4
  <2>7. k \notin news' /\ ~q.lost =>
          /\ q.fetch = "served" => q.carry = stored[k]
          /\ q.fetch = "none" => q.data = NoText \/ q.due \/ q.data = stored[k]
    BY <1>1, <2>1, <2>2, <2>3, <2>4 DEF QueryKnown
  <2>8. Active(drawer, k) /\ q.fetch = "none" /\ ~q.lost => ~q.due /\ q.data # NoText
    BY <2>1, <2>2, <2>3, <2>4 DEF QueryKnown, Restarts
  <2>9. query' = [query EXCEPT ![k] = q] /\ news \ {k} \subseteq news' /\ news' \subseteq Keys
    BY <1>1, <1>3, <2>1 DEF q
  <2> QED BY <1>1, <2>5, <2>6, <2>7, <2>8, <2>9, QueryGoes
<1>4. \/ UNCHANGED query
      \/ \E k \in Keys : query' = [query EXCEPT ![k] = IF k[1] = "issue" THEN Invalidated(k)
                                       ELSE IF Restarts(query[k]) THEN Sent(query[k]) ELSE query[k]]
  BY DEF Answered, LoseAnswer
<1> QED BY <1>2, <1>3, <1>4

-----------------------------------------------------------------------------

\* Nothing is fetched yet.
LEMMA DrawerInitInv == ASSUME DrawerInit PROVE DrawerKnown
<1>1. Unfetched \in Query /\ Closed \in Drawer /\ 0 \in Texts /\ NoText \notin Nat
  BY DrawerAssumption DEF Unfetched, Query, Values, Closed, Drawer
<1> /\ Blank \in Values /\ Blank # NoText /\ Text(Blank) = 0 /\ Text(NoText) = NoText
  BY TextsAre DEF Blank, Values, Content, Text
<1>2. DrawerTyped
  BY <1>1 DEF DrawerInit, DrawerTyped
<1>3. \A k \in Keys : QueryKnown(k)
  <2>1. \A k \in Keys : ~Active(Closed, k)
    BY KeysAre, TextsAre DEF Active, Closed
  <2> QED BY <1>1, <2>1 DEF DrawerInit, QueryKnown, Unfetched
<1>4. BoxKnown
  BY TextsAre DEF DrawerInit, BoxKnown, Closed
<1> QED BY <1>2, <1>3, <1>4 DEF DrawerKnown

\* Every step keeps the invariant.
LEMMA DrawerNextInv == ASSUME DrawerKnown, [DrawerNext]_drawerVars PROVE DrawerKnown'
<1>1. CASE UNCHANGED drawerVars
  <2>1. UNCHANGED <<stored, query, drawer, post, news, edits>>
    BY <1>1 DEF drawerVars
  <2>2. \A k \in Keys : QueryKnown(k)'
    BY <2>1, KeyStays DEF DrawerKnown
  <2>3. BoxKnown'
    BY <2>1, BoxStays
  <2> QED BY <2>1, <2>2, <2>3 DEF DrawerKnown, DrawerTyped
<1>2. ASSUME NEW k \in Keys, Serve(k) \/ Receive(k) \/ FailFetch(k) \/ Hear(k) \/ LoseEvent(k) PROVE DrawerKnown'
  BY <1>2, QueryServes, QueryReceives, QueryFails, Hears, EventsGetLost
<1>3. ASSUME NEW i \in Cards, Open(i) \/ MoveElsewhere(i) \/ DeleteElsewhere(i) PROVE DrawerKnown'
  BY <1>3, Opens, MovesElsewhere, DeletesElsewhere
<1>4. ASSUME NEW t \in Texts, Type(t) PROVE DrawerKnown'
  BY <1>4, UserTypes
<1>5. ASSUME NEW p \in Posts, Commit(p) \/ Refuse(p) \/ Answered(p) \/ LoseAnswer(p) PROVE DrawerKnown'
  BY <1>5, Commits, Answers
<1>6. CASE Close \/ BoardFails \/ SwitchTab \/ Focus \/ Blur \/ Comment \/ CommitElsewhere
  BY <1>6, Closes, Switches, Focuses, Blurs, Comments0, CommitsElsewhere
<1> QED BY <1>1, <1>2, <1>3, <1>4, <1>5, <1>6 DEF DrawerNext

\* It always holds.
LEMMA DrawerIsKnown == DrawerSpec => []DrawerKnown
BY DrawerInitInv, DrawerNextInv, PTL DEF DrawerSpec

\* Once everything has been answered, the drawer has the issue and the comments the
\* database has, whatever updates, comments, events, answers, fetches and visits
\* overtook each other, unless the issue was moved or deleted by others since its last
\* fetch, or something was lost; and the box shows what the drawer has, or what was sent
\* from it.
THEOREM DrawerIsRight == DrawerSpec => []DrawerInv
<1>1. DrawerKnown => DrawerInv
  <2> SUFFICES ASSUME DrawerKnown PROVE DrawerInv
    OBVIOUS
  <2>1. DrawerTypeOK
    BY DEF DrawerKnown, DrawerTyped, DrawerTypeOK
  <2>2. ASSUME NEW k \in Keys, Calm(k)
        PROVE  /\ query[k].data = stored[k]
               /\ k[1] = "issue" /\ ~drawer.focus => drawer.box \in {Text(query[k].data), drawer.sent}
    <3>1. query[k].data = stored[k] /\ query[k].data # NoText
      BY <2>2 DEF Calm, DrawerKnown, QueryKnown
    <3>2. k[1] = "issue" => drawer.open \in Cards /\ k = Issue(drawer.open)
      BY <2>2, KeysAre DEF Calm, Active
    <3> QED BY <3>1, <3>2 DEF DrawerKnown, BoxKnown
  <2> QED BY <2>1, <2>2 DEF DrawerInv, DrawerAgrees
<1> QED BY <1>1, DrawerIsKnown, PTL

\* What the user types stays in the box, whatever others do, and leaves it as a request
\* for the issue it was typed into, unless the drawer goes away first.
THEOREM TypedTextIsSent == DrawerSpec => TypedIsSent
<1> DEFINE Step == drawer.focus /\ drawer'.open = drawer.open =>
       /\ edits' = edits => drawer'.box = drawer.box
       /\ ~drawer'.focus /\ drawer.box # Text(query[Issue(drawer.open)].data) =>
            \E p \in Posts : post[p] = NoText /\ post'[p] # NoText
                             /\ post'[p].issue = drawer.open /\ post'[p].text = drawer.box
<1>1. ASSUME DrawerKnown, [DrawerNext]_drawerVars PROVE [Step]_drawerVars
  <2> SUFFICES ASSUME drawer.focus, drawer'.open = drawer.open, DrawerNext
               PROVE  /\ edits' = edits => drawer'.box = drawer.box
                      /\ ~drawer'.focus /\ drawer.box # Text(query[Issue(drawer.open)].data) =>
                           \E p \in Posts : post[p] = NoText /\ post'[p] # NoText
                                            /\ post'[p].issue = drawer.open /\ post'[p].text = drawer.box
    BY <1>1
  <2>1. drawer \in Drawer /\ drawer.open \in Cards /\ drawer.box \in Texts /\ query[Issue(drawer.open)].data # NoText
        /\ drawer.focus = TRUE /\ edits \in Nat
    BY <1>1 DEF DrawerKnown, DrawerTyped, BoxKnown, Drawer
  <2>2. CASE drawer' = drawer
    BY <2>1, <2>2
  <2>3. ASSUME NEW k \in Keys, Receive(k) PROVE drawer'.box = drawer.box /\ drawer'.focus
    <3>1. CASE drawer' = drawer
      BY <2>1, <3>1
    <3>2. CASE k = Issue(drawer.open) /\ drawer' = [drawer EXCEPT !.box = Synced(drawer, Text(query[k].data), Text(query[k].carry))]
      <4>1. Text(query[k].data) # NoText
        <5>1. query[k].data \in Values /\ query[k].data # NoText
          BY <1>1, <2>1, <3>2 DEF DrawerKnown, DrawerTyped, Query
        <5> QED BY <5>1, TextIs
      <4>2. Synced(drawer, Text(query[k].data), Text(query[k].carry)) = drawer.box
        BY <2>1, <4>1 DEF Synced
      <4> QED BY <2>1, <3>2, <4>2 DEF Drawer
    <3> QED BY <2>3, <3>1, <3>2, KeysAre DEF Receive
  <2>4. ASSUME NEW t \in Texts, Type(t) PROVE edits' # edits /\ drawer'.focus
    BY <2>1, <2>4 DEF Type, Drawer
  <2>5. CASE Blur
    <3>1. drawer'.box = drawer.box
      BY <2>1, <2>5 DEF Blur, Drawer
    <3>2. ASSUME drawer.box # Text(query[Issue(drawer.open)].data)
          PROVE  \E p \in Posts : post[p] = NoText /\ post'[p] # NoText
                                  /\ post'[p].issue = drawer.open /\ post'[p].text = drawer.box
      <4>1. Ask("issue", drawer.open, drawer.box)
        BY <2>5, <3>2 DEF Blur
      <4>2. <<"issue", drawer.open>> \in Keys
        BY <2>1, KeysAre DEF Issue
      <4> QED BY <1>1, <2>1, <4>1, <4>2, AskIs
    <3> QED BY <3>1, <3>2
  <2>6. CASE Close \/ BoardFails
    BY <2>1, <2>6, TextsAre DEF Close, BoardFails, Closed
  <2>7. ~Focus /\ ~SwitchTab /\ \A i \in Cards : ~Open(i)
    BY DEF Focus, SwitchTab, Open
  <2>8. /\ Comment \/ CommitElsewhere => drawer' = drawer
        /\ \A i \in Cards : MoveElsewhere(i) \/ DeleteElsewhere(i) => drawer' = drawer
    BY DEF Comment, CommitElsewhere, MoveElsewhere, DeleteElsewhere
  <2>9. ASSUME NEW k \in Keys, Serve(k) \/ FailFetch(k) \/ Hear(k) \/ LoseEvent(k) PROVE drawer' = drawer
    BY <2>9 DEF Serve, FailFetch, Hear, LoseEvent
  <2>10. ASSUME NEW p \in Posts, Commit(p) \/ Refuse(p) \/ Answered(p) \/ LoseAnswer(p) PROVE drawer' = drawer
    BY <2>10 DEF Commit, Refuse, Answered, LoseAnswer
  <2> QED BY <2>2, <2>3, <2>4, <2>5, <2>6, <2>7, <2>8, <2>9, <2>10 DEF DrawerNext
<1>2. DrawerSpec => [][DrawerNext]_drawerVars
  BY DEF DrawerSpec
<1> QED BY <1>1, <1>2, DrawerIsKnown, PTL DEF TypedIsSent

-----------------------------------------------------------------------------
(* Registration: the transactions.                                          *)

\* A registration under way has a slug and a number of its own.
RowsNamed ==
  \A r \in Regs : reg[r].pc # "idle" => reg[r].slug \in Slugs /\ reg[r].number \in 1..MaxTries

\* It holds the unique index on its slug.
Holds(r) == reg[r].pc \in {"insertUser", "commit"}

\* Of a slug there is one tenant or one transaction that has inserted it, not two.
SlugHeldOnce ==
  \A r \in Regs : Holds(r) =>
    /\ \A t \in tenants : t[1] # reg[r].slug
    /\ \A q \in Regs : Holds(q) /\ reg[q].slug = reg[r].slug => q = r

\* What a transaction has committed is there before the client is told.
Committed == \A r \in Regs : reg[r].pc \in {"tokens", "ok"} => Row(r) \in admins

\* Step 3 is reached with a slug only.
SlugGiven == page.step = 3 => page.slug # NoSlug

RowsInv == RegisterTypeOK /\ RowsNamed /\ SlugGiven /\ SlugHeldOnce /\ Committed /\ TenantsHaveAdmins

-----------------------------------------------------------------------------
(* Registration: the mark of the slug.                                      *)

\* Checks are numbered as they are started.
ChecksNumbered == \A n \in 1..MaxChecks : checks[n].answer # "none" <=> n <= Started

\* A check that has said "taken" was right, and so is the mark.
TakenIsRight ==
  /\ \A n \in 1..MaxChecks : checks[n].answer = "taken" => \E t \in tenants : t[1] = checks[n].slug
  /\ page.mark = "taken" => \E t \in tenants : t[1] = page.about

\* On step 2 the latest check started is one of the slug that useDebounce let through.
LatestIsDue ==
  page.step = 2 /\ page.debounced # NoSlug => Started > 0 /\ checks[Started].slug = page.debounced

\* When the latest check to be answered is the latest started, the page shows its answer.
LatestShown ==
  /\ arrived <= Started
  /\ arrived = Started /\ arrived > 0 => ~page.checking /\ page.about = checks[arrived].slug

MarkInv == RegisterTypeOK /\ ChecksNumbered /\ TakenIsRight /\ LatestIsDue /\ LatestShown

-----------------------------------------------------------------------------
(* Counting the checks.                                                    *)

\* When the checks with an answer other than "none" are those up to k, they are k.
LEMMA CountedUpTo ==
  ASSUME NEW c, NEW k \in 0..MaxChecks,
         \A n \in 1..MaxChecks : c[n].answer # "none" <=> n <= k
  PROVE  Cardinality({n \in 1..MaxChecks : c[n].answer # "none"}) = k
<1>1. {n \in 1..MaxChecks : c[n].answer # "none"} = 1..k
  BY RegistrationAssumption
<1>2. Cardinality(1..k) = k
  BY FS_Interval
<1> QED BY <1>1, <1>2

\* There are not more of them than there may be.
LEMMA StartedBounded == Started \in 0..MaxChecks
<1> DEFINE S == {n \in 1..MaxChecks : checks[n].answer # "none"}
<1>1. IsFiniteSet(1..MaxChecks) /\ Cardinality(1..MaxChecks) = MaxChecks
  BY RegistrationAssumption, FS_Interval
<1>2. S \in SUBSET (1..MaxChecks)
  OBVIOUS
<1>3. IsFiniteSet(S) /\ Cardinality(S) <= MaxChecks
  BY <1>1, <1>2, FS_Subset
<1>4. Cardinality(S) \in Nat
  BY <1>3, FS_CardinalityType
<1> QED BY <1>3, <1>4, RegistrationAssumption DEF Started

-----------------------------------------------------------------------------
(* The first state, and the steps of the page that render it.              *)

\* Both invariants hold to begin with.
LEMMA InitInv == ASSUME RegisterInit PROVE RowsInv /\ MarkInv
<1> USE RegistrationAssumption
<1>1. /\ tenants = {} /\ admins = {} /\ arrived = 0 /\ tries = 0
      /\ reg = [r \in Regs |-> NoReg] /\ checks = [n \in 1..MaxChecks |-> NoCheck]
      /\ page.step = 1 /\ page.mark = "unknown"
  BY DEF RegisterInit
<1>2. NoReg \in Reg /\ NoCheck \in Check
  BY DEF NoReg, NoCheck, Reg, Check
<1>3. page \in RegisterPage
  BY DEF RegisterInit, RegisterPage, Marks
<1>4. RegisterTypeOK
  BY <1>1, <1>2, <1>3 DEF RegisterTypeOK
<1>5. (\A r \in Regs : reg[r].pc = "idle") /\ (\A n \in 1..MaxChecks : checks[n].answer = "none")
  BY <1>1 DEF NoReg, NoCheck
<1>6. Started = 0
  <2>1. \A n \in 1..MaxChecks : checks[n].answer # "none" <=> n <= 0
    BY <1>5
  <2> QED BY <2>1, CountedUpTo DEF Started
<1>7. RowsInv
  BY <1>1, <1>4, <1>5 DEF RowsInv, RowsNamed, SlugGiven, SlugHeldOnce, Holds, Committed, TenantsHaveAdmins
<1>8. MarkInv
  BY <1>1, <1>4, <1>5, <1>6 DEF MarkInv, ChecksNumbered, TakenIsRight, LatestIsDue, LatestShown
<1> QED BY <1>7, <1>8

\* Typing, the delay of the slug, and the buttons of the steps.
Rendering ==
  \/ \E s \in Slugs : TypeName(s)
  \/ \E s \in Slugs \cup {NoSlug} : TypeSlug(s)
  \/ Debounce \/ Continue \/ Back

\* Each of them renders a page with the mark as it was, on step 3 with a slug.
LEMMA RenderedPage ==
  ASSUME RegisterTypeOK, SlugGiven, Rendering
  PROVE  \E p \in RegisterPage :
           /\ Rendered(p)
           /\ p.step = 3 => p.slug # NoSlug
           /\ p.mark = page.mark /\ p.about = page.about /\ p.checking = page.checking
<1> DEFINE Fine(p) == /\ p \in RegisterPage /\ Rendered(p)
                      /\ p.step = 3 => p.slug # NoSlug
                      /\ p.mark = page.mark /\ p.about = page.about /\ p.checking = page.checking
<1>0. page \in RegisterPage
  BY DEF RegisterTypeOK
<1>1. ASSUME NEW s \in Slugs, TypeName(s) PROVE \E p : Fine(p)
  <2> DEFINE p == [page EXCEPT !.name = s, !.slug = s]
  <2>1. Rendered(p)
    BY <1>1 DEF TypeName
  <2>2. p \in RegisterPage
    BY <1>0 DEF RegisterPage
  <2>3. p.step = 1
    BY <1>0, <1>1 DEF TypeName, RegisterPage
  <2>4. Fine(p)
    BY <1>0, <2>1, <2>2, <2>3 DEF RegisterPage
  <2> QED BY <2>4
<1>2. ASSUME NEW s \in Slugs \cup {NoSlug}, TypeSlug(s) PROVE \E p : Fine(p)
  <2>1. Fine([page EXCEPT !.slug = s])
    BY <1>0, <1>2 DEF TypeSlug, RegisterPage
  <2> QED BY <2>1
<1>3. ASSUME Debounce PROVE \E p : Fine(p)
  <2>1. Fine([page EXCEPT !.debounced = page.slug])
    BY <1>0, <1>3 DEF Debounce, RegisterPage, SlugGiven
  <2> QED BY <2>1
<1>4. ASSUME Continue PROVE \E p : Fine(p)
  <2>1. Fine([page EXCEPT !.step = @ + 1])
    BY <1>0, <1>4, RegistrationAssumption DEF Continue, RegisterPage
  <2> QED BY <2>1
<1>5. ASSUME Back PROVE \E p : Fine(p)
  <2> DEFINE slug == IF page.step = 2 THEN page.name ELSE page.slug
             p    == [page EXCEPT !.step = @ - 1, !.slug = slug]
  <2>1. page.step \in 2..3 /\ slug \in Slugs \cup {NoSlug}
    BY <1>0, <1>5 DEF Back, RegisterPage
  <2>2. p \in RegisterPage /\ p.step # 3
    <3> HIDE DEF slug
    <3>1. page.step - 1 \in 1..2 /\ 1..2 \subseteq 1..3 /\ 3 \notin 1..2
      BY <2>1
    <3>2. p \in RegisterPage
      BY <1>0, <2>1, <3>1 DEF RegisterPage
    <3>3. p.step = page.step - 1
      BY <1>0 DEF RegisterPage
    <3> QED BY <3>1, <3>2, <3>3
  <2>3. Rendered(p)
    BY <1>5 DEF Back
  <2>4. Fine(p)
    BY <1>0, <2>2, <2>3 DEF RegisterPage
  <2> QED BY <2>4
<1> QED BY <1>1, <1>2, <1>3, <1>4, <1>5 DEF Rendering

\* A render may start a check, and says so.
LEMMA RenderedTyped ==
  ASSUME RegisterTypeOK, NEW p \in RegisterPage, Rendered(p)
  PROVE  /\ RegisterTypeOK'
         /\ UNCHANGED <<tenants, admins, reg, arrived, tries>>
         /\ page'.step = p.step /\ page'.slug = p.slug /\ page'.debounced = p.debounced
         /\ page'.about = p.about
         /\ page' # p => page'.mark = "unknown"
<1>1. UNCHANGED <<tenants, admins, reg, arrived, tries>>
  BY DEF Rendered
<1>2. CASE Due(p)
  <2>1. page' = [p EXCEPT !.checking = TRUE, !.mark = "unknown"]
    BY <1>2 DEF Rendered
  <2>2. page' \in RegisterPage
    BY <2>1 DEF RegisterPage, Marks
  <2>3. [slug |-> p.debounced, answer |-> "asked"] \in Check
    BY DEF Check, RegisterPage
  <2>4. checks' \in [1..MaxChecks -> Check]
    BY <1>2, <2>3 DEF Rendered, RegisterTypeOK
  <2>5. RegisterTypeOK'
    BY <1>1, <2>2, <2>4 DEF RegisterTypeOK
  <2>6. /\ page'.step = p.step /\ page'.slug = p.slug /\ page'.debounced = p.debounced
        /\ page'.about = p.about /\ page'.mark = "unknown"
    BY <2>1 DEF RegisterPage
  <2> QED BY <1>1, <2>5, <2>6
<1>3. CASE ~Due(p)
  BY <1>1, <1>3 DEF Rendered, RegisterTypeOK
<1> QED BY <1>2, <1>3

-----------------------------------------------------------------------------
(* The transactions.                                                       *)

\* One step of request r, which goes no further than to step.
LEMMA Reached ==
  ASSUME RegisterTypeOK, RowsNamed, NEW r \in Regs, reg[r].pc # "idle",
         NEW step \in {"insertTenant", "insertUser", "commit", "tokens", "ok", "error"}, Reach(r, step)
  PROVE  /\ reg' \in [Regs -> Reg] /\ RowsNamed'
         /\ reg'[r].pc = step /\ reg'[r].slug = reg[r].slug /\ reg'[r].number = reg[r].number
         /\ \A q \in Regs \ {r} : reg'[q] = reg[q]
<1>1. /\ reg' = [reg EXCEPT ![r] = [reg[r] EXCEPT !.pc = step]]
      /\ reg \in [Regs -> Reg]
  BY DEF Reach, RegisterTypeOK
<1>2. /\ [reg[r] EXCEPT !.pc = step] \in Reg
      /\ [reg[r] EXCEPT !.pc = step].pc = step
      /\ [reg[r] EXCEPT !.pc = step].slug = reg[r].slug
      /\ [reg[r] EXCEPT !.pc = step].number = reg[r].number
  BY <1>1 DEF Reg
<1> QED BY <1>1, <1>2 DEF RowsNamed

\* Nothing that the transactions read or write has changed.
LEMMA RowsKept ==
  ASSUME RowsInv, RegisterTypeOK', SlugGiven', UNCHANGED <<tenants, admins, reg>>
  PROVE  RowsInv'
BY DEF RowsInv, RowsNamed, SlugHeldOnce, Holds, Committed, TenantsHaveAdmins, Row

\* A request that begins holds nothing yet.
LEMMA AskedFor ==
  ASSUME RowsInv, NEW r \in Regs, NEW s \in Slugs, AskForTenant(r, s), page' \in RegisterPage, SlugGiven'
  PROVE  RowsInv'
<1> USE RegistrationAssumption DEF RowsInv
<1>1. /\ UNCHANGED <<tenants, admins, checks, arrived>> /\ tries' = tries + 1
      /\ tries \in Nat /\ tries < MaxTries /\ reg \in [Regs -> Reg]
      /\ reg' = [reg EXCEPT ![r] = [slug |-> s, number |-> tries + 1, pc |-> "find"]]
  BY DEF AskForTenant, RegisterTypeOK
<1>2. [slug |-> s, number |-> tries + 1, pc |-> "find"] \in Reg
  BY <1>1 DEF Reg
<1>3. RegisterTypeOK'
  BY <1>1, <1>2 DEF RegisterTypeOK
<1>4. /\ reg'[r].slug = s /\ reg'[r].number = tries + 1 /\ reg'[r].pc = "find"
      /\ \A q \in Regs \ {r} : reg'[q] = reg[q]
  BY <1>1
<1>5. RowsNamed'
  BY <1>1, <1>4 DEF RowsNamed
<1>6. \A q \in Regs : (Holds(q) \/ reg[q].pc \in {"tokens", "ok"})' => q # r
  BY <1>4 DEF Holds
<1>7. SlugHeldOnce' /\ Committed' /\ TenantsHaveAdmins'
  BY <1>1, <1>4, <1>6 DEF SlugHeldOnce, Holds, Committed, TenantsHaveAdmins, Row
<1> QED BY <1>3, <1>5, <1>7

\* A step of a transaction that writes no row.  It comes to hold its slug only when
\* nobody has it, and past the commit only from there.
LEMMA Advanced ==
  ASSUME RowsInv, NEW r \in Regs, reg[r].pc # "idle",
         NEW step \in {"insertTenant", "insertUser", "commit", "tokens", "ok", "error"}, Reach(r, step),
         Api, UNCHANGED <<tenants, admins, tries>>,
         step \in {"insertUser", "commit"} => Holds(r) \/ (~Locked(r) /\ ~Exists(r)),
         step \in {"tokens", "ok"} => reg[r].pc = "tokens"
  PROVE  RowsInv'
<1> USE DEF RowsInv
<1>1. /\ reg' \in [Regs -> Reg] /\ RowsNamed'
      /\ reg'[r].pc = step /\ reg'[r].slug = reg[r].slug /\ reg'[r].number = reg[r].number
      /\ \A q \in Regs \ {r} : reg'[q] = reg[q]
  BY Reached
<1>2. RegisterTypeOK' /\ SlugGiven'
  BY <1>1 DEF Api, RegisterTypeOK, SlugGiven
<1>3. ASSUME NEW q \in Regs, Holds(q)' PROVE \A t \in tenants : t[1] # reg[q].slug
  BY <1>1, <1>3 DEF Holds, SlugHeldOnce, Exists
<1>4. ASSUME NEW q \in Regs, NEW u \in Regs, Holds(q)', Holds(u)', reg[q].slug = reg[u].slug
      PROVE  q = u
  <2>1. CASE q # r /\ u # r
    BY <1>1, <1>4, <2>1 DEF Holds, SlugHeldOnce
  <2>2. CASE q = r /\ u # r
    BY <1>1, <1>4, <2>2 DEF Holds, SlugHeldOnce, Locked
  <2>3. CASE q # r /\ u = r
    BY <1>1, <1>4, <2>3 DEF Holds, SlugHeldOnce, Locked
  <2> QED BY <2>1, <2>2, <2>3
<1>5. SlugHeldOnce'
  BY <1>1, <1>3, <1>4 DEF SlugHeldOnce
<1>6. Committed' /\ TenantsHaveAdmins'
  BY <1>1 DEF Committed, TenantsHaveAdmins, Row
<1> QED BY <1>1, <1>2, <1>5, <1>6

\* The commit: the slug is nobody else's, and what it writes it writes together.
LEMMA CommittedRow == ASSUME RowsInv, NEW r \in Regs, CommitTenant(r) PROVE RowsInv'
<1> USE DEF RowsInv
<1>1. /\ reg' \in [Regs -> Reg] /\ RowsNamed'
      /\ reg'[r].pc = "tokens" /\ reg'[r].slug = reg[r].slug /\ reg'[r].number = reg[r].number
      /\ \A q \in Regs \ {r} : reg'[q] = reg[q]
  BY Reached DEF CommitTenant
<1>2. Holds(r) /\ reg[r].pc # "idle"
  BY DEF CommitTenant, Holds
<1>3. Row(r) \in Slugs \X (1..MaxTries) /\ Row(r)[1] = reg[r].slug
  BY <1>2 DEF Row, RowsNamed
<1>4. RegisterTypeOK' /\ SlugGiven'
  BY <1>1, <1>3 DEF CommitTenant, Api, RegisterTypeOK, SlugGiven
<1>5. tenants' = tenants \cup {Row(r)} /\ admins' = admins \cup {Row(r)}
  BY DEF CommitTenant
<1>6. ASSUME NEW q \in Regs, Holds(q)'
      PROVE  q # r /\ Holds(q) /\ reg'[q].slug = reg[q].slug /\ reg[q].slug # reg[r].slug
  BY <1>1, <1>2, <1>6 DEF Holds, SlugHeldOnce
<1>7. SlugHeldOnce'
  BY <1>1, <1>3, <1>5, <1>6 DEF SlugHeldOnce
<1>8. Row(r)' = Row(r) /\ \A q \in Regs \ {r} : Row(q)' = Row(q)
  BY <1>1 DEF Row
<1>9. Committed'
  BY <1>1, <1>5, <1>8 DEF Committed
<1>10. \A t \in tenants : t[1] # Row(r)[1]
  BY <1>2, <1>3 DEF SlugHeldOnce
<1>11. TenantsHaveAdmins'
  BY <1>1, <1>5, <1>8, <1>9, <1>10 DEF TenantsHaveAdmins, Committed
<1> QED BY <1>1, <1>4, <1>7, <1>9, <1>11

\* An answer frees the request.
LEMMA AnsweredRow == ASSUME RowsInv, NEW r \in Regs, RegisterAnswered(r) PROVE RowsInv'
<1> USE RegistrationAssumption DEF RowsInv
<1>1. /\ reg' = [reg EXCEPT ![r] = NoReg] /\ reg \in [Regs -> Reg]
      /\ UNCHANGED <<tenants, admins, checks, arrived, tries>>
  BY DEF RegisterAnswered, RegisterTypeOK
<1>2. NoReg \in Reg /\ NoReg.pc = "idle"
  BY DEF NoReg, Reg
<1>3. reg'[r].pc = "idle" /\ \A q \in Regs \ {r} : reg'[q] = reg[q]
  BY <1>1, <1>2
<1>4. \E state \in {page.state, "in", "error"} : page' = [page EXCEPT !.state = state]
  BY DEF RegisterAnswered, RegisterTypeOK, RegisterPage
<1>5. page' \in RegisterPage /\ page'.step = page.step /\ page'.slug = page.slug
  BY <1>4 DEF RegisterTypeOK, RegisterPage
<1>6. RegisterTypeOK' /\ SlugGiven'
  BY <1>1, <1>2, <1>5 DEF RegisterTypeOK, SlugGiven
<1>7. RowsNamed' /\ Committed' /\ SlugHeldOnce' /\ TenantsHaveAdmins'
  BY <1>1, <1>3 DEF RowsNamed, Committed, SlugHeldOnce, Holds, TenantsHaveAdmins, Row
<1> QED BY <1>6, <1>7

\* Every step keeps what the tables and the transactions promise.
LEMMA RowsStep == ASSUME RowsInv, [RegisterNext]_registerVars PROVE RowsInv'
<1> USE RegistrationAssumption
<1>0. RegisterTypeOK /\ RowsNamed /\ SlugGiven
  BY DEF RowsInv
<1>1. CASE Rendering
  <2>1. PICK p \in RegisterPage : Rendered(p) /\ (p.step = 3 => p.slug # NoSlug)
    BY <1>0, <1>1, RenderedPage
  <2>2. /\ RegisterTypeOK' /\ UNCHANGED <<tenants, admins, reg>>
        /\ page'.step = p.step /\ page'.slug = p.slug
    BY <1>0, <2>1, RenderedTyped
  <2>3. SlugGiven'
    BY <2>1, <2>2 DEF SlugGiven
  <2> QED BY <2>2, <2>3, RowsKept
<1>2. CASE Submit
  <2>1. page.slug \in Slugs /\ Mine \in Regs
    BY <1>0, <1>2 DEF Submit, SlugGiven, RegisterTypeOK, RegisterPage
  <2>2. page' \in RegisterPage /\ page'.step = page.step /\ page'.slug = page.slug
    BY <1>0, <1>2 DEF Submit, RegisterTypeOK, RegisterPage
  <2>3. SlugGiven' /\ AskForTenant(Mine, page.slug)
    BY <1>0, <1>2, <2>2 DEF Submit, SlugGiven
  <2> QED BY <2>1, <2>2, <2>3, AskedFor
<1>3. ASSUME NEW r \in Regs, NEW s \in Slugs, SubmitElsewhere(r, s) PROVE RowsInv'
  BY <1>0, <1>3, AskedFor DEF SubmitElsewhere, RegisterTypeOK, SlugGiven
<1>4. ASSUME NEW n \in 1..MaxChecks, ServeCheck(n) PROVE RowsInv'
  <2>1. PICK answer \in {"failed", "taken", "free"} : checks' = [checks EXCEPT ![n].answer = answer]
    BY <1>4 DEF ServeCheck
  <2>2. checks' \in [1..MaxChecks -> Check]
    BY <1>0, <2>1 DEF RegisterTypeOK, Check
  <2>3. RegisterTypeOK' /\ SlugGiven' /\ UNCHANGED <<tenants, admins, reg>>
    BY <1>0, <1>4, <2>2 DEF ServeCheck, RegisterTypeOK, SlugGiven
  <2> QED BY <2>3, RowsKept
<1>5. ASSUME NEW n \in 1..MaxChecks, CheckAnswered(n) PROVE RowsInv'
  <2>1. checks' \in [1..MaxChecks -> Check]
    BY <1>0, <1>5 DEF CheckAnswered, RegisterTypeOK, Check
  <2>2. checks[n].slug \in Slugs \cup {NoSlug}
    BY <1>0 DEF RegisterTypeOK, Check
  <2>3. \E mark \in {"unknown", "free", "taken"} :
          page' = [page EXCEPT !.checking = FALSE, !.about = checks[n].slug, !.mark = mark]
    BY <1>5 DEF CheckAnswered
  <2>4. page' \in RegisterPage /\ page'.step = page.step /\ page'.slug = page.slug
    BY ZenonT(60), <1>0, <2>2, <2>3 DEF RegisterTypeOK, RegisterPage, Marks
  <2>5. RegisterTypeOK' /\ SlugGiven' /\ UNCHANGED <<tenants, admins, reg>>
    BY <1>0, <1>5, <2>1, <2>4 DEF CheckAnswered, RegisterTypeOK, SlugGiven
  <2> QED BY <2>5, RowsKept
<1>6. ASSUME NEW r \in Regs, Find(r) PROVE RowsInv'
  BY <1>6, Advanced DEF Find
<1>7. ASSUME NEW r \in Regs, InsertTenant(r) PROVE RowsInv'
  BY <1>7, Advanced DEF InsertTenant
<1>8. ASSUME NEW r \in Regs, InsertUser(r) PROVE RowsInv'
  BY <1>8, Advanced DEF InsertUser, Holds
<1>9. ASSUME NEW r \in Regs, Tokens(r) PROVE RowsInv'
  BY <1>9, Advanced DEF Tokens
<1>10. ASSUME NEW r \in Regs, CommitTenant(r) PROVE RowsInv'
  BY <1>10, CommittedRow
<1>11. ASSUME NEW r \in Regs, RegisterAnswered(r) PROVE RowsInv'
  BY <1>11, AnsweredRow
<1>12. CASE UNCHANGED registerVars
  BY <1>0, <1>12, RowsKept DEF registerVars, RegisterTypeOK, SlugGiven
<1> QED BY <1>1, <1>2, <1>3, <1>4, <1>5, <1>6, <1>7, <1>8, <1>9, <1>10, <1>11, <1>12
        DEF RegisterNext, Rendering

-----------------------------------------------------------------------------
(* Registration: the mark of the slug.                                      *)

\* A render that starts a check starts the next one, of the slug it shows.
LEMMA RenderedMark ==
  ASSUME MarkInv, RegisterTypeOK', NEW p \in RegisterPage, Rendered(p),
         p.mark = page.mark, p.about = page.about, p.checking = page.checking
  PROVE  MarkInv'
<1> USE RegistrationAssumption DEF MarkInv
<1>0. Started \in 0..MaxChecks
  BY StartedBounded
<1>1. CASE ~Due(p)
  <2>1. page' = p /\ UNCHANGED <<checks, tenants, arrived>>
    BY <1>1 DEF Rendered
  <2>2. Started' = Started
    BY <2>1 DEF Started
  <2>3. LatestIsDue'
    BY <1>1, <2>1, <2>2 DEF LatestIsDue, Due
  <2> QED BY <2>1, <2>2, <2>3 DEF ChecksNumbered, TakenIsRight, LatestShown
<1>2. CASE Due(p)
  <2> DEFINE k == Started + 1
             check == [slug |-> p.debounced, answer |-> "asked"]
  <2>1. /\ Started < MaxChecks /\ UNCHANGED <<tenants, arrived>>
        /\ page' = [p EXCEPT !.checking = TRUE, !.mark = "unknown"]
        /\ checks' = [checks EXCEPT ![k] = check]
    BY <1>2 DEF Rendered
  <2>2. k \in 1..MaxChecks /\ checks \in [1..MaxChecks -> Check]
    BY <1>0, <2>1 DEF RegisterTypeOK
  <2>3. checks'[k] = check /\ \A n \in 1..MaxChecks : n # k => checks'[n] = checks[n]
    BY <2>1, <2>2
  <2>4. \A n \in 1..MaxChecks : checks'[n].answer # "none" <=> n <= k
    BY <1>0, <2>3 DEF ChecksNumbered
  <2>5. Started' = k
    <3> HIDE DEF k
    <3>1. k \in 0..MaxChecks
      BY <2>2
    <3> QED BY <2>4, <3>1, CountedUpTo DEF Started
  <2>6. ChecksNumbered'
    BY <2>4, <2>5 DEF ChecksNumbered
  <2>7. page'.mark = "unknown" /\ page'.debounced = p.debounced
    BY <2>1 DEF RegisterPage
  <2>8. TakenIsRight'
    BY <2>1, <2>3, <2>7 DEF TakenIsRight
  <2>9. LatestIsDue'
    BY <1>0, <2>3, <2>5, <2>7 DEF LatestIsDue
  <2>10. LatestShown'
    BY <1>0, <2>1, <2>5 DEF LatestShown, RegisterTypeOK
  <2> QED BY <2>6, <2>8, <2>9, <2>10
<1> QED BY <1>1, <1>2

\* The answer of a check goes to the page, which takes it for what it shows.
LEMMA AnsweredMark ==
  ASSUME MarkInv, RegisterTypeOK', NEW n \in 1..MaxChecks, CheckAnswered(n)
  PROVE  MarkInv'
<1> USE RegistrationAssumption DEF MarkInv
<1>0. Started \in 0..MaxChecks
  BY StartedBounded
<1>1. /\ checks' = [checks EXCEPT ![n].answer = "over"] /\ checks \in [1..MaxChecks -> Check]
      /\ arrived' = n /\ UNCHANGED tenants /\ checks[n].answer # "none"
      /\ page' = [page EXCEPT !.checking = FALSE, !.about = checks[n].slug,
                              !.mark = IF checks[n].answer = "failed" THEN "unknown" ELSE checks[n].answer]
      /\ page \in RegisterPage
  BY DEF CheckAnswered, RegisterTypeOK
<1>2. /\ checks'[n].answer = "over" /\ checks'[n].slug = checks[n].slug
      /\ \A m \in 1..MaxChecks : m # n => checks'[m] = checks[m]
  BY <1>1 DEF Check
<1>3. \A m \in 1..MaxChecks : checks'[m].answer # "none" <=> m <= Started
  BY <1>1, <1>2 DEF ChecksNumbered
<1>4. Started' = Started
  BY <1>0, <1>3, CountedUpTo DEF Started
<1>5. /\ page'.checking = FALSE /\ page'.about = checks[n].slug
      /\ page'.step = page.step /\ page'.debounced = page.debounced
  BY <1>1 DEF RegisterPage
<1>6. page'.mark = "taken" => checks[n].answer = "taken"
  BY <1>1 DEF RegisterPage
<1>7. ChecksNumbered'
  BY <1>3, <1>4 DEF ChecksNumbered
<1>8. TakenIsRight'
  BY <1>1, <1>2, <1>5, <1>6 DEF TakenIsRight
<1>9. LatestIsDue'
  BY <1>0, <1>2, <1>4, <1>5 DEF LatestIsDue
<1>10. LatestShown'
  BY <1>1, <1>2, <1>4, <1>5 DEF LatestShown, ChecksNumbered
<1> QED BY <1>7, <1>8, <1>9, <1>10

\* The server reads the tenants, which stay once they are there.
LEMMA ServedMark ==
  ASSUME MarkInv, RegisterTypeOK', NEW n \in 1..MaxChecks, ServeCheck(n)
  PROVE  MarkInv'
<1> USE RegistrationAssumption DEF MarkInv
<1>0. Started \in 0..MaxChecks
  BY StartedBounded
<1>1. PICK answer \in {"failed", IF \E t \in tenants : t[1] = checks[n].slug THEN "taken" ELSE "free"} :
        checks' = [checks EXCEPT ![n].answer = answer]
  BY DEF ServeCheck
<1>2. /\ checks \in [1..MaxChecks -> Check] /\ checks[n].answer = "asked"
      /\ UNCHANGED <<tenants, page, arrived>>
  BY DEF ServeCheck, RegisterTypeOK
<1>3. /\ checks'[n].answer = answer /\ checks'[n].slug = checks[n].slug
      /\ \A m \in 1..MaxChecks : m # n => checks'[m] = checks[m]
  BY <1>1, <1>2 DEF Check
<1>4. answer # "none" /\ (answer = "taken" => \E t \in tenants : t[1] = checks[n].slug)
  OBVIOUS
<1>5. \A m \in 1..MaxChecks : checks'[m].answer # "none" <=> m <= Started
  BY <1>2, <1>3, <1>4 DEF ChecksNumbered
<1>6. Started' = Started
  BY <1>0, <1>5, CountedUpTo DEF Started
<1>7. ChecksNumbered'
  BY <1>5, <1>6 DEF ChecksNumbered
<1>8. TakenIsRight'
  BY <1>2, <1>3, <1>4 DEF TakenIsRight
<1>9. LatestIsDue' /\ LatestShown'
  BY <1>0, <1>2, <1>3, <1>6 DEF LatestIsDue, LatestShown, RegisterTypeOK
<1> QED BY <1>7, <1>8, <1>9

\* Steps that leave the checks, and of the page all but how the submission stands.
LEMMA MarkKept ==
  ASSUME MarkInv, RegisterTypeOK', UNCHANGED <<checks, arrived>>, tenants \subseteq tenants',
         \A f \in {"step", "debounced", "mark", "about", "checking"} : page'[f] = page[f]
  PROVE  MarkInv'
<1>1. Started' = Started
  BY DEF Started
<1>2. /\ page'.step = page.step /\ page'.debounced = page.debounced /\ page'.mark = page.mark
      /\ page'.about = page.about /\ page'.checking = page.checking
  OBVIOUS
<1> QED BY <1>1, <1>2 DEF MarkInv, ChecksNumbered, TakenIsRight, LatestIsDue, LatestShown

\* Every step keeps what the mark says.
LEMMA MarkStep == ASSUME RowsInv, MarkInv, [RegisterNext]_registerVars PROVE MarkInv'
<1>0. RegisterTypeOK /\ RegisterTypeOK' /\ SlugGiven /\ page \in RegisterPage
  BY RowsStep DEF RowsInv, RegisterTypeOK
<1>1. CASE Rendering
  BY <1>0, <1>1, RenderedPage, RenderedMark
<1>2. ASSUME NEW n \in 1..MaxChecks, ServeCheck(n) PROVE MarkInv'
  BY <1>0, <1>2, ServedMark
<1>3. ASSUME NEW n \in 1..MaxChecks, CheckAnswered(n) PROVE MarkInv'
  BY <1>0, <1>3, AnsweredMark
<1>4. ASSUME UNCHANGED page, UNCHANGED <<checks, arrived>>, tenants \subseteq tenants' PROVE MarkInv'
  BY <1>0, <1>4, MarkKept
<1>5. ASSUME NEW state, page' = [page EXCEPT !.state = state],
             UNCHANGED <<checks, arrived>>, tenants \subseteq tenants'
      PROVE  MarkInv'
  <2>1. \A f \in {"step", "debounced", "mark", "about", "checking"} : page'[f] = page[f]
    BY <1>0, <1>5 DEF RegisterPage
  <2> QED BY <1>0, <1>5, <2>1, MarkKept
<1>6. CASE Submit
  BY <1>5, <1>6 DEF Submit, AskForTenant
<1>7. ASSUME NEW r \in Regs, RegisterAnswered(r) PROVE MarkInv'
  BY <1>4, <1>5, <1>7 DEF RegisterAnswered
<1>8. ASSUME NEW r \in Regs, NEW s \in Slugs, SubmitElsewhere(r, s) PROVE MarkInv'
  BY <1>4, <1>8 DEF SubmitElsewhere, AskForTenant
<1>9. ASSUME NEW r \in Regs, Find(r) \/ InsertTenant(r) \/ InsertUser(r) \/ CommitTenant(r) \/ Tokens(r)
      PROVE  MarkInv'
  BY <1>4, <1>9 DEF Find, InsertTenant, InsertUser, CommitTenant, Tokens, Api
<1>10. CASE UNCHANGED registerVars
  BY <1>4, <1>10 DEF registerVars
<1> QED BY <1>1, <1>2, <1>3, <1>6, <1>7, <1>8, <1>9, <1>10 DEF RegisterNext, Rendering

\* What a page may show is what the latest check said of its slug.
LEMMA MarkOfSlug == ASSUME MarkInv PROVE SlugChecked
<1>1. ASSUME page.step = 2, page.slug # NoSlug, page.debounced = page.slug, arrived = Started
      PROVE  ~page.checking /\ page.about = page.slug
  BY <1>1 DEF MarkInv, LatestIsDue, LatestShown
<1> QED BY <1>1 DEF MarkInv, TakenIsRight, SlugChecked

-----------------------------------------------------------------------------

\* Both invariants hold for ever.
LEMMA Registered == RegisterSpec => [](RowsInv /\ MarkInv)
<1>1. RegisterInit => RowsInv /\ MarkInv
  BY InitInv
<1>2. RowsInv /\ MarkInv /\ [RegisterNext]_registerVars => (RowsInv /\ MarkInv)'
  BY RowsStep, MarkStep
<1> QED BY <1>1, <1>2, PTL DEF RegisterSpec

\* Whatever step of however many registrations fails, and however those of one slug
\* interleave, a tenant has its administrator, a slug one tenant, and a client that is
\* told of success its tenant.
THEOREM TenantsAlwaysHaveAdmins == RegisterSpec => []TenantsHaveAdmins
<1>1. RowsInv => TenantsHaveAdmins
  BY DEF RowsInv
<1> QED BY <1>1, Registered, PTL

\* However the user types and goes back and forth, and in whatever order checks are
\* answered: once the latest check is the latest answered, step 2 marks the slug it
\* shows, and "taken" is true of it.
THEOREM RegistrationIsRight == RegisterSpec => []RegisterInv
<1>1. RowsInv /\ MarkInv => RegisterInv
  BY MarkOfSlug DEF RegisterInv, MarkInv
<1> QED BY <1>1, Registered, PTL

-----------------------------------------------------------------------------
(* Notifications.                                                           *)

\* Whom the handler that has got as far as j has told.
ToldBy(j) ==
  IF j.at \in {"telling", "saved", "done"} THEN {u \in j.all : u \notin j.to \/ (j.at = "saved" /\ u = j.now)} ELSE {}

\* A handler tells people it found, who do not include the one it tells about, but for
\* deletions and sprints; when it is done, nobody is left.
JobRight(j) ==
  /\ j.at # "found" => j.to \subseteq j.all
  /\ j.type \notin {"deleted", "sprint"} => j.by \notin j.all
  /\ j.at = "saved" => j.now \in j.to
  /\ j.at = "done" => j.to = {}

In(table, e) == \E n \in DOMAIN table : table[n] = e

\* A user has a notification once, of a handler that found the user; and has those of
\* the handlers that have told the user, while they have not failed.
TableKnown(u) ==
  /\ \A m, n \in DOMAIN rows[u] : rows[u][m] = rows[u][n] => m = n
  /\ \A n \in DOMAIN rows[u] : job[rows[u][n]] # None /\ u \in job[rows[u][n]].all
  /\ u \in gone => rows[u] = <<>>
  /\ u \notin gone => \A e \in Events : job[e] # None /\ job[e].at # "failed" =>
                        (In(rows[u], e) <=> u \in ToldBy(job[e]))

NotifyTyped ==
  /\ issue = None \/ issue \in [reporter : Users, assignee : Users \cup {None}]
  /\ commenters \subseteq Users /\ gone \subseteq Users
  /\ job \in [Events -> Job \cup {None}]
  /\ rows \in [Users -> Seq(Events)]

NotifyKnown ==
  /\ NotifyTyped
  /\ \A e \in Events : job[e] # None => JobRight(job[e])
  /\ \A u \in Users : TableKnown(u)

\* The fields of a handler.
LEMMA JobFields ==
  ASSUME NEW j \in Job
  PROVE  /\ j.type \in Types /\ j.by \in Users /\ j.to \in SUBSET Users /\ j.all \in SUBSET Users
         /\ j.at \in {"emitted", "found", "telling", "saved", "done", "failed"} /\ j.now \in Users \cup {None}
BY DEF Job

\* A handler gets further, and has told nobody else.
LEMMA JobStep ==
  ASSUME NotifyKnown, NEW e \in Events, NEW j \in Job, JobRight(j),
         job' = [job EXCEPT ![e] = j], UNCHANGED <<gone, rows>>,
         issue' = None \/ issue' \in [reporter : Users, assignee : Users \cup {None}],
         commenters' \subseteq Users,
         \A u \in Users : In(rows[u], e) => u \in j.all,
         j.at = "failed" \/ \A u \in Users \ gone : In(rows[u], e) <=> u \in ToldBy(j)
  PROVE  NotifyKnown'
<1>1. /\ job' \in [Events -> Job \cup {None}] /\ job'[e] = j /\ \A d \in Events \ {e} : job'[d] = job[d]
      /\ None \notin Job
  BY NotificationsAssumption DEF NotifyKnown, NotifyTyped
<1>2. NotifyTyped'
  BY <1>1 DEF NotifyKnown, NotifyTyped
<1>3. \A d \in Events : job'[d] # None => JobRight(job'[d])
  BY <1>1 DEF NotifyKnown
<1>4. ASSUME NEW u \in Users PROVE TableKnown(u)'
  <2>1. TableKnown(u) /\ rows[u] \in Seq(Events)
    BY DEF NotifyKnown, NotifyTyped
  <2>2. ASSUME NEW n \in DOMAIN rows[u] PROVE job'[rows[u][n]] # None /\ u \in job'[rows[u][n]].all
    <3>1. rows[u][n] \in Events
      BY <2>1
    <3>2. CASE rows[u][n] = e
      BY <1>1, <3>2 DEF In
    <3>3. CASE rows[u][n] # e
      BY <1>1, <2>1, <3>1, <3>3 DEF TableKnown
    <3> QED BY <3>2, <3>3
  <2>3. ASSUME u \notin gone, NEW d \in Events, job'[d] # None, job'[d].at # "failed"
        PROVE  In(rows[u], d) <=> u \in ToldBy(job'[d])
    <3>1. CASE d = e
      BY <1>1, <2>3, <3>1
    <3>2. CASE d # e
      BY <1>1, <2>1, <2>3, <3>2 DEF TableKnown
    <3> QED BY <3>1, <3>2
  <2> QED BY <2>1, <2>2, <2>3 DEF TableKnown
<1> QED BY <1>2, <1>3, <1>4 DEF NotifyKnown

\* Nobody has a notification of an event whose handler has not told anybody.
LEMMA NobodyHasIt ==
  ASSUME NotifyKnown, NEW e \in Events,
         job[e] = None \/ job[e].at \in {"emitted", "found"}, NEW u \in Users
  PROVE  ~In(rows[u], e)
<1>1. TableKnown(u)
  BY DEF NotifyKnown
<1>2. CASE job[e] = None
  BY <1>1, <1>2 DEF TableKnown, In
<1>3. CASE job[e] # None
  <2>1. job[e].at \in {"emitted", "found"}
    BY <1>3
  <2>2. u \notin ToldBy(job[e])
    BY <2>1 DEF ToldBy
  <2>3. CASE u \in gone
    BY <1>1, <2>3 DEF TableKnown, In
  <2>4. CASE u \notin gone
    BY <1>1, <1>3, <2>1, <2>2, <2>4 DEF TableKnown
  <2> QED BY <2>3, <2>4
<1> QED BY <1>2, <1>3

\* An event is emitted.
LEMMA EmitKeeps ==
  ASSUME NotifyKnown, NEW type \in Types, NEW by \in Users, NEW to \in SUBSET Users,
         type \notin {"deleted", "sprint"} => by \notin to, Emit(type, by, to),
         issue' = None \/ issue' \in [reporter : Users, assignee : Users \cup {None}],
         commenters' \subseteq Users
  PROVE  NotifyKnown'
<1>1. PICK j : j = [type |-> type, by |-> by, to |-> to, all |-> to, at |-> "emitted", now |-> None]
  OBVIOUS
<1>2. j \in Job /\ JobRight(j) /\ ToldBy(j) = {}
  BY <1>1 DEF Job, JobRight, ToldBy
<1>3. PICK e \in Events : job[e] = None /\ job' = [job EXCEPT ![e] = j]
  BY <1>1 DEF Emit
<1>4. \A u \in Users : ~In(rows[u], e)
  BY <1>3, NobodyHasIt
<1>5. UNCHANGED <<gone, rows>>
  BY DEF Emit
<1> QED BY <1>2, <1>3, <1>4, <1>5, JobStep

\* What the other services do.
LEMMA ActKeeps ==
  ASSUME NotifyKnown, Act
  PROVE  NotifyKnown'
<1>1. /\ issue = None \/ issue \in [reporter : Users, assignee : Users \cup {None}]
      /\ commenters \subseteq Users /\ None \notin Users
  BY NotificationsAssumption DEF NotifyKnown, NotifyTyped
<1>2. PICK by \in Users :
        \/ \E a \in Users \cup {None} : /\ issue' = [reporter |-> by, assignee |-> a]
                                        /\ Emit("created", by, Others(Named({a}), by)) /\ UNCHANGED commenters
        \/ issue # None /\ \E a \in Users : /\ issue' = [issue EXCEPT !.assignee = a]
                                            /\ Emit("assigned", by, Others({a}, by)) /\ UNCHANGED commenters
        \/ \E type \in {"statusChanged", "updated"} : Emit(type, by, {}) /\ UNCHANGED <<issue, commenters>>
        \/ commenters' = commenters \cup {by} /\ Emit("commented", by, {}) /\ UNCHANGED issue
        \/ /\ issue # None /\ issue' = None /\ commenters' = {}
           /\ Emit("deleted", by, Named({issue.reporter, issue.assignee}))
        \/ Emit("sprint", by, {}) /\ UNCHANGED <<issue, commenters>>
  BY DEF Act, Staff
<1>3. CASE \E a \in Users \cup {None} : /\ issue' = [reporter |-> by, assignee |-> a]
                                        /\ Emit("created", by, Others(Named({a}), by)) /\ UNCHANGED commenters
  <2>1. PICK a \in Users \cup {None} : /\ issue' = [reporter |-> by, assignee |-> a]
                                       /\ Emit("created", by, Others(Named({a}), by)) /\ UNCHANGED commenters
    BY <1>3
  <2>2. Others(Named({a}), by) \in SUBSET Users /\ by \notin Others(Named({a}), by)
    BY DEF Others, Named
  <2> QED BY <1>1, <2>1, <2>2, EmitKeeps DEF Types
<1>4. CASE issue # None /\ \E a \in Users : /\ issue' = [issue EXCEPT !.assignee = a]
                                            /\ Emit("assigned", by, Others({a}, by)) /\ UNCHANGED commenters
  <2>1. PICK a \in Users : /\ issue' = [issue EXCEPT !.assignee = a]
                           /\ Emit("assigned", by, Others({a}, by)) /\ UNCHANGED commenters
    BY <1>4
  <2>2. Others({a}, by) \in SUBSET Users /\ by \notin Others({a}, by)
    BY DEF Others
  <2>3. issue' \in [reporter : Users, assignee : Users \cup {None}]
    BY <1>1, <1>4, <2>1
  <2> QED BY <1>1, <2>1, <2>2, <2>3, EmitKeeps DEF Types
<1>5. ASSUME NEW type \in {"statusChanged", "updated", "commented", "sprint"}, Emit(type, by, {}),
             UNCHANGED issue, commenters' \subseteq Users
      PROVE  NotifyKnown'
  BY <1>1, <1>5, EmitKeeps DEF Types
<1>6. CASE /\ issue # None /\ issue' = None /\ commenters' = {}
           /\ Emit("deleted", by, Named({issue.reporter, issue.assignee}))
  <2>1. Named({issue.reporter, issue.assignee}) \in SUBSET Users
    BY <1>1, <1>6 DEF Named
  <2> QED BY <1>6, <2>1, EmitKeeps DEF Types
<1>7. \A type \in {"statusChanged", "updated"} :
        Emit(type, by, {}) /\ UNCHANGED <<issue, commenters>> => NotifyKnown'
  BY <1>1, <1>5
<1>8. commenters' = commenters \cup {by} /\ Emit("commented", by, {}) /\ UNCHANGED issue => NotifyKnown'
  BY <1>1, <1>5
<1>9. Emit("sprint", by, {}) /\ UNCHANGED <<issue, commenters>> => NotifyKnown'
  BY <1>1, <1>5
<1> QED BY <1>2, <1>3, <1>4, <1>6, <1>7, <1>8, <1>9

\* A user goes, and the notifications with the user.
LEMMA RemoveUserKeeps ==
  ASSUME NotifyKnown, NEW u \in Users, RemoveUser(u)
  PROVE  NotifyKnown'
<1>1. /\ gone' = gone \cup {u} /\ rows' = [rows EXCEPT ![u] = <<>>] /\ UNCHANGED job
      /\ commenters' = commenters \ {u}
      /\ issue' = IF issue # None /\ issue.assignee = u THEN [issue EXCEPT !.assignee = None] ELSE issue
  BY DEF RemoveUser
<1>2. <<>> \in Seq(Events) /\ rows \in [Users -> Seq(Events)]
  BY DEF NotifyKnown, NotifyTyped
<1>3. rows' \in [Users -> Seq(Events)] /\ rows'[u] = <<>> /\ \A v \in Users \ {u} : rows'[v] = rows[v]
  BY <1>1, <1>2
<1>4. issue' = None \/ issue' \in [reporter : Users, assignee : Users \cup {None}]
  BY <1>1 DEF NotifyKnown, NotifyTyped
<1>5. NotifyTyped'
  BY <1>1, <1>3, <1>4 DEF NotifyKnown, NotifyTyped
<1>6. \A v \in Users : TableKnown(v)'
  BY <1>1, <1>3 DEF NotifyKnown, TableKnown
<1> QED BY <1>1, <1>5, <1>6 DEF NotifyKnown

\* Whom a handler finds are users, and not the one it tells about.
LEMMA RecipientsFound ==
  ASSUME NotifyKnown, NEW j \in Job, JobRight(j), j.at = "emitted"
  PROVE  /\ Recipients(j) \in SUBSET Users
         /\ j.type \notin {"deleted", "sprint"} => j.by \notin Recipients(j)
<1>1. /\ issue = None \/ issue \in [reporter : Users, assignee : Users \cup {None}]
      /\ None \notin Users /\ Managers \subseteq Users
  BY NotificationsAssumption DEF NotifyKnown, NotifyTyped
<1>2. j.type \in Types /\ j.to \in SUBSET Users /\ (j.type \notin {"deleted", "sprint"} => j.by \notin j.to)
  BY JobFields DEF JobRight
<1>3. CASE j.type \in {"created", "deleted"}
  <2>1. Recipients(j) = j.to
    BY <1>3 DEF Recipients
  <2> QED BY <1>2, <2>1
<1>4. CASE j.type = "sprint"
  BY <1>1, <1>4 DEF Recipients
<1>5. CASE j.type \in {"assigned", "commented", "statusChanged", "updated"} /\ issue = None
  BY <1>5 DEF Recipients
<1>6. CASE j.type \in {"assigned", "commented", "statusChanged", "updated"} /\ issue # None
  <2>1. issue.reporter \in Users /\ issue.assignee \in Users \cup {None}
    BY <1>1, <1>6
  <2>2. Recipients(j) = Concerned(j)
    BY <1>6 DEF Recipients
  <2>3. CASE j.type = "assigned"
    BY <1>2, <2>2, <2>3 DEF Concerned
  <2>4. CASE j.type = "commented"
    BY <2>1, <2>2, <2>4 DEF Concerned, Others, Named
  <2>5. CASE j.type = "statusChanged"
    BY <2>1, <2>2, <2>5 DEF Concerned, Others
  <2>6. CASE j.type = "updated"
    BY <2>1, <2>2, <2>6 DEF Concerned, Others, Named
  <2> QED BY <1>6, <2>3, <2>4, <2>5, <2>6
<1> QED BY <1>2, <1>3, <1>4, <1>5, <1>6 DEF Types

\* A handler that has found those of a set has told none of them.
LEMMA FoundRight ==
  ASSUME NEW j \in Job, NEW to \in SUBSET Users, j.type \notin {"deleted", "sprint"} => j.by \notin to
  PROVE  Found(j, to) \in Job /\ JobRight(Found(j, to)) /\ ToldBy(Found(j, to)) = {}
<1>1. PICK f : f = Found(j, to)
  OBVIOUS
<1>2. PICK at \in {"done", "telling"} : at = IF to = {} THEN "done" ELSE "telling"
  OBVIOUS
<1>3. f = [j EXCEPT !.all = to, !.to = to, !.now = None, !.at = at]
  BY <1>1, <1>2 DEF Found, Proceeding, Job
<1>4. f \in Job /\ f.type = j.type /\ f.by = j.by /\ f.all = to /\ f.to = to /\ f.at = at
  BY <1>3 DEF Job
<1> QED BY <1>1, <1>2, <1>4 DEF JobRight, ToldBy

\* The handler has looked for its recipients.
LEMMA LookupKeeps ==
  ASSUME NotifyKnown, NEW e \in Events, Lookup(e)
  PROVE  NotifyKnown'
<1>1. job[e] \in Job /\ JobRight(job[e]) /\ job[e].at = "emitted"
  BY DEF Lookup, NotifyKnown, NotifyTyped
<1>2. PICK j \in Job : j = job[e]
  BY <1>1
<1>3. PICK to : to = Recipients(j)
  OBVIOUS
<1>4. to \in SUBSET Users /\ (j.type \notin {"deleted", "sprint"} => j.by \notin to)
  BY <1>1, <1>2, <1>3, RecipientsFound
<1>5. \A u \in Users : ~In(rows[u], e)
  BY <1>1, NobodyHasIt
<1>6. /\ UNCHANGED <<issue, commenters, gone, rows>>
      /\ issue = None \/ issue \in [reporter : Users, assignee : Users \cup {None}]
      /\ commenters \subseteq Users
  BY DEF Lookup, NotifyKnown, NotifyTyped
<1>7. CASE j.type = "commented" /\ issue # None
  <2>1. PICK f : f = [j EXCEPT !.all = to, !.at = "found"]
    OBVIOUS
  <2>2. f \in Job /\ f.all = to /\ f.at = "found" /\ f.to = j.to /\ f.type = j.type /\ f.by = j.by
    BY <1>4, <2>1 DEF Job
  <2>3. job' = [job EXCEPT ![e] = f]
    BY <1>2, <1>3, <1>7, <2>1 DEF Lookup
  <2> QED BY <1>1, <1>2, <1>4, <1>5, <1>6, <2>2, <2>3, JobStep DEF JobRight, ToldBy
<1>8. CASE ~(j.type = "commented" /\ issue # None)
  <2>1. PICK f : f = Found(j, to)
    OBVIOUS
  <2>2. f \in Job /\ JobRight(f) /\ ToldBy(f) = {}
    BY <1>4, <2>1, FoundRight
  <2>3. job' = [job EXCEPT ![e] = f]
    BY <1>2, <1>3, <1>8, <2>1 DEF Lookup
  <2> QED BY <1>5, <1>6, <2>2, <2>3, JobStep
<1> QED BY <1>7, <1>8

\* The handler of a comment has looked for the other commenters.
LEMMA LookupCommentsKeeps ==
  ASSUME NotifyKnown, NEW e \in Events, LookupComments(e)
  PROVE  NotifyKnown'
<1>1. job[e] \in Job /\ JobRight(job[e]) /\ job[e].at = "found"
  BY DEF LookupComments, NotifyKnown, NotifyTyped
<1>2. PICK j \in Job : j = job[e]
  BY <1>1
<1>3. PICK to : to = j.all \cup Others(commenters, j.by)
  OBVIOUS
<1>4. to \in SUBSET Users /\ (j.type \notin {"deleted", "sprint"} => j.by \notin to)
  BY <1>1, <1>2, <1>3, JobFields DEF Others, JobRight, NotifyKnown, NotifyTyped
<1>5. \A u \in Users : ~In(rows[u], e)
  BY <1>1, NobodyHasIt
<1>6. /\ UNCHANGED <<issue, commenters, gone, rows>>
      /\ issue = None \/ issue \in [reporter : Users, assignee : Users \cup {None}]
      /\ commenters \subseteq Users
  BY DEF LookupComments, NotifyKnown, NotifyTyped
<1>7. PICK f : f = Found(j, to)
  OBVIOUS
<1>8. f \in Job /\ JobRight(f) /\ ToldBy(f) = {}
  BY <1>4, <1>7, FoundRight
<1>9. job' = [job EXCEPT ![e] = Found(job[e], job[e].all \cup Others(commenters, job[e].by))]
  BY DEF LookupComments
<1>10. job' = [job EXCEPT ![e] = f]
  BY <1>2, <1>3, <1>7, <1>9
<1> QED BY <1>5, <1>6, <1>8, <1>10, JobStep
\* A handler has to tell those of a set of the people it found, and has told the others.
LEMMA ProceedingRight ==
  ASSUME NEW j \in Job, JobRight(j), NEW to \in SUBSET j.all, j.at # "found"
  PROVE  /\ Proceeding(j, to) \in Job /\ JobRight(Proceeding(j, to))
         /\ ToldBy(Proceeding(j, to)) = j.all \ to /\ Proceeding(j, to).all = j.all
<1>1. PICK f : f = Proceeding(j, to)
  OBVIOUS
<1>2. PICK at \in {"done", "telling"} : at = IF to = {} THEN "done" ELSE "telling"
  OBVIOUS
<1>3. f = [j EXCEPT !.to = to, !.now = None, !.at = at]
  BY <1>1, <1>2 DEF Proceeding
<1>4. j.all \in SUBSET Users
  BY JobFields
<1>5. f \in Job /\ f.type = j.type /\ f.by = j.by /\ f.all = j.all /\ f.to = to /\ f.at = at
  BY <1>3, <1>4 DEF Job
<1> QED BY <1>1, <1>2, <1>5 DEF JobRight, ToldBy

\* The row is saved, or its recipient is gone and the handler ends.
LEMMA SaveKeeps ==
  ASSUME NotifyKnown, NEW e \in Events, Save(e)
  PROVE  NotifyKnown'
<1>1. job[e] \in Job /\ JobRight(job[e]) /\ job[e].at = "telling" /\ job[e] # None
  BY DEF Save, NotifyKnown, NotifyTyped
<1>2. PICK j \in Job : j = job[e]
  BY <1>1
<1>3. /\ UNCHANGED <<issue, commenters, gone>>
      /\ issue = None \/ issue \in [reporter : Users, assignee : Users \cup {None}]
      /\ commenters \subseteq Users
  BY DEF Save, NotifyKnown, NotifyTyped
<1>4. j.to \subseteq j.all /\ j.all \in SUBSET Users /\ ToldBy(j) = j.all \ j.to
  BY <1>1, <1>2, JobFields DEF JobRight, ToldBy
<1>5. PICK u \in j.to :
        IF u \in gone
        THEN /\ job' = [job EXCEPT ![e].at = "failed"] /\ UNCHANGED rows
        ELSE /\ rows' = [rows EXCEPT ![u] = Append(rows[u], e)]
             /\ job' = [job EXCEPT ![e].at = "saved", ![e].now = u]
  BY <1>2 DEF Save
<1>6. u \in Users
  BY <1>4, <1>5
<1>7. \A v \in Users : In(rows[v], e) => v \in j.all
  BY <1>2 DEF NotifyKnown, TableKnown, In
<1>8. CASE u \in gone
  <2>1. PICK f : f = [j EXCEPT !.at = "failed"]
    OBVIOUS
  <2>2. f \in Job /\ f.at = "failed" /\ f.to = j.to /\ f.all = j.all /\ f.type = j.type /\ f.by = j.by
    BY <2>1 DEF Job
  <2>3. job' = [job EXCEPT ![e] = f] /\ UNCHANGED rows
    BY <1>2, <1>5, <1>8, <2>1
  <2>4. JobRight(f)
    BY <1>1, <1>2, <2>2 DEF JobRight
  <2> QED BY <1>3, <1>7, <2>2, <2>3, <2>4, JobStep
<1>9. CASE u \notin gone
  <2>1. PICK f : f = [j EXCEPT !.at = "saved", !.now = u]
    OBVIOUS
  <2>2. /\ f \in Job /\ f.at = "saved" /\ f.now = u /\ f.to = j.to /\ f.all = j.all
        /\ f.type = j.type /\ f.by = j.by
    BY <1>6, <2>1 DEF Job
  <2>3. job' = [job EXCEPT ![e] = f] /\ rows' = [rows EXCEPT ![u] = Append(rows[u], e)]
    BY <1>2, <1>5, <1>9, <2>1
  <2>4. JobRight(f)
    BY <1>1, <1>2, <1>5, <2>2 DEF JobRight
  <2>5. /\ job \in [Events -> Job \cup {None}] /\ rows \in [Users -> Seq(Events)]
        /\ rows[u] \in Seq(Events) /\ None \notin Job
    BY <1>6, NotificationsAssumption DEF NotifyKnown, NotifyTyped
  <2>6. /\ job' \in [Events -> Job \cup {None}] /\ job'[e] = f /\ \A d \in Events \ {e} : job'[d] = job[d]
        /\ rows' \in [Users -> Seq(Events)] /\ rows'[u] = Append(rows[u], e)
        /\ \A v \in Users \ {u} : rows'[v] = rows[v]
    BY <1>6, <2>2, <2>3, <2>5
  <2>7. NotifyTyped'
    BY <1>3, <2>6 DEF NotifyKnown, NotifyTyped
  <2>8. ToldBy(f) = ToldBy(j) \cup {u}
    BY <1>4, <1>5, <2>2 DEF ToldBy
  <2>9. TableKnown(u)'
    <3>1. TableKnown(u) /\ ~In(rows[u], e)
      BY <1>1, <1>2, <1>4, <1>5, <1>6, <1>9 DEF NotifyKnown, TableKnown
    <3>2. /\ DOMAIN rows'[u] = DOMAIN rows[u] \cup {Len(rows[u]) + 1} /\ rows'[u][Len(rows[u]) + 1] = e
          /\ \A n \in DOMAIN rows[u] : rows'[u][n] = rows[u][n] /\ n # Len(rows[u]) + 1
      BY <2>5, <2>6
    <3>3. \A n \in DOMAIN rows[u] : rows[u][n] # e
      BY <3>1 DEF In
    <3>4. \A n \in DOMAIN rows[u] : rows[u][n] \in Events
      BY <2>5
    <3>5. ASSUME NEW m \in DOMAIN rows'[u], NEW n \in DOMAIN rows'[u], rows'[u][m] = rows'[u][n]
          PROVE  m = n
      <4>1. CASE m \in DOMAIN rows[u] /\ n \in DOMAIN rows[u]
        <5>1. rows[u][m] = rows[u][n]
          BY <3>2, <3>5, <4>1
        <5> QED BY <3>1, <4>1, <5>1 DEF TableKnown
      <4>2. CASE m = Len(rows[u]) + 1 \/ n = Len(rows[u]) + 1
        BY <3>2, <3>3, <3>5, <4>2
      <4> QED BY <3>2, <4>1, <4>2
    <3>6. ASSUME NEW n \in DOMAIN rows'[u] PROVE job'[rows'[u][n]] # None /\ u \in job'[rows'[u][n]].all
      <4>1. CASE n = Len(rows[u]) + 1
        BY <1>4, <1>5, <2>2, <2>5, <2>6, <3>2, <4>1
      <4>2. CASE n \in DOMAIN rows[u]
        <5>1. rows'[u][n] = rows[u][n] /\ rows[u][n] \in Events \ {e}
          BY <3>2, <3>3, <3>4, <4>2
        <5>2. job[rows[u][n]] # None /\ u \in job[rows[u][n]].all
          BY <3>1, <4>2 DEF TableKnown
        <5> QED BY <2>6, <5>1, <5>2
      <4> QED BY <3>2, <4>1, <4>2
    <3>7. \A d \in Events : In(rows'[u], d) <=> In(rows[u], d) \/ d = e
      BY <3>2 DEF In
    <3>8. ASSUME NEW d \in Events, job'[d] # None, job'[d].at # "failed"
          PROVE  In(rows'[u], d) <=> u \in ToldBy(job'[d])
      <4>1. CASE d = e
        BY <2>6, <2>8, <3>7, <4>1
      <4>2. CASE d # e
        <5>1. job'[d] = job[d]
          BY <2>6, <4>2
        <5>2. In(rows[u], d) <=> u \in ToldBy(job[d])
          BY <1>9, <3>1, <3>8, <5>1 DEF TableKnown
        <5> QED BY <3>7, <4>2, <5>1, <5>2
      <4> QED BY <4>1, <4>2
    <3> QED BY <1>3, <1>9, <3>5, <3>6, <3>8 DEF TableKnown
  <2>10. ASSUME NEW v \in Users \ {u} PROVE TableKnown(v)'
    <3>1. TableKnown(v) /\ rows[v] \in Seq(Events) /\ rows'[v] = rows[v]
      BY <2>6 DEF NotifyKnown, NotifyTyped
    <3>2. ASSUME NEW n \in DOMAIN rows[v] PROVE job'[rows[v][n]] # None /\ v \in job'[rows[v][n]].all
      <4>1. rows[v][n] \in Events /\ job[rows[v][n]] # None /\ v \in job[rows[v][n]].all
        BY <3>1 DEF TableKnown
      <4>2. CASE rows[v][n] = e
        BY <1>2, <2>2, <2>5, <2>6, <4>1, <4>2
      <4>3. CASE rows[v][n] # e
        BY <2>6, <4>1, <4>3
      <4> QED BY <4>2, <4>3
    <3>3. ASSUME v \notin gone, NEW d \in Events, job'[d] # None, job'[d].at # "failed"
          PROVE  In(rows[v], d) <=> v \in ToldBy(job'[d])
      <4>1. CASE d = e
        <5>1. In(rows[v], e) <=> v \in ToldBy(j)
          BY <1>1, <1>2, <3>1, <3>3 DEF TableKnown
        <5> QED BY <2>6, <2>8, <4>1, <5>1
      <4>2. CASE d # e
        BY <2>6, <3>1, <3>3, <4>2 DEF TableKnown
      <4> QED BY <4>1, <4>2
    <3> QED BY <1>3, <3>1, <3>2, <3>3 DEF TableKnown
  <2>11. \A d \in Events : job'[d] # None => JobRight(job'[d])
    BY <2>4, <2>6 DEF NotifyKnown
  <2> QED BY <2>7, <2>9, <2>10, <2>11 DEF NotifyKnown
<1> QED BY <1>8, <1>9

\* The handler goes on with the others.
LEMMA PushNewKeeps ==
  ASSUME NotifyKnown, NEW e \in Events, PushNew(e)
  PROVE  NotifyKnown'
<1>1. job[e] \in Job /\ JobRight(job[e]) /\ job[e].at = "saved" /\ job[e] # None
  BY DEF PushNew, NotifyKnown, NotifyTyped
<1>2. PICK j \in Job : j = job[e]
  BY <1>1
<1>3. PICK to : to = Remaining(j)
  OBVIOUS
<1>4. /\ to \in SUBSET j.all /\ ToldBy(j) = j.all \ to
  BY <1>1, <1>2, <1>3, JobFields DEF JobRight, ToldBy, Remaining
<1>5. PICK f : f = Proceeding(j, to)
  OBVIOUS
<1>6. f \in Job /\ JobRight(f) /\ ToldBy(f) = ToldBy(j) /\ f.all = j.all
  BY <1>1, <1>2, <1>4, <1>5, ProceedingRight
<1>7. job' = [job EXCEPT ![e] = Proceeding(job[e], Remaining(job[e]))]
  BY DEF PushNew
<1>8. job' = [job EXCEPT ![e] = f]
  BY <1>2, <1>3, <1>5, <1>7
<1>9. /\ UNCHANGED <<issue, commenters, gone, rows>>
      /\ issue = None \/ issue \in [reporter : Users, assignee : Users \cup {None}]
      /\ commenters \subseteq Users
  BY DEF PushNew, NotifyKnown, NotifyTyped
<1>10. \A u \in Users : In(rows[u], e) => u \in j.all
  BY <1>2 DEF NotifyKnown, TableKnown, In
<1>11. \A u \in Users \ gone : In(rows[u], e) <=> u \in ToldBy(j)
  BY <1>1, <1>2 DEF NotifyKnown, TableKnown
<1> QED BY <1>6, <1>8, <1>9, <1>10, <1>11, JobStep

\* The system starts with no event and no notification.
LEMMA NotifyInitKnown == NotifyInit => NotifyKnown
<1> SUFFICES ASSUME NotifyInit PROVE NotifyKnown
  OBVIOUS
<1>1. <<>> \in Seq(Events) /\ DOMAIN <<>> = {}
  OBVIOUS
<1>2. NotifyTyped
  BY <1>1 DEF NotifyInit, NotifyTyped
<1>3. \A u \in Users : rows[u] = <<>>
  BY DEF NotifyInit
<1>4. \A u \in Users : TableKnown(u)
  BY <1>1, <1>3 DEF NotifyInit, TableKnown
<1> QED BY <1>2, <1>4 DEF NotifyInit, NotifyKnown

\* Every step keeps it.
LEMMA NotifyNextKnown == NotifyKnown /\ [NotifyNext]_notifyVars => NotifyKnown'
<1> SUFFICES ASSUME NotifyKnown, [NotifyNext]_notifyVars PROVE NotifyKnown'
  OBVIOUS
<1>1. CASE Act
  BY <1>1, ActKeeps
<1>2. CASE \E u \in Users : RemoveUser(u)
  BY <1>2, RemoveUserKeeps
<1>3. CASE \E e \in Events : Handler(e)
  BY <1>3, LookupKeeps, LookupCommentsKeeps, SaveKeeps, PushNewKeeps DEF Handler
<1>4. CASE UNCHANGED notifyVars
  BY <1>4 DEF notifyVars, NotifyKnown, NotifyTyped, TableKnown
<1> QED BY <1>1, <1>2, <1>3, <1>4 DEF NotifyNext

\* What is known of the handlers and notifications implies what is promised.
LEMMA KnownTold == NotifyKnown => ToldInv
<1> SUFFICES ASSUME NotifyKnown PROVE ToldInv
  OBVIOUS
<1>1. NotifyTypeOK
  BY DEF NotifyKnown, NotifyTyped, NotifyTypeOK
<1>2. ToldOfOthersOnly
  <2> SUFFICES ASSUME NEW u \in Users, NEW n \in DOMAIN rows[u],
                      job[rows[u][n]].by = u, job[rows[u][n]].type \notin {"deleted", "sprint"}
               PROVE  FALSE
    BY DEF ToldOfOthersOnly
  <2>1. rows[u][n] \in Events /\ job[rows[u][n]] # None /\ u \in job[rows[u][n]].all
    BY DEF NotifyKnown, NotifyTyped, TableKnown
  <2>2. JobRight(job[rows[u][n]])
    BY <2>1 DEF NotifyKnown
  <2> QED BY <2>1, <2>2 DEF JobRight
<1>3. EveryoneTold
  <2> SUFFICES ASSUME NEW e \in Events, job[e] # None, job[e].at = "done", NEW u \in Staff
               PROVE  Cardinality({n \in DOMAIN rows[u] : rows[u][n] = e})
                        = IF u \in job[e].all THEN 1 ELSE 0
    BY DEF EveryoneTold
  <2>1. u \in Users /\ u \notin gone /\ TableKnown(u) /\ job[e] \in Job /\ JobRight(job[e])
    BY DEF NotifyKnown, NotifyTyped, Staff
  <2>2. ToldBy(job[e]) = job[e].all
    BY <2>1 DEF JobRight, ToldBy
  <2>3. In(rows[u], e) <=> u \in job[e].all
    BY <2>1, <2>2 DEF TableKnown
  <2>4. PICK its : its = {n \in DOMAIN rows[u] : rows[u][n] = e}
    OBVIOUS
  <2>5. CASE In(rows[u], e)
    <3>1. PICK n \in DOMAIN rows[u] : rows[u][n] = e
      BY <2>5 DEF In
    <3>2. its = {n}
      BY <2>1, <2>4, <3>1 DEF TableKnown
    <3>3. Cardinality(its) = 1
      BY <3>2, FS_Singleton
    <3> QED BY <2>3, <2>4, <2>5, <3>3
  <2>6. CASE ~In(rows[u], e)
    <3>1. its = {}
      BY <2>4, <2>6 DEF In
    <3>2. Cardinality(its) = 0
      BY <3>1, FS_EmptySet
    <3> QED BY <2>3, <2>4, <2>6, <3>2
  <2> QED BY <2>5, <2>6
<1> QED BY <1>1, <1>2, <1>3 DEF ToldInv

\* However handlers interleave with each other and with changes of the issue, its
\* comments and the users, a handler that ends well has told everybody it found, once,
\* and nobody is told of their own doing but for deletions and sprints.
THEOREM EveryoneConcernedTold == NotifySpec => []ToldInv
<1>1. NotifySpec => []NotifyKnown
  BY NotifyInitKnown, NotifyNextKnown, PTL DEF NotifySpec
<1> QED BY <1>1, KnownTold, PTL

-----------------------------------------------------------------------------
(* The bell.                                                                *)

\* Nothing the list lacks is on its way to the component.
Quiet == ~bell.missed /\ saved = {} /\ push = <<>> /\ ~(mutation # Nil /\ mutation.at = "served")

\* When nothing is on its way, what was served for the list is the server's page, and
\* so is the list unless it is due, or fetched; an open list that is due is fetched.
BellKnown ==
  /\ BellTypeOK
  /\ Quiet /\ bell.fetch = "served" => bell.page = LastPage
  /\ Quiet /\ bell.fetch = "none" => bell.due \/ bell.list = LastPage
  /\ bell.open /\ bell.fetch = "none" /\ ~bell.missed => ~bell.due

\* The fields of the bell.
LEMMA BellFields ==
  ASSUME NEW b \in Bell
  PROVE  /\ b.online \in BOOLEAN /\ b.open \in BOOLEAN /\ b.due \in BOOLEAN /\ b.missed \in BOOLEAN
         /\ b.count \in Nat /\ b.tally \in Nat
         /\ b.asked \in {"none", "sent", "served"} /\ b.fetch \in {"none", "sent", "served"}
         /\ b.list \in ListPage \cup {Nil} /\ b.page \in ListPage
BY DEF Bell

\* No page is a page.
LEMMA NoPageListed == NoPage \in ListPage
BY DEF NoPage, ListPage

\* The server's page is one of notifications.
LEMMA LastPageListed ==
  ASSUME BellTypeOK
  PROVE  LastPage \in ListPage
<1>1. notes \in Seq(Notices)
  BY DEF BellTypeOK
<1>2. PICK ids : ids = {notes[n] : n \in {m \in DOMAIN notes : m > Len(notes) - PageSize}}
  OBVIOUS
<1>3. ids \in SUBSET Notices
  BY <1>1, <1>2
<1>4. LastPage = [ids |-> ids, unread |-> ids \cap unread]
  BY <1>2 DEF LastPage
<1> QED BY <1>3, <1>4 DEF ListPage

\* There are finitely many unread notifications.
LEMMA UnreadCounted ==
  ASSUME BellTypeOK
  PROVE  Cardinality(unread) \in Nat
<1>1. notes \in Seq(Notices) /\ unread \in SUBSET Stored
  BY DEF BellTypeOK
<1>2. DOMAIN notes = 1..Len(notes) /\ Len(notes) \in Nat /\ notes \in [1..Len(notes) -> Stored]
  BY <1>1 DEF Stored
<1>3. notes \in Surjection(1..Len(notes), Stored)
  BY <1>2 DEF Surjection, Stored
<1>4. IsFiniteSet(1..Len(notes))
  BY <1>2, FS_Interval
<1>5. IsFiniteSet(Stored)
  BY <1>3, <1>4, FS_Surjection
<1> QED BY <1>1, <1>5, FS_Subset, FS_CardinalityType

\* An invalidated list is due; unless a served fetch goes on, of which it is noted that
\* it may lack something, the list is fetched if it is open.
LEMMA BellInvalidatedList ==
  ASSUME NEW b \in Bell
  PROVE  /\ BellInvalidated(b) \in Bell /\ BellInvalidated(b).due
         /\ BellInvalidated(b).count = b.count /\ BellInvalidated(b).open = b.open
         /\ BellInvalidated(b).fetch = "served" => BellInvalidated(b).missed
         /\ BellInvalidated(b).fetch = "none" => ~b.open
<1>1. PICK c : c = BellInvalidated(b)
  OBVIOUS
<1>2. CASE b.open /\ (b.fetch = "none" \/ b.list # Nil)
  <2>1. c = [b EXCEPT !.due = TRUE, !.fetch = "sent", !.page = NoPage]
    BY <1>1, <1>2 DEF BellInvalidated
  <2>2. c \in Bell /\ c.due /\ c.count = b.count /\ c.open = b.open /\ c.fetch = "sent"
    BY <2>1, NoPageListed DEF Bell
  <2> QED BY <1>1, <2>2
<1>3. CASE ~(b.open /\ (b.fetch = "none" \/ b.list # Nil))
  <2>1. PICK missed \in BOOLEAN : missed = (b.missed \/ b.fetch = "served")
    OBVIOUS
  <2>2. c = [b EXCEPT !.due = TRUE, !.missed = missed]
    BY <1>1, <1>3, <2>1 DEF BellInvalidated
  <2>3. c \in Bell /\ c.due /\ c.count = b.count /\ c.open = b.open /\ c.fetch = b.fetch /\ c.missed = missed
    BY <2>2 DEF Bell
  <2> QED BY <1>1, <1>3, <2>1, <2>3, BellFields
<1> QED BY <1>2, <1>3

\* The bell changes, and what the server has does not.
LEMMA BellStep ==
  ASSUME BellKnown, NEW b \in Bell, bell' = b, UNCHANGED <<notes, unread, saved>>,
         push' \in Seq(Notices), mutation' \in Marking \cup {Nil}, breaks' \in 0..MaxBreaks,
         Quiet' /\ b.fetch = "served" => b.page = LastPage,
         Quiet' /\ b.fetch = "none" => b.due \/ b.list = LastPage,
         b.open /\ b.fetch = "none" /\ ~b.missed => ~b.due
  PROVE  BellKnown'
<1>1. LastPage' = LastPage /\ Stored' = Stored
  BY DEF LastPage, Stored
<1>2. BellTypeOK'
  BY <1>1 DEF BellKnown, BellTypeOK
<1> QED BY <1>1, <1>2 DEF BellKnown

\* A notification is saved.
LEMMA SaveRowKeeps ==
  ASSUME BellKnown, NEW e \in Notices, SaveRow(e)
  PROVE  BellKnown'
<1>1. notes \in Seq(Notices) /\ unread \in SUBSET Stored /\ saved \in SUBSET Stored
  BY DEF BellKnown, BellTypeOK
<1>2. /\ notes' = Append(notes, e) /\ unread' = unread \cup {e} /\ saved' = saved \cup {e}
      /\ UNCHANGED <<bell, push, mutation, breaks>>
  BY DEF SaveRow
<1>3. /\ notes' \in Seq(Notices) /\ DOMAIN notes' = DOMAIN notes \cup {Len(notes) + 1}
      /\ notes'[Len(notes) + 1] = e /\ \A n \in DOMAIN notes : notes'[n] = notes[n]
  BY <1>1, <1>2
<1>4. Stored' = Stored \cup {e}
  BY <1>3 DEF Stored
<1>5. BellTypeOK'
  BY <1>1, <1>2, <1>3, <1>4 DEF BellKnown, BellTypeOK
<1>6. ~Quiet'
  BY <1>2 DEF Quiet
<1> QED BY <1>2, <1>5, <1>6 DEF BellKnown

\* A notification is emitted, or nobody is connected.
LEMMA PushRowKeeps ==
  ASSUME BellKnown, NEW e \in Notices, PushRow(e)
  PROVE  BellKnown'
<1>1. /\ bell \in Bell /\ push \in Seq(Notices) /\ mutation \in Marking \cup {Nil} /\ breaks \in 0..MaxBreaks
  BY DEF BellKnown, BellTypeOK
<1>2. saved' = saved \ {e} /\ UNCHANGED <<notes, unread, mutation, breaks>>
  BY DEF PushRow
<1>3. LastPage' = LastPage /\ Stored' = Stored
  BY <1>2 DEF LastPage, Stored
<1>4. CASE bell.online
  <2>1. push' = Append(push, e) /\ UNCHANGED bell
    BY <1>4 DEF PushRow
  <2>2. push' \in Seq(Notices) /\ push' # <<>>
    BY <1>1, <2>1
  <2>3. ~Quiet'
    BY <2>2 DEF Quiet
  <2>4. BellTypeOK'
    BY <1>2, <1>3, <2>1, <2>2 DEF BellKnown, BellTypeOK
  <2> QED BY <2>1, <2>3, <2>4 DEF BellKnown
<1>5. CASE ~bell.online
  <2>1. bell' = [bell EXCEPT !.missed = TRUE] /\ UNCHANGED push
    BY <1>5 DEF PushRow
  <2>2. bell' \in Bell /\ bell'.missed
    BY <1>1, <2>1 DEF Bell
  <2>3. ~Quiet'
    BY <2>2 DEF Quiet
  <2>4. BellTypeOK'
    BY <1>2, <1>3, <2>1, <2>2 DEF BellKnown, BellTypeOK
  <2> QED BY <2>2, <2>3, <2>4 DEF BellKnown
<1> QED BY <1>4, <1>5

\* What every step of the bell starts from.
LEMMA BellNow ==
  ASSUME BellKnown
  PROVE  /\ bell \in Bell /\ push \in Seq(Notices) /\ mutation \in Marking \cup {Nil}
         /\ breaks \in 0..MaxBreaks /\ Nil \notin Marking /\ MaxBreaks \in Nat
         /\ bell.open /\ bell.fetch = "none" /\ ~bell.missed => ~bell.due
         /\ Quiet /\ bell.fetch = "served" => bell.page = LastPage
         /\ Quiet /\ bell.fetch = "none" => bell.due \/ bell.list = LastPage
         /\ Break => breaks' \in 0..MaxBreaks
BY BellAssumption DEF BellKnown, BellTypeOK, Break

\* A push arrives.
LEMMA OnNewKeeps ==
  ASSUME BellKnown, OnNew
  PROVE  BellKnown'
<1>1. PICK c : c = BellInvalidated(bell)
  OBVIOUS
<1>2. /\ c \in Bell /\ c.due /\ c.open = bell.open
      /\ (c.fetch = "served" => c.missed) /\ (c.fetch = "none" => ~c.open)
  BY <1>1, BellNow, BellInvalidatedList
<1>3. PICK b : b = [c EXCEPT !.count = c.count + 1]
  OBVIOUS
<1>4. c.count + 1 \in Nat
  BY <1>2, BellFields
<1>5. /\ b \in Bell /\ b.due = c.due /\ b.open = c.open /\ b.fetch = c.fetch /\ b.missed = c.missed
  BY <1>2, <1>3, <1>4 DEF Bell
<1>6. /\ bell' = [BellInvalidated(bell) EXCEPT !.count = BellInvalidated(bell).count + 1]
      /\ push # <<>> /\ push' = Tail(push) /\ UNCHANGED <<notes, unread, saved, mutation, breaks>>
  BY DEF OnNew, Bells
<1>7. bell' = b /\ push' \in Seq(Notices)
  BY <1>1, <1>3, <1>6, BellNow
<1>8. Quiet' => b.fetch # "served"
  BY <1>2, <1>5, <1>7 DEF Quiet
<1> QED BY <1>2, <1>5, <1>6, <1>7, <1>8, BellNow, BellStep

\* The count is asked for, served, or arrives.
LEMMA CountKeeps ==
  ASSUME BellKnown, AskCount \/ ServeCount \/ ReceiveCount
  PROVE  BellKnown'
<1>1. UNCHANGED <<notes, unread, saved, push, mutation, breaks>> /\ Cardinality(unread) \in Nat
  BY UnreadCounted DEF AskCount, ServeCount, ReceiveCount, Bells, BellKnown
<1>2. PICK count \in Nat, asked \in {"none", "sent", "served"}, tally \in Nat :
        bell' = [bell EXCEPT !.count = count, !.asked = asked, !.tally = tally]
  <2>1. bell \in Bell /\ bell.count \in Nat /\ bell.tally \in Nat
    BY BellNow, BellFields
  <2>2. CASE AskCount
    <3>1. bell' = [bell EXCEPT !.count = bell.count, !.asked = "sent", !.tally = bell.tally]
      BY <2>1, <2>2 DEF AskCount, Bells, Bell
    <3> QED BY <2>1, <3>1
  <2>3. CASE ServeCount
    <3>1. bell' = [bell EXCEPT !.count = bell.count, !.asked = "served", !.tally = Cardinality(unread)]
      BY <2>1, <2>3 DEF ServeCount, Bells, Bell
    <3> QED BY <1>1, <2>1, <3>1
  <2>4. CASE ReceiveCount
    BY <2>1, <2>4 DEF ReceiveCount, Bells
  <2> QED BY <2>2, <2>3, <2>4
<1>3. PICK b : b = [bell EXCEPT !.count = count, !.asked = asked, !.tally = tally]
  OBVIOUS
<1>4. /\ b \in Bell /\ b.due = bell.due /\ b.open = bell.open /\ b.fetch = bell.fetch
      /\ b.missed = bell.missed /\ b.list = bell.list /\ b.page = bell.page
  BY <1>2, <1>3, BellNow DEF Bell
<1>5. Quiet' => Quiet
  BY <1>1, <1>2, <1>3, <1>4 DEF Quiet
<1> QED BY <1>1, <1>2, <1>3, <1>4, <1>5, BellNow, BellStep

\* The list is served.
LEMMA ServeListKeeps ==
  ASSUME BellKnown, ServeList
  PROVE  BellKnown'
<1>1. bell' = [bell EXCEPT !.fetch = "served", !.page = LastPage, !.missed = FALSE]
      /\ UNCHANGED <<notes, unread, saved, push, mutation, breaks>>
  BY DEF ServeList, Bells
<1>2. PICK b : b = [bell EXCEPT !.fetch = "served", !.page = LastPage, !.missed = FALSE]
  OBVIOUS
<1>3. LastPage \in ListPage
  BY LastPageListed DEF BellKnown
<1>4. b \in Bell /\ b.fetch = "served" /\ b.page = LastPage
  BY <1>2, <1>3, BellNow DEF Bell
<1> QED BY <1>1, <1>2, <1>4, BellNow, BellStep

\* The list arrives.
LEMMA ReceiveListKeeps ==
  ASSUME BellKnown, ReceiveList
  PROVE  BellKnown'
<1>1. /\ bell' = [bell EXCEPT !.list = bell.page, !.fetch = "none", !.page = NoPage, !.due = FALSE]
      /\ UNCHANGED <<notes, unread, saved, push, mutation, breaks>> /\ bell.fetch = "served"
  BY DEF ReceiveList, Bells
<1>2. PICK b : b = [bell EXCEPT !.list = bell.page, !.fetch = "none", !.page = NoPage, !.due = FALSE]
  OBVIOUS
<1>3. bell.page \in ListPage
  BY BellNow, BellFields
<1>4. b \in Bell /\ b.fetch = "none" /\ b.list = bell.page /\ ~b.due /\ b.missed = bell.missed
  BY <1>2, <1>3, BellNow, NoPageListed DEF Bell
<1>5. Quiet' => Quiet
  BY <1>1, <1>2, <1>4 DEF Quiet
<1> QED BY <1>1, <1>2, <1>4, <1>5, BellNow, BellStep

\* The list is opened or closed.
LEMMA ToggleKeeps ==
  ASSUME BellKnown, Toggle
  PROVE  BellKnown'
<1>1. PICK fetch \in {bell.fetch} \cup {"sent"} :
        /\ fetch # bell.fetch => ~bell.open /\ bell.fetch = "none"
        /\ ~bell.open /\ bell.due => fetch # "none"
        /\ bell' = [bell EXCEPT !.open = ~bell.open, !.fetch = fetch]
        /\ UNCHANGED <<notes, unread, saved, push, mutation, breaks>>
  BY DEF Toggle, Bells
<1>2. PICK b : b = [bell EXCEPT !.open = ~bell.open, !.fetch = fetch]
  OBVIOUS
<1>3. bell.open \in BOOLEAN /\ bell.fetch \in {"none", "sent", "served"}
  BY BellNow, BellFields
<1>4. PICK open \in BOOLEAN : open = ~bell.open
  BY <1>3
<1>5. /\ b \in Bell /\ b.open = open /\ b.fetch = fetch /\ b.due = bell.due /\ b.missed = bell.missed
      /\ b.list = bell.list /\ b.page = bell.page
  BY <1>2, <1>3, <1>4, BellNow DEF Bell
<1>6. Quiet' => Quiet
  BY <1>1, <1>2, <1>5 DEF Quiet
<1>7. Quiet' /\ b.fetch = "served" => b.page = LastPage
  BY <1>1, <1>5, <1>6, BellNow
<1>8. Quiet' /\ b.fetch = "none" => b.due \/ b.list = LastPage
  BY <1>1, <1>5, <1>6, BellNow
<1>9. b.open /\ b.fetch = "none" /\ ~b.missed => ~b.due
  BY <1>1, <1>3, <1>4, <1>5
<1> QED BY <1>1, <1>2, <1>5, <1>7, <1>8, <1>9, BellNow, BellStep

\* A fetch fails.
LEMMA FailBellFetchKeeps ==
  ASSUME BellKnown, FailBellFetch
  PROVE  BellKnown'
<1>1. UNCHANGED <<notes, unread, saved, push, mutation>> /\ breaks' \in 0..MaxBreaks
  BY BellNow DEF FailBellFetch, Bells
<1>2. CASE bell' = [bell EXCEPT !.asked = "none", !.tally = 0]
  <2>1. PICK b : b = [bell EXCEPT !.asked = "none", !.tally = 0]
    OBVIOUS
  <2>2. /\ b \in Bell /\ b.due = bell.due /\ b.open = bell.open /\ b.fetch = bell.fetch
        /\ b.missed = bell.missed /\ b.list = bell.list /\ b.page = bell.page
    BY <2>1, BellNow DEF Bell
  <2>3. Quiet' => Quiet
    BY <1>1, <1>2, <2>1, <2>2 DEF Quiet
  <2> QED BY <1>1, <1>2, <2>1, <2>2, <2>3, BellNow, BellStep
<1>3. CASE bell' = [bell EXCEPT !.fetch = "none", !.page = NoPage, !.missed = TRUE]
  <2>1. PICK b : b = [bell EXCEPT !.fetch = "none", !.page = NoPage, !.missed = TRUE]
    OBVIOUS
  <2>2. b \in Bell /\ b.missed
    BY <2>1, BellNow, NoPageListed DEF Bell
  <2>3. ~Quiet'
    BY <1>3, <2>1, <2>2 DEF Quiet
  <2> QED BY <1>1, <1>3, <2>1, <2>2, <2>3, BellNow, BellStep
<1> QED BY <1>2, <1>3 DEF FailBellFetch, Bells

\* The socket is lost, and with it the pushes on their way.
LEMMA DisconnectKeeps ==
  ASSUME BellKnown, Disconnect
  PROVE  BellKnown'
<1>1. PICK missed \in BOOLEAN : missed = (bell.missed \/ push # <<>>)
  OBVIOUS
<1>2. PICK b : b = [bell EXCEPT !.online = FALSE, !.missed = missed]
  OBVIOUS
<1>3. /\ bell' = [bell EXCEPT !.online = FALSE, !.missed = (bell.missed \/ push # <<>>)]
      /\ push' = <<>> /\ UNCHANGED <<notes, unread, saved, mutation>> /\ breaks' \in 0..MaxBreaks
  BY BellNow DEF Disconnect, Bells
<1>4. /\ b \in Bell /\ b.due = bell.due /\ b.open = bell.open /\ b.fetch = bell.fetch
      /\ b.missed = missed /\ b.list = bell.list /\ b.page = bell.page
  BY <1>2, BellNow DEF Bell
<1>5. bell' = b
  BY <1>1, <1>2, <1>3
<1>6. Quiet' => Quiet
  BY <1>1, <1>3, <1>4, <1>5, BellNow, BellFields DEF Quiet
<1>7. push' \in Seq(Notices)
  BY <1>3
<1>8. ~b.missed => ~bell.missed
  BY <1>1, <1>4
<1> QED BY <1>3, <1>4, <1>5, <1>6, <1>7, <1>8, BellNow, BellStep

\* The socket is back.
LEMMA ReconnectKeeps ==
  ASSUME BellKnown, Reconnect
  PROVE  BellKnown'
<1>1. bell' = [bell EXCEPT !.online = TRUE] /\ UNCHANGED <<notes, unread, saved, push, mutation, breaks>>
  BY DEF Reconnect, Bells
<1>2. PICK b : b = [bell EXCEPT !.online = TRUE]
  OBVIOUS
<1>3. /\ b \in Bell /\ b.due = bell.due /\ b.open = bell.open /\ b.fetch = bell.fetch
      /\ b.missed = bell.missed /\ b.list = bell.list /\ b.page = bell.page
  BY <1>2, BellNow DEF Bell
<1>4. Quiet' => Quiet
  BY <1>1, <1>2, <1>3 DEF Quiet
<1> QED BY <1>1, <1>2, <1>3, <1>4, BellNow, BellStep

\* The user marks one notification, or all of them, as read.
LEMMA MarkKeeps ==
  ASSUME BellKnown, Mark
  PROVE  BellKnown'
<1>1. PICK of \in Notices \cup {AllOfThem} : mutation' = [of |-> of, at |-> "sent"]
  <2>1. CASE mutation' = [of |-> AllOfThem, at |-> "sent"]
    BY <2>1
  <2>2. CASE bell.list # Nil /\ \E e \in bell.list.unread : mutation' = [of |-> e, at |-> "sent"]
    <3>1. bell.list.unread \in SUBSET Notices
      BY <2>2, BellNow, BellFields DEF ListPage
    <3> QED BY <2>2, <3>1
  <2> QED BY <2>1, <2>2 DEF Mark
<1>2. mutation' \in Marking /\ mutation'.at = "sent"
  BY <1>1 DEF Marking
<1>3. mutation = Nil /\ UNCHANGED <<notes, unread, saved, push, breaks>>
  BY DEF Mark
<1>4. CASE bell' = bell
  <2>1. Quiet' => Quiet
    BY <1>3, <1>4 DEF Quiet
  <2> QED BY <1>2, <1>3, <1>4, <2>1, BellNow, BellStep
<1>5. CASE bell' = [bell EXCEPT !.open = FALSE]
  <2>1. PICK b : b = [bell EXCEPT !.open = FALSE]
    OBVIOUS
  <2>2. /\ b \in Bell /\ b.due = bell.due /\ b.open = FALSE /\ b.fetch = bell.fetch
        /\ b.missed = bell.missed /\ b.list = bell.list /\ b.page = bell.page
    BY <2>1, BellNow DEF Bell
  <2>3. Quiet' => Quiet
    BY <1>3, <1>5, <2>1, <2>2 DEF Quiet
  <2> QED BY <1>2, <1>3, <1>5, <2>1, <2>2, <2>3, BellNow, BellStep
<1> QED BY <1>4, <1>5 DEF Mark

\* The server marks them.
LEMMA ServeMarkKeeps ==
  ASSUME BellKnown, ServeMark
  PROVE  BellKnown'
<1>1. mutation \in Marking /\ UNCHANGED <<notes, saved, bell, push, breaks>>
  BY BellNow DEF ServeMark
<1>2. mutation' = [mutation EXCEPT !.at = "served"]
  BY DEF ServeMark
<1>3. mutation' \in Marking /\ mutation'.at = "served" /\ mutation' # Nil
  BY <1>1, <1>2, BellNow DEF Marking
<1>4. unread' \in SUBSET unread
  BY DEF ServeMark
<1>5. Stored' = Stored
  BY <1>1 DEF Stored
<1>6. BellTypeOK'
  BY <1>1, <1>3, <1>4, <1>5 DEF BellKnown, BellTypeOK
<1>7. ~Quiet'
  BY <1>3 DEF Quiet
<1> QED BY <1>1, <1>6, <1>7 DEF BellKnown

\* The answer to the request arrives.
LEMMA ReceiveMarkKeeps ==
  ASSUME BellKnown, ReceiveMark
  PROVE  BellKnown'
<1>1. PICK c : c = BellInvalidated(bell)
  OBVIOUS
<1>2. /\ c \in Bell /\ c.due /\ c.open = bell.open
      /\ (c.fetch = "served" => c.missed) /\ (c.fetch = "none" => ~c.open)
  BY <1>1, BellNow, BellInvalidatedList
<1>3. /\ bell' = IF mutation.of = AllOfThem THEN [c EXCEPT !.count = 0] ELSE [c EXCEPT !.asked = "sent", !.tally = 0]
      /\ mutation' = Nil /\ UNCHANGED <<notes, unread, saved, push, breaks>>
  BY <1>1 DEF ReceiveMark, Bells, MarkedOne
<1>4. ASSUME NEW b \in Bell, bell' = b, b.due = c.due, b.open = c.open, b.fetch = c.fetch, b.missed = c.missed
      PROVE  BellKnown'
  <2>1. Quiet' => b.fetch # "served"
    BY <1>2, <1>4 DEF Quiet
  <2> QED BY <1>2, <1>3, <1>4, <2>1, BellNow, BellStep
<1>5. CASE bell' = [c EXCEPT !.count = 0]
  <2>1. PICK b : b = [c EXCEPT !.count = 0]
    OBVIOUS
  <2>2. b \in Bell /\ b.due = c.due /\ b.open = c.open /\ b.fetch = c.fetch /\ b.missed = c.missed
    BY <1>2, <2>1 DEF Bell
  <2> QED BY <1>4, <1>5, <2>1, <2>2
<1>6. CASE bell' = [c EXCEPT !.asked = "sent", !.tally = 0]
  <2>1. PICK b : b = [c EXCEPT !.asked = "sent", !.tally = 0]
    OBVIOUS
  <2>2. b \in Bell /\ b.due = c.due /\ b.open = c.open /\ b.fetch = c.fetch /\ b.missed = c.missed
    BY <1>2, <2>1 DEF Bell
  <2> QED BY <1>4, <1>6, <2>1, <2>2
<1> QED BY <1>3, <1>5, <1>6

\* The request, or its answer, is lost.
LEMMA LoseMarkKeeps ==
  ASSUME BellKnown, LoseMark
  PROVE  BellKnown'
<1>1. PICK b : b = [bell EXCEPT !.missed = TRUE]
  OBVIOUS
<1>2. b \in Bell /\ b.missed
  BY <1>1, BellNow DEF Bell
<1>3. /\ bell' = [bell EXCEPT !.missed = TRUE] /\ mutation' = Nil
      /\ UNCHANGED <<notes, unread, saved, push>> /\ breaks' \in 0..MaxBreaks
  BY BellNow DEF LoseMark, Bells
<1>4. ~Quiet'
  BY <1>1, <1>2, <1>3 DEF Quiet
<1> QED BY <1>1, <1>2, <1>3, <1>4, BellNow, BellStep

\* The bell starts with nothing.
LEMMA BellInitKnown == BellInit => BellKnown
<1> SUFFICES ASSUME BellInit PROVE BellKnown
  OBVIOUS
<1>1. bell \in Bell
  BY NoPageListed DEF BellInit, Bell
<1>2. BellTypeOK
  BY <1>1, BellAssumption DEF BellInit, BellTypeOK
<1> QED BY <1>2 DEF BellInit, BellKnown

\* Every step keeps what is known.
LEMMA BellNextKnown == BellKnown /\ [BellNext]_bellVars => BellKnown'
<1> SUFFICES ASSUME BellKnown, [BellNext]_bellVars PROVE BellKnown'
  OBVIOUS
<1>1. CASE \E e \in Notices : SaveRow(e) \/ PushRow(e)
  BY <1>1, SaveRowKeeps, PushRowKeeps
<1>2. CASE OnNew \/ AskCount \/ ServeCount \/ ReceiveCount \/ ServeList \/ ReceiveList
  BY <1>2, OnNewKeeps, CountKeeps, ServeListKeeps, ReceiveListKeeps
<1>3. CASE Toggle \/ FailBellFetch \/ Disconnect \/ Reconnect
  BY <1>3, ToggleKeeps, FailBellFetchKeeps, DisconnectKeeps, ReconnectKeeps
<1>4. CASE Mark \/ ServeMark \/ ReceiveMark \/ LoseMark
  BY <1>4, MarkKeeps, ServeMarkKeeps, ReceiveMarkKeeps, LoseMarkKeeps
<1>5. CASE UNCHANGED bellVars
  BY <1>5 DEF bellVars, BellKnown, BellTypeOK, Quiet, LastPage, Stored
<1> QED BY <1>1, <1>2, <1>3, <1>4, <1>5 DEF BellNext

\* However pushes, fetches and marks overtake each other, the open list of a bell to
\* which nothing is on its way is the server's page, unless something was lost.
THEOREM BellAgrees == BellSpec => []BellInv
<1>1. BellKnown => BellInv
  <2> SUFFICES ASSUME BellKnown PROVE BellInv
    OBVIOUS
  <2>1. ASSUME BellCalm, bell.open, ~bell.missed PROVE bell.list = LastPage
    BY <2>1 DEF BellKnown, BellCalm, Quiet
  <2> QED BY <2>1 DEF BellInv, ListAgrees, BellKnown
<1>2. BellSpec => []BellKnown
  BY BellInitKnown, BellNextKnown, PTL DEF BellSpec
<1> QED BY <1>1, <1>2, PTL

================================================================================
