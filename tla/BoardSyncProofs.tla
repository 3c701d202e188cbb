---------------------------- MODULE BoardSyncProofs ----------------------------
(* What BoardSync guarantees for any boards, issues, columns and requests.  *)
EXTENDS BoardSync, FiniteSetTheorems, TLAPS

-----------------------------------------------------------------------------
(* The inductive invariant, for one client and one issue that is not astray. *)

About(r, i) == Busy(r) /\ req[r].issue = i

Committed(r, i) == About(r, i) /\ req[r].stage = "committed"

\* A change of i is committed and its event not emitted yet.
Pending(i) == \E r \in Requests : Committed(r, i)

\* Client c shows a drop of i that may never be committed.
Dropped(c, i) ==
  \E r \in Requests : About(r, i) /\ req[r].by = c /\ req[r].kind = "move" /\ req[r].stage \in {"sent", "read", "rejected"}

\* The board will hear of the creation or an update of i, and then be fetched.
WillFetch(c, i) ==
  \/ \E r \in Requests : Committed(r, i) /\ req[r].kind \in {"create", "update"}
  \/ \E n \in DOMAIN inbox[c] : inbox[c][n].issue = i /\ inbox[c][n].type \in {"created", "updated"}

\* The row of i is what the event says.
Tells(e, i) ==
  /\ e.type = "moved" => rows[i] = [status |-> e.status, order |-> e.order]
  /\ e.type = "deleted" => rows[i] = Removed

\* A change that is committed, and the last one in the inbox, is the row's.
LastIsRight(c, i) ==
  /\ \A r \in Requests : Committed(r, i) => Tells(EventOf(req[r]), i)
  /\ ~Pending(i) =>
       \A n \in DOMAIN inbox[c] :
         inbox[c][n].issue = i /\ (\A m \in DOMAIN inbox[c] : m > n => inbox[c][m].issue # i)
           => Tells(inbox[c][n], i)

\* The board that is on its way, and the one that is shown, have what the server has
\* unless an event or an answer is still to come.
FetchIsRight(c, i) ==
  query[c].fetch = "served" /\ ~Pending(i) /\ ~Announced(c, i) => query[c].board[i] = Board[i]

CacheIsRight(c, i) ==
  query[c].fetch = "none" /\ ~query[c].due /\ ~Pending(i) /\ ~Announced(c, i) /\ ~Dropped(c, i)
    => cache[c][i] = Board[i]

\* After the event of its deletion an issue is gone, unless the board will hear that an
\* update inserted it again.
GoneOrBack(c, i) ==
  \A n \in DOMAIN inbox[c] :
    inbox[c][n].issue = i /\ inbox[c][n].type = "deleted" =>
      \/ rows[i] = Removed
      \/ \E r \in Requests : Committed(r, i) /\ req[r].kind = "update"
      \/ \E m \in DOMAIN inbox[c] : m > n /\ inbox[c][m].issue = i /\ inbox[c][m].type = "updated"

\* An issue is on every board from its creation on.
Present(c, i) ==
  Live(i) /\ ~WillFetch(c, i) =>
    /\ query[c].fetch = "served" => query[c].board[i] \in Card
    /\ query[c].fetch = "none" => cache[c][i] \in Card

Right(c, i) ==
  LastIsRight(c, i) /\ GoneOrBack(c, i) /\ FetchIsRight(c, i) /\ CacheIsRight(c, i) /\ Present(c, i)

\* A request names its issue and its column, a creation its issue once it has one.
RequestsRight ==
  \A r \in Requests : Busy(r) =>
    /\ req[r].stage \in {"committed", "emitted"} => req[r].issue \in Issues
    /\ req[r].kind = "create" /\ req[r].stage \in {"sent", "read", "rejected"} => req[r].issue = NoCard
    /\ req[r].kind # "create" => req[r].issue \in Issues
    /\ req[r].kind # "delete" => req[r].status \in Statuses

\* Events are for those in the room; a board on the screen that is due is being fetched.
PagesRight ==
  \A c \in Clients :
    /\ inbox[c] # <<>> => page[c] = "joined"
    /\ page[c] = "joined" => ~query[c].failed
    /\ Shown(c) /\ query[c].due => query[c].fetch # "none"

BoardsInv ==
  /\ TypeOK /\ RequestsRight /\ PagesRight
  /\ \A c \in Clients, i \in Issues : i \notin astray[c] => Right(c, i)

-----------------------------------------------------------------------------
(* Columns and orders.                                                      *)

(* Finitely many issues have a greatest order.                              *)
LEMMA GreatestExists ==
  ASSUME NEW S, IsFiniteSet(S), S # {}, NEW f \in [S -> Int]
  PROVE  \E m \in S : \A j \in S : f[j] <= f[m]
<1> DEFINE HasGreatest(T) == \E m \in T : \A j \in T : f[j] <= f[m]
           Lacking == {T \in FiniteSubsetsOf(S) : T # {} /\ ~HasGreatest(T)}
<1>1. ASSUME Lacking # {} PROVE FALSE
  <2>1. Lacking \subseteq FiniteSubsetsOf(S)
    OBVIOUS
  <2>2. PICK T \in Lacking : \A U \in Lacking : <<U, T>> \notin StrictSubsetOrdering(S)
    <3> HIDE DEF Lacking
    <3> QED BY <1>1, <2>1, FS_StrictSubsetOrderingWellFounded, WFMin
  <2>3. PICK x \in T : TRUE
    BY <2>2
  <2>4. T \subseteq S /\ IsFiniteSet(T) /\ IsFiniteSet(T \ {x})
    BY <2>2, FS_RemoveElement DEF FiniteSubsetsOf
  <2>5. T \ {x} \notin Lacking
    <3>1. T \ {x} \in SUBSET S /\ T \in SUBSET S /\ T \ {x} \subseteq T /\ T \ {x} # T
      BY <2>3, <2>4
    <3>2. <<T \ {x}, T>> \in StrictSubsetOrdering(S)
      BY <3>1 DEF StrictSubsetOrdering
    <3> HIDE DEF Lacking
    <3> QED BY <2>2, <3>2
  <2>6. T \ {x} = {} \/ HasGreatest(T \ {x})
    BY <2>4, <2>5 DEF FiniteSubsetsOf
  <2>7. \A j \in T : f[j] \in Int
    BY <2>4
  <2>8. T \ {x} = {} => HasGreatest(T)
    BY <2>3, <2>7
  <2>9. ASSUME HasGreatest(T \ {x}) PROVE HasGreatest(T)
    <3>1. PICK m \in T \ {x} : \A j \in T \ {x} : f[j] <= f[m]
      BY <2>9
    <3>2. CASE f[x] <= f[m]
      BY <3>1, <3>2
    <3>3. CASE ~(f[x] <= f[m])
      <4>1. \A j \in T : f[j] <= f[x]
        BY <2>3, <2>7, <3>1, <3>3
      <4>2. QED
        BY <2>3, <4>1
    <3>4. QED
      BY <3>2, <3>3
  <2> QED BY <2>2, <2>6, <2>8, <2>9
<1>2. S \in FiniteSubsetsOf(S)
  BY DEF FiniteSubsetsOf
<1> QED BY <1>1, <1>2

\* The rows, or those a move would leave.
Table == [Issues -> Card \cup {NoCard, Removed}]

(* A column is a finite set of cards.                                       *)
LEMMA ColumnType ==
  ASSUME NEW b, NEW s
  PROVE  /\ InColumn(b, s) \subseteq Issues
         /\ \A i \in InColumn(b, s) : b[i] \in Card /\ b[i].status = s /\ b[i].order \in Int
         /\ IsFiniteSet(InColumn(b, s))
         /\ Cardinality(InColumn(b, s)) \in Nat
         /\ Cardinality(InColumn(b, s)) <= Cardinality(Issues)
         /\ Cardinality(Issues) \in Nat
<1>1. InColumn(b, s) \in SUBSET Issues /\ IsFiniteSet(Issues)
  BY BoardSyncAssumption DEF InColumn
<1>2. \A i \in InColumn(b, s) : b[i] \in Card /\ b[i].status = s /\ b[i].order \in Int
  BY DEF InColumn, Card
<1>3. QED
  BY <1>1, <1>2, FS_Subset, FS_CardinalityType

\* The place of an issue in a list.
Place(l, j) == CHOOSE n \in DOMAIN l : l[n] = j

(* A list of a column has every issue of it, at a place of its own.         *)
LEMMA ListingCovers ==
  ASSUME NEW b, NEW s, NEW l \in Listings(b, s)
  PROVE  /\ DOMAIN l = 1..Cardinality(InColumn(b, s))
         /\ \A j \in InColumn(b, s) :
              /\ Place(l, j) \in 1..Cardinality(Issues)
              /\ Place(l, j) \in DOMAIN l /\ l[Place(l, j)] = j
<1> DEFINE column == InColumn(b, s)
           n == Cardinality(column)
<1>1. /\ n \in Nat /\ n <= Cardinality(Issues) /\ Cardinality(Issues) \in Nat
      /\ IsFiniteSet(column)
  BY ColumnType
<1>2. l \in [1..n -> column] /\ \A p, q \in 1..n : p < q => l[p] # l[q]
  BY DEF Listings
<1> HIDE DEF n, column
<1>3. l \in Injection(1..n, column)
  <2>1. ASSUME NEW p \in 1..n, NEW q \in 1..n, l[p] = l[q] PROVE p = q
    <3>1. ~(p < q) /\ ~(q < p)
      BY <1>2, <2>1
    <3>2. QED
      BY <3>1
  <2>2. l \in [1..n -> column] /\ \A p, q \in 1..n : l[p] = l[q] => p = q
    BY <1>2, <2>1
  <2>3. QED
    BY <2>2 DEF Injection, IsInjective
<1>4. Cardinality(1..n) = n
  BY <1>1, FS_Interval
<1>5. l \in Surjection(1..n, column)
  BY <1>1, <1>3, <1>4, FS_Injection DEF n
<1>6. ASSUME NEW j \in column PROVE Place(l, j) \in 1..n /\ l[Place(l, j)] = j
  <2>1. \E p \in DOMAIN l : l[p] = j
    BY <1>2, <1>5 DEF Surjection
  <2>2. Place(l, j) \in DOMAIN l /\ l[Place(l, j)] = j
    BY <2>1 DEF Place
  <2>3. QED
    BY <1>2, <2>2
<1>7. QED
  BY <1>1, <1>2, <1>6 DEF n, column

(* A move puts its issue where it is asked to, leaves the other columns     *)
(* alone, and renumbers what it renumbers with distinct ranks.              *)
LEMMA MoveEffect ==
  ASSUME rows \in Table, NEW i \in Issues, NEW s \in Statuses, NEW o \in Int, NEW t \in AfterMove(i, s, o)
  PROVE  /\ t \in Table /\ t[i] \in Card /\ t[i].status = s
         /\ \A j \in Issues \ {i} : t[j] # rows[j] =>
              /\ rows[j] \in Card /\ t[j] \in Card /\ t[j].status = rows[j].status
              /\ t[j].order \in {n * One : n \in 1..Cardinality(Issues)}
              /\ \A k \in Issues \ {i, j} : t[k] # rows[k] => t[k].order # t[j].order
<1> DEFINE card   == [status |-> s, order |-> o]
           moved  == [rows EXCEPT ![i] = card]
           column == InColumn(moved, s)
<1>1. /\ card \in Card /\ card.status = s
      /\ moved \in Table /\ moved[i] = card /\ \A j \in Issues \ {i} : moved[j] = rows[j]
  BY DEF Table, Card
<1>2. CASE t = moved
  BY <1>1, <1>2
<1>3. ASSUME NEW l \in Listings(moved, s),
             t = [j \in Issues |-> IF j \in column
                    THEN [moved[j] EXCEPT !.order = One * (CHOOSE n \in DOMAIN l : l[n] = j)]
                    ELSE moved[j]]
      PROVE  /\ t \in Table /\ t[i] \in Card /\ t[i].status = s
             /\ \A j \in Issues \ {i} : t[j] # rows[j] =>
                  /\ rows[j] \in Card /\ t[j] \in Card /\ t[j].status = rows[j].status
                  /\ t[j].order \in {n * One : n \in 1..Cardinality(Issues)}
                  /\ \A k \in Issues \ {i, j} : t[k] # rows[k] => t[k].order # t[j].order
  <2>1. /\ column \subseteq Issues /\ Cardinality(Issues) \in Nat
        /\ \A j \in column : moved[j] \in Card /\ moved[j].status = s
        /\ \A j \in Issues \ column : t[j] = moved[j]
    BY <1>3, ColumnType
  <2>2. i \in column
    BY <1>1 DEF InColumn
  <2>3. \A j \in column : /\ Place(l, j) \in 1..Cardinality(Issues) /\ Place(l, j) \in Nat
                          /\ Place(l, j) \in DOMAIN l /\ l[Place(l, j)] = j
    <3>1. \A j \in column : /\ Place(l, j) \in 1..Cardinality(Issues)
                            /\ Place(l, j) \in DOMAIN l /\ l[Place(l, j)] = j
      BY ListingCovers
    <3>2. 1..Cardinality(Issues) \subseteq Nat
      BY <2>1
    <3> HIDE DEF column
    <3>3. QED
      BY <3>1, <3>2
  <2>4. One \in Nat \ {0}
    BY BoardSyncAssumption
  <2>5. \A j \in column : /\ t[j] \in Card /\ t[j].status = s
                          /\ t[j].order = Place(l, j) * One
    <3>1. TAKE j \in column
    <3>2. t[j] = [moved[j] EXCEPT !.order = One * Place(l, j)]
      BY <1>3, <2>1 DEF Place
    <3>3. One * Place(l, j) \in Int /\ One * Place(l, j) = Place(l, j) * One
      <4>1. PICK p : p = Place(l, j)
        OBVIOUS
      <4>2. p \in Int /\ One \in Int
        <5> HIDE DEF column
        <5> QED BY <2>3, <2>4, <4>1
      <4>3. One * p \in Int /\ One * p = p * One
        BY <4>2
      <4>4. QED
        BY <4>1, <4>3
    <3>4. moved[j] \in Card /\ moved[j].status = s
      BY <2>1
    <3> HIDE DEF moved
    <3>5. QED
      BY <3>2, <3>3, <3>4 DEF Card
  <2>6. \A j, k \in column : j # k => t[j].order # t[k].order
    <3>1. SUFFICES ASSUME NEW j \in column, NEW k \in column, j # k PROVE t[j].order # t[k].order
      OBVIOUS
    <3>2. PICK p, q : p = Place(l, j) /\ q = Place(l, k)
      OBVIOUS
    <3>3. p \in Nat /\ q \in Nat
      <4> HIDE DEF column
      <4> QED BY <2>3, <3>1, <3>2
    <3>4. l[p] = j /\ l[q] = k
      BY <2>3, <3>1, <3>2
    <3>5. p # q
      BY <3>1, <3>4
    <3>6. p * One # q * One
      BY <2>4, <3>3, <3>5
    <3>7. QED
      BY <2>5, <3>2, <3>6
  <2>7. t \in Table
    <3>1. \A j \in Issues : t[j] \in Card \cup {NoCard, Removed}
      BY <1>1, <2>1, <2>5 DEF Table
    <3>2. QED
      BY <1>3, <3>1 DEF Table
  <2>8. \A j \in Issues \ {i} : t[j] # rows[j] => j \in column /\ rows[j] = moved[j]
    BY <1>1, <2>1
  <2> HIDE DEF column, moved, card
  <2>9. ASSUME NEW j \in Issues \ {i}, t[j] # rows[j]
        PROVE  /\ rows[j] \in Card /\ t[j] \in Card /\ t[j].status = rows[j].status
               /\ t[j].order \in {n * One : n \in 1..Cardinality(Issues)}
               /\ \A k \in Issues \ {i, j} : t[k] # rows[k] => t[k].order # t[j].order
    <3>1. j \in column /\ rows[j] = moved[j]
      BY <2>8, <2>9
    <3>2. t[j].order = Place(l, j) * One /\ Place(l, j) \in 1..Cardinality(Issues)
      BY <2>3, <2>5, <3>1
    <3>3. \A k \in Issues \ {i, j} : t[k] # rows[k] => t[k].order # t[j].order
      BY <2>6, <2>8, <3>1
    <3>4. QED
      BY <2>1, <2>5, <3>1, <3>2, <3>3
  <2>10. QED
    BY <2>2, <2>5, <2>7, <2>9
<1>4. t = moved \/ \E l \in Listings(moved, s) :
        t = [j \in Issues |-> IF j \in column
               THEN [moved[j] EXCEPT !.order = One * (CHOOSE n \in DOMAIN l : l[n] = j)]
               ELSE moved[j]]
  BY DEF AfterMove
<1>5. QED
  BY <1>2, <1>3, <1>4

(* The order of a new issue is a number.                                    *)
LEMMA MaxOrderType ==
  ASSUME NEW s
  PROVE  MaxOrder(s) \in Int
<1> DEFINE column == InColumn(rows, s)
           orders == {rows[i].order : i \in column}
<1>1. CASE orders = {}
  BY <1>1 DEF MaxOrder
<1>2. CASE orders # {}
  <2>1. IsFiniteSet(column) /\ column # {} /\ \A i \in column : rows[i].order \in Int
    BY <1>2, ColumnType
  <2>2. PICK f : f = [i \in column |-> rows[i].order]
    OBVIOUS
  <2>3. f \in [column -> Int]
    BY <2>1, <2>2
  <2>4. PICK m \in column : \A j \in column : f[j] <= f[m]
    <3> HIDE DEF column
    <3> QED BY <2>1, <2>3, GreatestExists
  <2>5. rows[m].order \in orders /\ \A y \in orders : y <= rows[m].order
    BY <2>2, <2>4
  <2>6. MaxOrder(s) \in orders
    BY <1>2, <2>5 DEF MaxOrder
  <2>7. QED
    BY <2>1, <2>6
<1>3. QED
  BY <1>1, <1>2

-----------------------------------------------------------------------------
(* What the records are made of.                                            *)

(* A request under way has what it asks for.                                *)
LEMMA AskedType ==
  ASSUME TypeOK, NEW r \in Requests, Busy(r)
  PROVE  /\ req[r] \in Asked /\ req[r].by \in Clients \cup {Elsewhere}
         /\ req[r].kind \in {"move", "update", "create", "delete"}
         /\ req[r].issue \in Issues \cup {NoCard} /\ req[r].status \in Statuses \cup {NoCard}
         /\ req[r].order \in Int /\ req[r].stage \in Stages
<1>1. req[r] \in Asked
  BY DEF TypeOK, Busy
<1>2. QED
  BY <1>1 DEF Asked

(* A request that gets further keeps what it asks for.                      *)
LEMMA StageEffect ==
  ASSUME NEW q \in Asked, NEW x \in Stages
  PROVE  /\ [q EXCEPT !.stage = x] \in Asked /\ [q EXCEPT !.stage = x] # NoOne
         /\ [q EXCEPT !.stage = x].stage = x
         /\ [q EXCEPT !.stage = x].by = q.by /\ [q EXCEPT !.stage = x].kind = q.kind
         /\ [q EXCEPT !.stage = x].issue = q.issue /\ [q EXCEPT !.stage = x].status = q.status
         /\ [q EXCEPT !.stage = x].order = q.order
<1>1. [q EXCEPT !.stage = x] \in Asked
  BY DEF Asked
<1>2. NoOne \notin Asked
  BY BoardSyncAssumption
<1>3. QED
  BY <1>1, <1>2 DEF Asked

(* The same of one that has read its issue, an order included.              *)
LEMMA ReadEffect ==
  ASSUME NEW q \in Asked, NEW o \in Int, NEW p, p = [q EXCEPT !.stage = "read", !.order = o]
  PROVE  /\ p \in Asked /\ p # NoOne /\ p.stage = "read" /\ p.issue = q.issue
         /\ p.by = q.by /\ p.kind = q.kind /\ p.status = q.status
<1>1. p \in Asked
  BY DEF Asked, Stages
<1>2. NoOne \notin Asked
  BY BoardSyncAssumption
<1>3. QED
  BY <1>1, <1>2 DEF Asked

(* The same of one that takes effect, on an issue.                          *)
LEMMA CommitEffect ==
  ASSUME NEW q \in Asked, NEW i \in Issues, NEW p, p = [q EXCEPT !.stage = "committed", !.issue = i]
  PROVE  /\ p \in Asked /\ p # NoOne /\ p.stage = "committed" /\ p.issue = i
         /\ p.by = q.by /\ p.kind = q.kind /\ p.status = q.status /\ p.order = q.order
<1>1. p \in Asked
  BY DEF Asked, Stages
<1>2. NoOne \notin Asked
  BY BoardSyncAssumption
<1>3. QED
  BY <1>1, <1>2 DEF Asked

(* The event of a request says what the request asked for.                  *)
LEMMA EventOfType ==
  ASSUME NEW q \in Asked, q.issue \in Issues, q.kind # "delete" => q.status \in Statuses
  PROVE  /\ EventOf(q) \in Events /\ EventOf(q).issue = q.issue
         /\ EventOf(q).type = "moved" => q.kind = "move" /\ EventOf(q).status = q.status /\ EventOf(q).order = q.order
         /\ EventOf(q).type = "deleted" => q.kind = "delete"
         /\ q.kind = "create" => EventOf(q).type = "created"
         /\ q.kind = "update" => EventOf(q).type = "updated"
<1>1. q.order \in Int /\ q.kind \in {"move", "update", "create", "delete"}
  BY DEF Asked
<1>2. CASE q.kind = "move"
  BY <1>1, <1>2 DEF EventOf, Events
<1>3. CASE q.kind = "update"
  BY <1>3 DEF EventOf, Events
<1>4. CASE q.kind = "create"
  BY <1>4 DEF EventOf, Events
<1>5. CASE q.kind = "delete"
  BY <1>5 DEF EventOf, Events
<1>6. QED
  BY <1>1, <1>2, <1>3, <1>4, <1>5

(* An event is about an issue.                                              *)
LEMMA EventType ==
  ASSUME NEW e \in Events
  PROVE  /\ e.issue \in Issues /\ e.type \in {"moved", "updated", "created", "deleted"}
         /\ e.type = "moved" => e.status \in Statuses /\ e.order \in Int
BY DEF Events

(* The query of a client.                                                   *)
LEMMA QueryType ==
  ASSUME TypeOK, NEW c \in Clients
  PROVE  /\ query[c] \in Queries
         /\ query[c].fetch \in {"none", "sent", "served"} /\ query[c].board \in Boards
         /\ query[c].due \in BOOLEAN /\ query[c].failed \in BOOLEAN
<1>1. query[c] \in Queries
  BY DEF TypeOK
<1>2. QED
  BY <1>1 DEF Queries

(* Invalidating a query cancels the fetch of a board on the screen and      *)
(* leaves that of another alone.                                            *)
LEMMA InvalidatedEffect ==
  ASSUME TypeOK, NEW c \in Clients, query' = Invalidated(c)
  PROVE  /\ query' \in [Clients -> Queries]
         /\ \A d \in Clients \ {c} : query'[d] = query[d]
         /\ query'[c].due /\ query'[c].failed = query[c].failed
         /\ page[c] # "away" => query'[c].fetch = "sent"
         /\ page[c] = "away" => query'[c].fetch = query[c].fetch /\ query'[c].board = query[c].board
<1>1. query \in [Clients -> Queries] /\ query[c] \in Queries
  BY DEF TypeOK
<1>2. NoBoard \in Boards
  BY DEF NoBoard, Boards
<1>3. CASE page[c] # "away"
  <2>1. query' = [query EXCEPT ![c] = [query[c] EXCEPT !.fetch = "sent", !.board = NoBoard, !.due = TRUE]]
    BY <1>3 DEF Invalidated
  <2>2. [query[c] EXCEPT !.fetch = "sent", !.board = NoBoard, !.due = TRUE] \in Queries
    BY <1>1, <1>2 DEF Queries
  <2>3. query'[c] = [query[c] EXCEPT !.fetch = "sent", !.board = NoBoard, !.due = TRUE]
    BY <1>1, <2>1
  <2>4. query'[c].due /\ query'[c].failed = query[c].failed /\ query'[c].fetch = "sent"
    BY <1>1, <2>3 DEF Queries
  <2>5. QED
    BY <1>1, <1>3, <2>1, <2>2, <2>4
<1>4. CASE page[c] = "away"
  <2>1. query' = [query EXCEPT ![c] = [query[c] EXCEPT !.due = TRUE]]
    BY <1>4 DEF Invalidated
  <2>2. [query[c] EXCEPT !.due = TRUE] \in Queries
    BY <1>1 DEF Queries
  <2>3. query'[c] = [query[c] EXCEPT !.due = TRUE]
    BY <1>1, <2>1
  <2>4. query'[c].due /\ query'[c].failed = query[c].failed /\ query'[c].fetch = query[c].fetch /\ query'[c].board = query[c].board
    BY <1>1, <2>3 DEF Queries
  <2>5. QED
    BY <1>1, <1>4, <2>1, <2>2, <2>4
<1>5. QED
  BY <1>3, <1>4

(* Patching the cache leaves a fetch under way alone.                       *)
LEMMA PatchEffect ==
  ASSUME TypeOK, NEW c \in Clients, NEW b \in Boards, Patch(c, b)
  PROVE  /\ cache' \in [Clients -> Boards] /\ cache'[c] = b
         /\ query' \in [Clients -> Queries]
         /\ \A d \in Clients \ {c} : query'[d] = query[d] /\ cache'[d] = cache[d]
         /\ ~query'[c].due /\ query'[c].failed = query[c].failed
         /\ query'[c].fetch = query[c].fetch /\ query'[c].board = query[c].board
<1>1. query \in [Clients -> Queries] /\ query[c] \in Queries /\ cache \in [Clients -> Boards]
  BY DEF TypeOK
<1>2. query' = [query EXCEPT ![c] = [query[c] EXCEPT !.due = FALSE]] /\ cache' = [cache EXCEPT ![c] = b]
  BY DEF Patch
<1>3. [query[c] EXCEPT !.due = FALSE] \in Queries
  BY <1>1 DEF Queries
<1>4. query'[c] = [query[c] EXCEPT !.due = FALSE]
  BY <1>1, <1>2
<1>5. ~query'[c].due /\ query'[c].failed = query[c].failed /\ query'[c].fetch = query[c].fetch /\ query'[c].board = query[c].board
  BY <1>1, <1>4 DEF Queries
<1>6. QED
  BY <1>1, <1>2, <1>3, <1>5

(* The board that the server reads.                                         *)
LEMMA BoardType ==
  ASSUME TypeOK
  PROVE  /\ Board \in Boards
         /\ \A i \in Issues : /\ Live(i) => Board[i] = rows[i] /\ Board[i] \in Card
                              /\ ~Live(i) => Board[i] = NoCard
BY DEF Board, Boards, Live

(* Without its dragged card, the list of a column has only cards of it.     *)
LEMMA WithoutType ==
  ASSUME NEW b, NEW s, NEW l \in Listings(b, s), NEW i
  PROVE  \A n \in DOMAIN Without(l, i) : Without(l, i)[n] \in InColumn(b, s)
<1> DEFINE column == InColumn(b, s)
           N == Cardinality(column)
           others == {n \in DOMAIN l : l[n] # i}
           Kept(n) == IF \E m \in 1..n : l[m] = i THEN n + 1 ELSE n
<1>1. N \in Nat
  BY ColumnType
<1>2. l \in [1..N -> column] /\ \A p, q \in 1..N : p < q => l[p] # l[q]
  BY DEF Listings
<1>3. Without(l, i) = [n \in 1..Cardinality(others) |-> l[Kept(n)]]
  BY DEF Without
<1> HIDE DEF N, column
<1>4. \A n \in 1..Cardinality(others) : Kept(n) \in 1..N
  <2>1. CASE \E p \in 1..N : l[p] = i
    <3>1. PICK p \in 1..N : l[p] = i
      BY <2>1
    <3>2. ASSUME NEW q \in 1..N, q # p PROVE l[q] # i
      <4>1. q < p \/ p < q
        BY <1>1, <3>2
      <4>2. QED
        BY <1>2, <3>1, <4>1
    <3>3. others = (1..N) \ {p}
      BY <1>2, <3>1, <3>2
    <3>4. Cardinality(others) = N - 1
      <4>1. IsFiniteSet(1..N) /\ Cardinality(1..N) = N
        BY <1>1, FS_Interval
      <4> HIDE DEF others
      <4>2. QED
        BY <3>3, <4>1, FS_RemoveElement
    <3>5. ASSUME NEW n \in 1..Cardinality(others) PROVE n \in 1..N /\ n + 1 \in 1..N
      <4> HIDE DEF others
      <4> QED BY <1>1, <3>4
    <3>6. QED
      BY <3>5
  <2>2. CASE ~\E p \in 1..N : l[p] = i
    <3>1. others = 1..N
      BY <1>2, <2>2
    <3>2. Cardinality(others) = N
      <4>1. Cardinality(1..N) = N
        BY <1>1, FS_Interval
      <4> HIDE DEF others
      <4>2. QED
        BY <3>1, <4>1
    <3>3. ASSUME NEW n \in 1..Cardinality(others) PROVE n \in 1..N /\ ~\E m \in 1..n : l[m] = i
      <4>1. n \in 1..N
        BY <3>2, <3>3
      <4>2. \A m \in 1..n : m \in 1..N
        BY <1>1, <4>1
      <4>3. QED
        BY <2>2, <4>1, <4>2
    <3>4. QED
      BY <3>3
  <2>3. QED
    BY <2>1, <2>2
<1> HIDE DEF others, Kept
<1>5. QED
  BY <1>2, <1>3, <1>4 DEF column

(* The order computed for a dropped card is a number.                       *)
LEMMA NewOrderType ==
  ASSUME NEW b, NEW s, NEW l \in Listings(b, s), NEW i, NEW index \in Int
  PROVE  NewOrder(b, Without(l, i), index) \in Int
<1>1. One \in Int /\ Threshold \in Int
  BY BoardSyncAssumption
<1>2. PICK w : w = Without(l, i)
  OBVIOUS
<1>3. \A n \in DOMAIN w : b[w[n]].order \in Int
  BY <1>2, WithoutType, ColumnType
<1>4. ASSUME NEW n \in Int, NEW default \in Int PROVE OrderAt(b, w, n, default) \in Int
  BY <1>3 DEF OrderAt
<1>5. PICK prev : prev = OrderAt(b, w, index, 0)
  OBVIOUS
<1>6. prev \in Int /\ prev + 2 * One \in Int /\ index + 1 \in Int
  BY <1>1, <1>4, <1>5
<1>7. PICK next : next = OrderAt(b, w, index + 1, prev + 2 * One)
  OBVIOUS
<1>8. next \in Int
  BY <1>4, <1>6, <1>7
<1>9. (prev + next) \div 2 \in Int /\ prev + One \in Int
  BY <1>1, <1>6, <1>8
<1>10. NewOrder(b, w, index) = IF (prev + next) \div 2 - prev < Threshold THEN prev + One ELSE (prev + next) \div 2
  BY <1>5, <1>7 DEF NewOrder
<1>11. QED
  BY <1>2, <1>9, <1>10

(* What a request leaves: the row of its issue, as asked for, and the rows  *)
(* of the others, at most renumbered.                                       *)
LEMMA OutcomeEffect ==
  ASSUME TypeOK, RequestsRight, NEW r \in Requests, Busy(r), NEW o \in Outcomes(r)
  PROVE  /\ o.issue \in Issues /\ o.rows \in Table
         /\ req[r].kind = "create" => rows[o.issue] = NoCard /\ o.rows[o.issue] \in Card
         /\ req[r].kind # "create" => o.issue = req[r].issue
         /\ req[r].kind = "delete" => o.rows = [rows EXCEPT ![o.issue] = Removed]
         /\ req[r].kind # "delete" => o.rows[o.issue] \in Card
         /\ req[r].kind = "move" => o.rows[o.issue].status = req[r].status
         /\ \A j \in Issues \ {o.issue} : o.rows[j] # rows[j] =>
              /\ rows[j] \in Card /\ o.rows[j] \in Card /\ o.rows[j].status = rows[j].status
              /\ o.rows[j].order \in {n * One : n \in 1..Cardinality(Issues)}
              /\ \A k \in Issues \ {o.issue, j} : o.rows[k] # rows[k] => o.rows[k].order # o.rows[j].order
<1>1. PICK q : q = req[r]
  OBVIOUS
<1>2. /\ q.kind \in {"move", "update", "create", "delete"}
      /\ q.kind # "create" => q.issue \in Issues
      /\ q.kind # "delete" => q.status \in Statuses
      /\ q.order \in Int
  BY <1>1, AskedType DEF RequestsRight
<1>3. rows \in Table
  BY DEF TypeOK, Table
<1>4. CASE q.kind = "create"
  <2>1. PICK i \in Issues :
          /\ rows[i] = NoCard
          /\ o = [issue |-> i, rows |-> [rows EXCEPT ![i] = [status |-> q.status, order |-> MaxOrder(q.status) + One]]]
    BY <1>1, <1>4 DEF Outcomes
  <2>2. MaxOrder(q.status) + One \in Int
    BY MaxOrderType, BoardSyncAssumption
  <2>3. PICK card : card = [status |-> q.status, order |-> MaxOrder(q.status) + One]
    OBVIOUS
  <2>4. card \in Card
    BY <1>2, <1>4, <2>2, <2>3 DEF Card
  <2>5. o.issue = i /\ o.rows = [rows EXCEPT ![i] = card]
    BY <2>1, <2>3
  <2>6. o.rows \in Table /\ o.rows[i] = card /\ \A j \in Issues \ {i} : o.rows[j] = rows[j]
    BY <1>3, <2>4, <2>5 DEF Table
  <2>7. QED
    BY <1>1, <1>4, <2>1, <2>4, <2>5, <2>6
<1>5. CASE q.kind = "move"
  <2>1. PICK t \in AfterMove(q.issue, q.status, q.order) : o = [issue |-> q.issue, rows |-> t]
    BY <1>1, <1>5 DEF Outcomes
  <2>2. q.issue \in Issues /\ q.status \in Statuses
    BY <1>2, <1>5
  <2>3. o.issue = q.issue /\ o.rows = t
    BY <2>1
  <2>4. /\ t \in Table /\ t[q.issue] \in Card /\ t[q.issue].status = q.status
        /\ \A j \in Issues \ {q.issue} : t[j] # rows[j] =>
              /\ rows[j] \in Card /\ t[j] \in Card /\ t[j].status = rows[j].status
              /\ t[j].order \in {n * One : n \in 1..Cardinality(Issues)}
              /\ \A k \in Issues \ {q.issue, j} : t[k] # rows[k] => t[k].order # t[j].order
    BY <1>2, <1>3, <2>2, MoveEffect
  <2>5. /\ o.rows \in Table /\ o.rows[o.issue] \in Card /\ o.rows[o.issue].status = q.status
        /\ \A j \in Issues \ {o.issue} : o.rows[j] # rows[j] =>
              /\ rows[j] \in Card /\ o.rows[j] \in Card /\ o.rows[j].status = rows[j].status
              /\ o.rows[j].order \in {n * One : n \in 1..Cardinality(Issues)}
              /\ \A k \in Issues \ {o.issue, j} : o.rows[k] # rows[k] => o.rows[k].order # o.rows[j].order
    BY <2>3, <2>4, Zenon
  <2>6. QED
    BY <1>1, <1>5, <2>1, <2>2, <2>3, <2>5
<1>6. CASE q.kind = "update"
  <2>1. o = [issue |-> q.issue, rows |-> [rows EXCEPT ![q.issue] = [status |-> q.status, order |-> q.order]]]
    BY <1>1, <1>6 DEF Outcomes
  <2>2. q.issue \in Issues /\ q.status \in Statuses
    BY <1>2, <1>6
  <2>3. PICK card : card = [status |-> q.status, order |-> q.order]
    OBVIOUS
  <2>4. card \in Card
    BY <1>2, <2>2, <2>3 DEF Card
  <2>5. o.issue = q.issue /\ o.rows = [rows EXCEPT ![q.issue] = card]
    BY <2>1, <2>3
  <2>6. /\ o.rows \in Table /\ o.rows[q.issue] = card
        /\ \A j \in Issues \ {q.issue} : o.rows[j] = rows[j]
    BY <1>3, <2>2, <2>4, <2>5 DEF Table
  <2>7. QED
    BY ZenonT(60), <1>1, <1>6, <2>1, <2>2, <2>4, <2>5, <2>6
<1>7. CASE q.kind = "delete"
  <2>1. o = [issue |-> q.issue, rows |-> [rows EXCEPT ![q.issue] = Removed]]
    BY <1>1, <1>7 DEF Outcomes
  <2>2. o.issue = q.issue /\ o.rows = [rows EXCEPT ![q.issue] = Removed] /\ q.issue \in Issues
    BY <1>2, <1>7, <2>1
  <2>3. /\ o.rows \in Table
        /\ \A j \in Issues \ {q.issue} : o.rows[j] = rows[j]
    BY <1>3, <2>2 DEF Table
  <2>4. QED
    BY <1>1, <1>7, <2>1, <2>2, <2>3
<1>8. QED
  BY <1>2, <1>4, <1>5, <1>6, <1>7

-----------------------------------------------------------------------------
(* What a step leaves right.                                                *)

\* The step changes neither the row of i nor what client c will hear of it.
SameNews(c, i) ==
  /\ rows'[i] = rows[i] /\ inbox'[c] = inbox[c]
  /\ \A r \in Requests : /\ Committed(r, i)' <=> Committed(r, i)
                         /\ Committed(r, i) => req'[r] = req[r]

\* The step leaves the fetch and the cache of client c as far as i goes, or has the
\* board fetched again.
Covered(c, i) ==
  \/ query'[c].fetch = "sent"
  \/ /\ query'[c].fetch = query[c].fetch /\ query'[c].board = query[c].board
     /\ cache'[c][i] = cache[c][i]
     /\ query'[c].fetch = "none" => query'[c].due \/ (~query[c].due /\ (Dropped(c, i) => Dropped(c, i)'))

(* With the same news, what is awaited and announced stays the same.        *)
LEMMA NewsStay ==
  ASSUME NEW c \in Clients, NEW i \in Issues, SameNews(c, i)
  PROVE  /\ Pending(i)' <=> Pending(i)
         /\ Announced(c, i)' <=> Announced(c, i)
         /\ WillFetch(c, i)' <=> WillFetch(c, i)
         /\ Live(i)' <=> Live(i)
         /\ Board'[i] = Board[i]
         /\ LastIsRight(c, i) => LastIsRight(c, i)'
         /\ GoneOrBack(c, i) => GoneOrBack(c, i)'
<1>1. Pending(i)' <=> Pending(i)
  BY DEF Pending, SameNews
<1>2. Announced(c, i)' <=> Announced(c, i)
  BY DEF Announced, SameNews
<1>3. WillFetch(c, i)' <=> WillFetch(c, i)
  BY DEF WillFetch, SameNews
<1>4. Live(i)' <=> Live(i)
  BY DEF Live, SameNews
<1>5. Board'[i] = Board[i]
  BY <1>4 DEF Board, Live, SameNews
<1>6. ASSUME LastIsRight(c, i) PROVE LastIsRight(c, i)'
  <2>1. ASSUME NEW r \in Requests, Committed(r, i)' PROVE Tells(EventOf(req[r]), i)'
    <3>1. req'[r] = req[r] /\ Tells(EventOf(req[r]), i)
      BY <1>6, <2>1 DEF SameNews, LastIsRight
    <3>2. EventOf(req'[r]) = EventOf(req[r])
      BY <3>1
    <3>3. QED
      BY <3>1, <3>2 DEF Tells, SameNews
  <2>2. ASSUME ~Pending(i)', NEW n \in DOMAIN inbox'[c],
               inbox'[c][n].issue = i /\ (\A m \in DOMAIN inbox'[c] : m > n => inbox'[c][m].issue # i)
        PROVE  Tells(inbox[c][n], i)'
    <3>1. Tells(inbox[c][n], i)
      BY <1>1, <1>6, <2>2 DEF SameNews, LastIsRight
    <3>2. QED
      BY <3>1 DEF Tells, SameNews
  <2>3. QED
    BY <2>1, <2>2 DEF LastIsRight
<1>7. ASSUME GoneOrBack(c, i) PROVE GoneOrBack(c, i)'
  BY <1>7 DEF GoneOrBack, SameNews
<1>8. QED
  BY <1>1, <1>2, <1>3, <1>4, <1>5, <1>6, <1>7

(* A step that leaves both alone leaves right what was right.               *)
LEMMA Frame ==
  ASSUME NEW c \in Clients, NEW i \in Issues, Right(c, i), SameNews(c, i), Covered(c, i)
  PROVE  Right(c, i)'
<1>1. /\ Pending(i)' <=> Pending(i)
      /\ Announced(c, i)' <=> Announced(c, i)
      /\ WillFetch(c, i)' <=> WillFetch(c, i)
      /\ Live(i)' <=> Live(i)
      /\ Board'[i] = Board[i]
      /\ LastIsRight(c, i)' /\ GoneOrBack(c, i)'
  BY NewsStay DEF Right
<1>2. FetchIsRight(c, i)'
  BY <1>1 DEF Right, FetchIsRight, Covered
<1>3. CacheIsRight(c, i)'
  BY <1>1 DEF Right, CacheIsRight, Covered
<1>4. Present(c, i)'
  BY <1>1 DEF Right, Present, Covered
<1>5. QED
  BY <1>1, <1>2, <1>3, <1>4 DEF Right

(* A step that moves no request leaves every issue's requests alone.        *)
LEMMA NothingMoves ==
  ASSUME NEW c \in Clients, NEW i \in Issues, rows' = rows, req' = req, inbox'[c] = inbox[c]
  PROVE  SameNews(c, i) /\ (Dropped(c, i)' <=> Dropped(c, i))
BY DEF SameNews, Committed, About, Busy, Dropped

(* The rest of the invariant is about pages that a step may leave alone.    *)
LEMMA PagesStay ==
  ASSUME BoardsInv, UNCHANGED <<rows, req, inbox>>
  PROVE  RequestsRight'
BY DEF BoardsInv, RequestsRight, Busy

(* A board that is served.                                                  *)
LEMMA ServeBoardStep ==
  ASSUME BoardsInv, NEW c \in Clients, ServeBoard(c)
  PROVE  BoardsInv'
<1>1. TypeOK /\ Board \in Boards /\ query[c] \in Queries
  BY BoardType, QueryType DEF BoardsInv
<1>2. query' = [query EXCEPT ![c] = [query[c] EXCEPT !.fetch = "served", !.board = Board]]
  BY DEF ServeBoard
<1>3. [query[c] EXCEPT !.fetch = "served", !.board = Board] \in Queries
  BY <1>1 DEF Queries
<1>4. /\ query' \in [Clients -> Queries]
      /\ query'[c] = [query[c] EXCEPT !.fetch = "served", !.board = Board]
      /\ \A d \in Clients \ {c} : query'[d] = query[d]
  BY <1>1, <1>2, <1>3 DEF TypeOK
<1>5. query'[c].fetch = "served" /\ query'[c].board = Board /\ query'[c].failed = query[c].failed
  BY <1>1, <1>4 DEF Queries
<1>6. TypeOK'
  BY <1>1, <1>4 DEF ServeBoard, TypeOK
<1>7. PagesRight'
  BY <1>4, <1>5 DEF ServeBoard, PagesRight, BoardsInv, Shown
<1>8. RequestsRight'
  BY PagesStay DEF ServeBoard
<1>9. ASSUME NEW d \in Clients, NEW i \in Issues, i \notin astray'[d] PROVE Right(d, i)'
  <2>1. SameNews(d, i) /\ (Dropped(d, i)' <=> Dropped(d, i))
    BY NothingMoves DEF ServeBoard
  <2>2. CASE d # c
    <3>1. astray'[d] = astray[d] /\ query'[d] = query[d] /\ cache' = cache
      BY <1>1, <1>4, <2>2 DEF ServeBoard, TypeOK
    <3>2. Right(d, i) /\ Covered(d, i)
      BY <1>9, <2>1, <3>1 DEF BoardsInv, Covered
    <3>3. QED
      BY <2>1, <3>2, Frame
  <2>3. CASE d = c
    <3>1. i \notin astray[c] \/ (~Underway(i) /\ ~Announced(c, i))
      <4>1. astray' = [astray EXCEPT ![c] = {j \in astray[c] : Underway(j) \/ Announced(c, j)}]
        BY DEF ServeBoard
      <4>2. astray'[c] = {j \in astray[c] : Underway(j) \/ Announced(c, j)}
        BY <1>1, <4>1 DEF TypeOK
      <4>3. QED
        <5> HIDE DEF Underway, Announced
        <5> QED BY <1>9, <2>3, <4>2
    <3>2. LastIsRight(c, i) /\ GoneOrBack(c, i)
      <4>1. ASSUME ~Underway(i) /\ ~Announced(c, i) PROVE LastIsRight(c, i) /\ GoneOrBack(c, i)
        BY <4>1 DEF LastIsRight, GoneOrBack, Underway, Announced, Committed, About
      <4>2. QED
        BY <3>1, <4>1 DEF BoardsInv, Right
    <3>3. LastIsRight(c, i)' /\ GoneOrBack(c, i)' /\ Board'[i] = Board[i] /\ (Live(i)' <=> Live(i))
      BY <2>1, <2>3, <3>2, NewsStay
    <3>4. FetchIsRight(c, i)' /\ CacheIsRight(c, i)'
      BY <1>5, <3>3 DEF FetchIsRight, CacheIsRight
    <3>5. Present(c, i)'
      BY <1>1, <1>5, <3>3, BoardType DEF Present
    <3>6. QED
      BY <2>3, <3>3, <3>4, <3>5 DEF Right
  <2>4. QED
    BY <2>2, <2>3
<1>10. QED
  BY <1>6, <1>7, <1>8, <1>9 DEF BoardsInv

(* A board that arrives.                                                    *)
LEMMA ReceiveBoardStep ==
  ASSUME BoardsInv, NEW c \in Clients, ReceiveBoard(c)
  PROVE  BoardsInv'
<1>1. TypeOK /\ query[c] \in Queries /\ query[c].board \in Boards /\ NoBoard \in Boards
  BY QueryType DEF BoardsInv, NoBoard, Boards
<1>2. query' = [query EXCEPT ![c] = [query[c] EXCEPT !.fetch = "none", !.board = NoBoard, !.due = FALSE, !.failed = FALSE]]
  BY DEF ReceiveBoard
<1>3. [query[c] EXCEPT !.fetch = "none", !.board = NoBoard, !.due = FALSE, !.failed = FALSE] \in Queries
  BY <1>1 DEF Queries
<1>4. /\ query' \in [Clients -> Queries]
      /\ query'[c] = [query[c] EXCEPT !.fetch = "none", !.board = NoBoard, !.due = FALSE, !.failed = FALSE]
      /\ \A d \in Clients \ {c} : query'[d] = query[d]
  BY <1>1, <1>2, <1>3 DEF TypeOK
<1>5. query'[c].fetch = "none" /\ ~query'[c].due /\ ~query'[c].failed
  BY <1>1, <1>4 DEF Queries
<1>6. cache' \in [Clients -> Boards] /\ cache'[c] = query[c].board /\ \A d \in Clients \ {c} : cache'[d] = cache[d]
  BY <1>1 DEF ReceiveBoard, TypeOK
<1>7. TypeOK'
  BY <1>1, <1>4, <1>6 DEF ReceiveBoard, TypeOK
<1>8. PagesRight'
  BY <1>4, <1>5 DEF ReceiveBoard, PagesRight, BoardsInv, Shown
<1>9. RequestsRight'
  BY PagesStay DEF ReceiveBoard
<1>10. ASSUME NEW d \in Clients, NEW i \in Issues, i \notin astray'[d] PROVE Right(d, i)'
  <2>1. SameNews(d, i) /\ (Dropped(d, i)' <=> Dropped(d, i)) /\ Right(d, i)
    BY <1>10, NothingMoves DEF ReceiveBoard, BoardsInv
  <2>2. CASE d # c
    <3>1. Covered(d, i)
      BY <1>4, <1>6, <2>1, <2>2 DEF Covered
    <3>2. QED
      BY <2>1, <3>1, Frame
  <2>3. CASE d = c
    <3>1. /\ LastIsRight(c, i)' /\ GoneOrBack(c, i)' /\ Board'[i] = Board[i] /\ (Live(i)' <=> Live(i))
          /\ (Pending(i)' <=> Pending(i)) /\ (Announced(c, i)' <=> Announced(c, i))
          /\ (WillFetch(c, i)' <=> WillFetch(c, i))
      BY <2>1, <2>3, NewsStay DEF Right
    <3>2. query[c].fetch = "served"
      BY DEF ReceiveBoard
    <3>3. FetchIsRight(c, i)'
      BY <1>5 DEF FetchIsRight
    <3>4. CacheIsRight(c, i)'
      BY <1>6, <2>1, <2>3, <3>1, <3>2 DEF FetchIsRight, CacheIsRight, Right
    <3>5. Present(c, i)'
      BY <1>5, <1>6, <2>1, <2>3, <3>1, <3>2 DEF Present, Right
    <3>6. QED
      BY <2>3, <3>1, <3>3, <3>4, <3>5 DEF Right
  <2>4. QED
    BY <2>2, <2>3
<1>11. QED
  BY <1>7, <1>8, <1>9, <1>10 DEF BoardsInv

(* A fetch that fails.                                                      *)
LEMMA FailBoardStep ==
  ASSUME BoardsInv, NEW c \in Clients, FailBoard(c)
  PROVE  BoardsInv'
<1>1. TypeOK /\ query[c] \in Queries /\ NoBoard \in Boards
  BY QueryType DEF BoardsInv, NoBoard, Boards
<1>2. query' = [query EXCEPT ![c] = [query[c] EXCEPT !.fetch = "none", !.board = NoBoard, !.failed = TRUE]]
  BY DEF FailBoard
<1>3. [query[c] EXCEPT !.fetch = "none", !.board = NoBoard, !.failed = TRUE] \in Queries
  BY <1>1 DEF Queries
<1>4. /\ query' \in [Clients -> Queries]
      /\ query'[c] = [query[c] EXCEPT !.fetch = "none", !.board = NoBoard, !.failed = TRUE]
      /\ \A d \in Clients \ {c} : query'[d] = query[d]
  BY <1>1, <1>2, <1>3 DEF TypeOK
<1>5. query'[c].failed
  BY <1>1, <1>4 DEF Queries
<1>6. page' = [page EXCEPT ![c] = IF page[c] = "away" THEN "away" ELSE "open"] /\ inbox' = [inbox EXCEPT ![c] = <<>>]
  BY DEF FailBoard, Unmount
<1>7. /\ page' \in [Clients -> {"away", "open", "joined"}] /\ inbox' \in [Clients -> Seq(Events)]
      /\ page'[c] # "joined" /\ inbox'[c] = <<>>
      /\ \A d \in Clients \ {c} : page'[d] = page[d] /\ inbox'[d] = inbox[d]
  BY <1>1, <1>6 DEF TypeOK
<1>8. breaks' \in 0..MaxBreaks
  BY <1>1, BoardSyncAssumption DEF FailBoard, Unmount, TypeOK
<1>9. astray' \in [Clients -> SUBSET Issues] /\ astray'[c] = Issues /\ \A d \in Clients \ {c} : astray'[d] = astray[d]
  BY <1>1 DEF FailBoard, TypeOK
<1>10. TypeOK'
  BY <1>1, <1>4, <1>7, <1>8, <1>9 DEF FailBoard, TypeOK
<1>11. PagesRight'
  <2>1. SUFFICES ASSUME NEW d \in Clients
                 PROVE  /\ inbox'[d] # <<>> => page'[d] = "joined"
                        /\ page'[d] = "joined" => ~query'[d].failed
                        /\ page'[d] # "away" /\ ~query'[d].failed /\ query'[d].due => query'[d].fetch # "none"
    BY DEF PagesRight, Shown
  <2>2. CASE d = c
    BY <1>5, <1>7, <2>2
  <2>3. CASE d # c
    BY ZenonT(60), <1>4, <1>7, <2>3 DEF PagesRight, BoardsInv, Shown
  <2>4. QED
    BY <2>2, <2>3
<1>12. RequestsRight'
  <2>1. rows' = rows /\ req' = req
    BY DEF FailBoard
  <2>2. QED
    BY <1>7, <2>1 DEF BoardsInv, RequestsRight, Busy
<1>13. ASSUME NEW d \in Clients, NEW i \in Issues, i \notin astray'[d] PROVE Right(d, i)'
  <2>1. d # c /\ Right(d, i)
    BY <1>9, <1>13 DEF BoardsInv
  <2>2. SameNews(d, i) /\ (Dropped(d, i)' <=> Dropped(d, i))
    BY <1>7, <2>1, NothingMoves DEF FailBoard
  <2>3. Covered(d, i)
    BY <1>4, <2>1, <2>2 DEF FailBoard, Covered
  <2>4. QED
    BY <2>1, <2>2, <2>3, Frame
<1>14. QED
  BY <1>10, <1>11, <1>12, <1>13 DEF BoardsInv

(* A user leaves the board.                                                 *)
LEMMA LeaveStep ==
  ASSUME BoardsInv, NEW c \in Clients, Leave(c)
  PROVE  BoardsInv'
<1>1. TypeOK
  BY DEF BoardsInv
<1>2. page' = [page EXCEPT ![c] = "away"] /\ inbox' = [inbox EXCEPT ![c] = <<>>]
  BY DEF Leave, Unmount
<1>3. /\ page' \in [Clients -> {"away", "open", "joined"}] /\ inbox' \in [Clients -> Seq(Events)]
      /\ page'[c] = "away" /\ inbox'[c] = <<>>
      /\ \A d \in Clients \ {c} : page'[d] = page[d] /\ inbox'[d] = inbox[d]
  BY <1>1, <1>2 DEF TypeOK
<1>4. breaks' \in 0..MaxBreaks
  BY <1>1, BoardSyncAssumption DEF Leave, Unmount, TypeOK
<1>5. astray' = [astray EXCEPT ![c] = astray[c] \cup {i \in Issues : Announced(c, i)}]
  BY DEF Leave
<1>6. /\ astray' \in [Clients -> SUBSET Issues]
      /\ astray'[c] = astray[c] \cup {i \in Issues : Announced(c, i)}
      /\ \A d \in Clients \ {c} : astray'[d] = astray[d]
  BY <1>1, <1>5 DEF TypeOK
<1>7. TypeOK'
  BY <1>1, <1>3, <1>4, <1>6 DEF Leave, TypeOK
<1>8. PagesRight'
  BY <1>3 DEF Leave, PagesRight, BoardsInv, Shown
<1>9. RequestsRight'
  BY <1>3 DEF Leave, BoardsInv, RequestsRight, Busy
<1>10. ASSUME NEW d \in Clients, NEW i \in Issues, i \notin astray'[d] PROVE Right(d, i)'
  <2>1. Right(d, i)
    BY <1>6, <1>10 DEF BoardsInv
  <2>2. CASE d # c
    <3>1. SameNews(d, i) /\ (Dropped(d, i)' <=> Dropped(d, i))
      BY <1>3, <2>2, NothingMoves DEF Leave
    <3>2. Covered(d, i)
      BY <3>1 DEF Leave, Covered
    <3>3. QED
      BY <2>1, <3>1, <3>2, Frame
  <2>3. CASE d = c
    <3>1. ~Announced(c, i) /\ ~Announced(c, i)'
      <4>1. ~Announced(c, i)
        BY <1>6, <1>10, <2>3
      <4>2. ~Announced(c, i)'
        BY <1>3 DEF Announced
      <4>3. QED
        BY <4>1, <4>2
    <3>2. rows' = rows /\ req' = req /\ query' = query /\ cache' = cache
      BY DEF Leave
    <3>3. /\ \A r \in Requests : Committed(r, i)' <=> Committed(r, i)
          /\ Pending(i)' <=> Pending(i)
          /\ Dropped(c, i)' <=> Dropped(c, i)
          /\ Live(i)' <=> Live(i)
          /\ Board'[i] = Board[i]
      BY <3>2 DEF Committed, Pending, Dropped, About, Busy, Live, Board
    <3>4. ~WillFetch(c, i)' => ~WillFetch(c, i)
      BY <3>1, <3>2, <3>3 DEF WillFetch, Announced
    <3>5. LastIsRight(c, i)' /\ GoneOrBack(c, i)'
      <4>1. LastIsRight(c, i)'
        BY <2>1, <2>3, <3>1, <3>2, <3>3 DEF LastIsRight, Right, Announced, Tells, EventOf
      <4>2. GoneOrBack(c, i)'
        BY <3>1 DEF GoneOrBack, Announced
      <4>3. QED
        BY <4>1, <4>2
    <3>6. FetchIsRight(c, i)' /\ CacheIsRight(c, i)'
      BY <2>1, <2>3, <3>1, <3>2, <3>3 DEF FetchIsRight, CacheIsRight, Right
    <3>7. Present(c, i)'
      BY <2>1, <2>3, <3>2, <3>3, <3>4 DEF Present, Right
    <3>8. QED
      BY <2>3, <3>5, <3>6, <3>7 DEF Right
  <2>4. QED
    BY <2>2, <2>3
<1>11. QED
  BY <1>7, <1>8, <1>9, <1>10 DEF BoardsInv

(* A user comes back to the board.                                          *)
LEMMA ReturnStep ==
  ASSUME BoardsInv, NEW c \in Clients, Return(c)
  PROVE  BoardsInv'
<1>1. TypeOK /\ query[c] \in Queries
  BY QueryType DEF BoardsInv
<1>2. PICK f \in IF query[c].fetch # "none" THEN {query[c].fetch}
                 ELSE IF query[c].due THEN {"sent"} ELSE {"none", "sent"} :
        query' = [query EXCEPT ![c] = [query[c] EXCEPT !.fetch = f]]
  BY DEF Return
<1>3. /\ f \in {"none", "sent", "served"}
      /\ f = "sent" \/ f = query[c].fetch
      /\ f = "none" => ~query[c].due
  BY <1>1, <1>2 DEF Queries
<1>4. [query[c] EXCEPT !.fetch = f] \in Queries
  BY <1>1, <1>3 DEF Queries
<1>5. /\ query' \in [Clients -> Queries]
      /\ query'[c] = [query[c] EXCEPT !.fetch = f]
      /\ \A d \in Clients \ {c} : query'[d] = query[d]
  BY <1>1, <1>2, <1>4 DEF TypeOK
<1>6. /\ query'[c].fetch = f /\ query'[c].board = query[c].board
      /\ query'[c].due = query[c].due /\ query'[c].failed = query[c].failed
  BY <1>1, <1>5 DEF Queries
<1>7. /\ page' \in [Clients -> {"away", "open", "joined"}]
      /\ page[c] = "away" /\ page'[c] = "open" /\ \A d \in Clients \ {c} : page'[d] = page[d]
  BY <1>1 DEF Return, TypeOK
<1>8. TypeOK'
  BY <1>1, <1>5, <1>7 DEF Return, TypeOK
<1>9. PagesRight'
  <2>1. SUFFICES ASSUME NEW d \in Clients
                 PROVE  /\ inbox'[d] # <<>> => page'[d] = "joined"
                        /\ page'[d] = "joined" => ~query'[d].failed
                        /\ page'[d] # "away" /\ ~query'[d].failed /\ query'[d].due => query'[d].fetch # "none"
    BY DEF PagesRight, Shown
  <2>2. inbox' = inbox /\ (inbox[d] # <<>> => page[d] = "joined")
    BY DEF Return, PagesRight, BoardsInv
  <2>3. CASE d = c
    BY <1>3, <1>6, <1>7, <2>2, <2>3
  <2>4. CASE d # c
    BY <1>5, <1>7, <2>2, <2>4 DEF PagesRight, BoardsInv, Shown
  <2>5. QED
    BY <2>3, <2>4
<1>10. RequestsRight'
  BY PagesStay DEF Return
<1>11. ASSUME NEW d \in Clients, NEW i \in Issues, i \notin astray'[d] PROVE Right(d, i)'
  <2>1. SameNews(d, i) /\ (Dropped(d, i)' <=> Dropped(d, i)) /\ Right(d, i)
    BY <1>11, NothingMoves DEF Return, BoardsInv
  <2>2. CASE d # c
    BY <1>5, <2>1, <2>2, Frame DEF Return, Covered
  <2>3. CASE d = c
    BY <1>3, <1>6, <2>1, <2>3, Frame DEF Return, Covered
  <2>4. QED
    BY <2>2, <2>3
<1>12. QED
  BY <1>8, <1>9, <1>10, <1>11 DEF BoardsInv

(* The board is in the room.                                                *)
LEMMA JoinStep ==
  ASSUME BoardsInv, NEW c \in Clients, Join(c)
  PROVE  BoardsInv'
<1>1. TypeOK
  BY DEF BoardsInv
<1>2. /\ page' \in [Clients -> {"away", "open", "joined"}]
      /\ page[c] = "open" /\ page'[c] = "joined" /\ \A d \in Clients \ {c} : page'[d] = page[d]
  BY <1>1 DEF Join, TypeOK
<1>3. TypeOK'
  BY <1>1, <1>2 DEF Join, TypeOK
<1>4. PagesRight'
  BY <1>2 DEF Join, PagesRight, BoardsInv, Shown
<1>5. RequestsRight'
  BY PagesStay DEF Join
<1>6. ASSUME NEW d \in Clients, NEW i \in Issues, i \notin astray'[d] PROVE Right(d, i)'
  <2>1. SameNews(d, i) /\ (Dropped(d, i)' <=> Dropped(d, i)) /\ Right(d, i)
    BY <1>6, NothingMoves DEF Join, BoardsInv
  <2>2. Covered(d, i)
    BY <2>1 DEF Join, Covered
  <2>3. QED
    BY <2>1, <2>2, Frame
<1>7. QED
  BY <1>3, <1>4, <1>5, <1>6 DEF BoardsInv

(* A request is sent: there is no news yet, and what was dropped stays so.  *)
LEMMA SendEffect ==
  ASSUME BoardsInv,
         NEW by \in Clients \cup {Elsewhere}, NEW kind \in {"move", "update", "create", "delete"},
         NEW i \in Issues \cup {NoCard}, NEW s \in Statuses \cup {NoCard}, NEW o \in Int,
         kind = "create" => i = NoCard, kind # "create" => i \in Issues, kind # "delete" => s \in Statuses,
         Send(by, kind, i, s, o)
  PROVE  /\ UNCHANGED <<rows, inbox, page, astray, breaks>>
         /\ req' \in [Requests -> Asked \cup {NoOne}] /\ started' \in 0..MaxRequests
         /\ RequestsRight'
         /\ \A d \in Clients, j \in Issues : SameNews(d, j) /\ (Dropped(d, j) => Dropped(d, j)')
         /\ by \in Clients /\ kind = "move" => Dropped(by, i)'
<1>1. /\ TypeOK /\ RequestsRight /\ NoOne \notin Asked
      /\ UNCHANGED <<rows, inbox, page, astray, breaks>> /\ started' = started + 1 /\ started < MaxRequests
  BY BoardSyncAssumption DEF BoardsInv, Send
<1>2. PICK q : q = [by |-> by, kind |-> kind, issue |-> i, status |-> s, order |-> o, stage |-> "sent"]
  OBVIOUS
<1>3. q \in Asked /\ q # NoOne
  BY <1>1, <1>2 DEF Asked, Stages
<1>4. q.by = by /\ q.kind = kind /\ q.issue = i /\ q.status = s /\ q.stage = "sent"
  BY <1>2
<1>5. PICK r \in Requests : req[r] = NoOne /\ req' = [req EXCEPT ![r] = q]
  BY <1>2 DEF Send, Busy
<1>6. /\ req' \in [Requests -> Asked \cup {NoOne}] /\ req'[r] = q
      /\ \A p \in Requests \ {r} : req'[p] = req[p]
  BY <1>1, <1>3, <1>5 DEF TypeOK
<1>7. started' \in 0..MaxRequests
  BY <1>1, BoardSyncAssumption DEF TypeOK
<1>8. RequestsRight'
  <2>1. ASSUME NEW p \in Requests, req'[p] # NoOne
        PROVE  /\ req'[p].stage \in {"committed", "emitted"} => req'[p].issue \in Issues
               /\ req'[p].kind = "create" /\ req'[p].stage \in {"sent", "read", "rejected"} => req'[p].issue = NoCard
               /\ req'[p].kind # "create" => req'[p].issue \in Issues
               /\ req'[p].kind # "delete" => req'[p].status \in Statuses
    <3>1. CASE p = r
      BY <1>4, <1>6, <3>1
    <3>2. CASE p # r
      <4>1. req'[p] = req[p]
        BY <1>6, <3>2
      <4>2. QED
        BY <1>1, <2>1, <4>1 DEF RequestsRight, Busy
    <3>3. QED
      BY <3>1, <3>2
  <2>2. QED
    BY <2>1 DEF RequestsRight, Busy
<1>9. ASSUME NEW d \in Clients, NEW j \in Issues PROVE SameNews(d, j) /\ (Dropped(d, j) => Dropped(d, j)')
  <2>1. \A p \in Requests : /\ Committed(p, j)' <=> Committed(p, j)
                            /\ Committed(p, j) => req'[p] = req[p]
    BY <1>4, <1>5, <1>6 DEF Committed, About, Busy
  <2>2. Dropped(d, j) => Dropped(d, j)'
    BY <1>5, <1>6 DEF Dropped, About, Busy
  <2>3. QED
    BY <1>1, <2>1, <2>2 DEF SameNews
<1>10. by \in Clients /\ kind = "move" => Dropped(by, i)'
  BY <1>3, <1>4, <1>6 DEF Dropped, About, Busy
<1>11. QED
  BY <1>1, <1>6, <1>7, <1>8, <1>9, <1>10

(* A request that leaves the board of its sender alone.                     *)
LEMMA SentStep ==
  ASSUME BoardsInv,
         NEW by \in Clients \cup {Elsewhere}, NEW kind \in {"move", "update", "create", "delete"},
         NEW i \in Issues \cup {NoCard}, NEW s \in Statuses \cup {NoCard}, NEW o \in Int,
         kind = "create" => i = NoCard, kind # "create" => i \in Issues, kind # "delete" => s \in Statuses,
         Send(by, kind, i, s, o), UNCHANGED <<cache, query>>
  PROVE  BoardsInv'
<1>1. /\ UNCHANGED <<rows, inbox, page, astray, breaks>>
      /\ req' \in [Requests -> Asked \cup {NoOne}] /\ started' \in 0..MaxRequests
      /\ RequestsRight'
      /\ \A d \in Clients, j \in Issues : SameNews(d, j) /\ (Dropped(d, j) => Dropped(d, j)')
  BY SendEffect
<1>2. TypeOK'
  BY <1>1 DEF BoardsInv, TypeOK
<1>3. PagesRight'
  BY <1>1 DEF BoardsInv, PagesRight, Shown
<1>4. ASSUME NEW d \in Clients, NEW j \in Issues, j \notin astray'[d] PROVE Right(d, j)'
  <2>1. Right(d, j) /\ SameNews(d, j)
    BY <1>1, <1>4 DEF BoardsInv
  <2>2. Covered(d, j)
    BY <1>1 DEF Covered
  <2>3. QED
    BY <2>1, <2>2, Frame
<1>5. QED
  BY <1>1, <1>2, <1>3, <1>4 DEF BoardsInv

(* An issue is updated in its drawer.                                       *)
LEMMA UpdateStep ==
  ASSUME BoardsInv, NEW c \in Clients, NEW i \in Issues, NEW s \in Statuses, Update(c, i, s)
  PROVE  BoardsInv'
<1>1. Send(c, "update", i, s, 0) /\ UNCHANGED <<cache, query>>
  BY DEF Update
<1>2. QED
  BY <1>1, SentStep

(* An issue is added to a column.                                           *)
LEMMA CreateStep ==
  ASSUME BoardsInv, NEW c \in Clients, NEW s \in Statuses, Create(c, s)
  PROVE  BoardsInv'
<1>1. Send(c, "create", NoCard, s, 0) /\ UNCHANGED <<cache, query>>
  BY DEF Create
<1>2. QED
  BY <1>1, SentStep

(* Somebody else sends a request.                                           *)
LEMMA SendElsewhereStep ==
  ASSUME BoardsInv, SendElsewhere
  PROVE  BoardsInv'
<1>1. UNCHANGED <<cache, query>>
  BY DEF SendElsewhere
<1>2. CASE \E s \in Statuses : Send(Elsewhere, "create", NoCard, s, 0)
  BY <1>1, <1>2, SentStep
<1>3. ASSUME NEW i \in Issues, NEW s \in Statuses, NEW o \in Orders, Send(Elsewhere, "move", i, s, o) PROVE BoardsInv'
  <2>1. o \in Int
    BY BoardSyncAssumption
  <2>2. QED
    BY <1>1, <1>3, <2>1, SentStep
<1>4. ASSUME NEW i \in Issues, NEW s \in Statuses, Send(Elsewhere, "update", i, s, 0) PROVE BoardsInv'
  BY <1>1, <1>4, SentStep
<1>5. ASSUME NEW i \in Issues, Send(Elsewhere, "delete", i, NoCard, 0) PROVE BoardsInv'
  BY <1>1, <1>5, SentStep
<1>6. QED
  BY <1>2, <1>3, <1>4, <1>5 DEF SendElsewhere

(* A card is dropped.                                                       *)
LEMMA DropStep ==
  ASSUME BoardsInv, NEW c \in Clients, NEW i \in Issues, NEW s \in Statuses, Drop(c, i, s)
  PROVE  BoardsInv'
<1>1. PICK list \in Listings(cache[c], s), index \in 0..Cardinality(Issues) :
        LET o == NewOrder(cache[c], Without(list, i), index)
        IN  Patch(c, [cache[c] EXCEPT ![i] = [status |-> s, order |-> o]]) /\ Send(c, "move", i, s, o)
  BY DEF Drop
<1>2. PICK o : o = NewOrder(cache[c], Without(list, i), index)
  OBVIOUS
<1>3. o \in Int
  <2>1. index \in Int
    BY ColumnType
  <2>2. QED
    BY <1>2, <2>1, NewOrderType
<1>4. PICK b : b = [cache[c] EXCEPT ![i] = [status |-> s, order |-> o]]
  OBVIOUS
<1>5. TypeOK /\ cache[c] \in Boards /\ Shown(c)
  BY DEF BoardsInv, TypeOK, Drop
<1>6. b \in Boards /\ b[i] \in Card /\ \A j \in Issues \ {i} : b[j] = cache[c][j]
  BY <1>3, <1>4, <1>5 DEF Boards, Card
<1>7. Patch(c, b) /\ Send(c, "move", i, s, o)
  BY <1>1, <1>2, <1>4
<1>8. /\ cache' \in [Clients -> Boards] /\ cache'[c] = b
      /\ query' \in [Clients -> Queries]
      /\ \A d \in Clients \ {c} : query'[d] = query[d] /\ cache'[d] = cache[d]
      /\ ~query'[c].due /\ query'[c].failed = query[c].failed
      /\ query'[c].fetch = query[c].fetch /\ query'[c].board = query[c].board
  BY <1>5, <1>6, <1>7, PatchEffect
<1>9. /\ UNCHANGED <<rows, inbox, page, astray, breaks>>
      /\ req' \in [Requests -> Asked \cup {NoOne}] /\ started' \in 0..MaxRequests
      /\ RequestsRight'
      /\ \A d \in Clients, j \in Issues : SameNews(d, j) /\ (Dropped(d, j) => Dropped(d, j)')
      /\ Dropped(c, i)'
  BY <1>3, <1>7, SendEffect
<1>10. TypeOK'
  BY <1>5, <1>8, <1>9 DEF TypeOK
<1>11. PagesRight'
  <2>1. SUFFICES ASSUME NEW d \in Clients
                 PROVE  /\ inbox'[d] # <<>> => page'[d] = "joined"
                        /\ page'[d] = "joined" => ~query'[d].failed
                        /\ page'[d] # "away" /\ ~query'[d].failed /\ query'[d].due => query'[d].fetch # "none"
    BY DEF PagesRight, Shown
  <2>2. inbox' = inbox /\ page' = page
    BY <1>9
  <2>3. CASE d = c
    BY <1>8, <2>2, <2>3 DEF PagesRight, BoardsInv
  <2>4. CASE d # c
    BY <1>8, <2>2, <2>4 DEF PagesRight, BoardsInv, Shown
  <2>5. QED
    BY <2>3, <2>4
<1>12. ASSUME NEW d \in Clients, NEW j \in Issues, j \notin astray'[d] PROVE Right(d, j)'
  <2>1. Right(d, j) /\ SameNews(d, j) /\ (Dropped(d, j) => Dropped(d, j)')
    BY <1>9, <1>12 DEF BoardsInv
  <2>2. CASE d # c
    BY <1>8, <2>1, <2>2, Frame DEF Covered
  <2>3. CASE d = c /\ j # i
    <3>1. query[c].fetch = "none" => ~query[c].due
      BY <1>5 DEF BoardsInv, PagesRight
    <3>2. Covered(c, j)
      BY <1>6, <1>8, <2>1, <2>3, <3>1 DEF Covered
    <3>3. QED
      BY <2>1, <2>3, <3>2, Frame
  <2>4. CASE d = c /\ j = i
    <3>1. /\ Pending(i)' <=> Pending(i)
          /\ Announced(c, i)' <=> Announced(c, i)
          /\ WillFetch(c, i)' <=> WillFetch(c, i)
          /\ Live(i)' <=> Live(i)
          /\ Board'[i] = Board[i]
          /\ LastIsRight(c, i)' /\ GoneOrBack(c, i)'
      BY <2>1, <2>4, NewsStay DEF Right
    <3>2. FetchIsRight(c, i)'
      BY <1>8, <2>1, <2>4, <3>1 DEF FetchIsRight, Right
    <3>3. CacheIsRight(c, i)'
      BY <1>9 DEF CacheIsRight
    <3>4. Present(c, i)'
      BY <1>6, <1>8, <2>1, <2>4, <3>1 DEF Present, Right
    <3>5. QED
      BY <2>4, <3>1, <3>2, <3>3, <3>4 DEF Right
  <2>5. QED
    BY <2>2, <2>3, <2>4
<1>13. QED
  BY <1>9, <1>10, <1>11, <1>12 DEF BoardsInv

(* A request reads its issue: what was dropped still is.                    *)
LEMMA ReadStep ==
  ASSUME BoardsInv, NEW r \in Requests, Read(r)
  PROVE  BoardsInv'
<1>1. TypeOK /\ RequestsRight /\ Busy(r) /\ req[r].stage = "sent" /\ req[r].kind # "create"
      /\ req[r] \in Asked /\ req[r].order \in Int /\ Live(req[r].issue) /\ req[r].issue \in Issues
  BY AskedType DEF BoardsInv, Read, RequestsRight
<1>2. PICK o, q : /\ o = IF req[r].kind = "update" THEN rows[req[r].issue].order ELSE req[r].order
                  /\ q = [req[r] EXCEPT !.stage = "read", !.order = o]
  OBVIOUS
<1>3. /\ q \in Asked /\ q # NoOne /\ q.stage = "read" /\ q.by = req[r].by /\ q.kind = req[r].kind
      /\ q.issue = req[r].issue /\ q.status = req[r].status
  <2>1. o \in Int
    BY <1>1, <1>2 DEF Live, Card
  <2>2. \A m \in Int : \A p : p = [req[r] EXCEPT !.stage = "read", !.order = m] =>
          /\ p \in Asked /\ p # NoOne /\ p.stage = "read" /\ p.issue = req[r].issue
          /\ p.by = req[r].by /\ p.kind = req[r].kind /\ p.status = req[r].status
    BY <1>1, ReadEffect
  <2>3. QED
    BY <1>2, <2>1, <2>2
<1>4. req' = [req EXCEPT ![r] = q]
  BY <1>2 DEF Read
<1>5. /\ req' \in [Requests -> Asked \cup {NoOne}] /\ req'[r] = q
      /\ \A p \in Requests \ {r} : req'[p] = req[p]
  BY <1>1, <1>3, <1>4 DEF TypeOK
<1>6. UNCHANGED <<rows, inbox, page, cache, query, astray, started, breaks>>
  BY DEF Read
<1>7. TypeOK'
  BY <1>1, <1>5, <1>6 DEF TypeOK
<1>8. PagesRight'
  BY <1>6 DEF BoardsInv, PagesRight, Shown
<1>9. RequestsRight'
  <2>1. ASSUME NEW p \in Requests, req'[p] # NoOne
        PROVE  /\ req'[p].stage \in {"committed", "emitted"} => req'[p].issue \in Issues
               /\ req'[p].kind = "create" /\ req'[p].stage \in {"sent", "read", "rejected"} => req'[p].issue = NoCard
               /\ req'[p].kind # "create" => req'[p].issue \in Issues
               /\ req'[p].kind # "delete" => req'[p].status \in Statuses
    <3>1. CASE p = r
      BY <1>1, <1>3, <1>5, <3>1 DEF RequestsRight
    <3>2. CASE p # r
      <4>1. req'[p] = req[p]
        BY <1>5, <3>2
      <4>2. QED
        BY <1>1, <1>6, <2>1, <4>1 DEF RequestsRight, Busy
    <3>3. QED
      BY <3>1, <3>2
  <2>2. QED
    BY <2>1 DEF RequestsRight, Busy
<1>10. ASSUME NEW d \in Clients, NEW i \in Issues, i \notin astray'[d] PROVE Right(d, i)'
  <2>1. Right(d, i)
    BY <1>6, <1>10 DEF BoardsInv
  <2>2. \A p \in Requests : /\ Committed(p, i)' <=> Committed(p, i)
                            /\ Committed(p, i) => req'[p] = req[p]
    BY <1>1, <1>3, <1>5 DEF Committed, About, Busy
  <2>3. Dropped(d, i) => Dropped(d, i)'
    <3>1. SUFFICES ASSUME NEW p \in Requests, About(p, i), req[p].by = d, req[p].kind = "move",
                          req[p].stage \in {"sent", "read", "rejected"}
                   PROVE  Dropped(d, i)'
      BY DEF Dropped
    <3>2. /\ req'[p] # NoOne /\ req'[p].issue = i /\ req'[p].by = d /\ req'[p].kind = "move"
          /\ req'[p].stage \in {"sent", "read", "rejected"}
      BY <1>3, <1>5, <3>1 DEF About, Busy
    <3>3. QED
      BY <3>2 DEF Dropped, About, Busy
  <2>4. SameNews(d, i) /\ Covered(d, i)
    BY <1>6, <2>2, <2>3 DEF SameNews, Covered
  <2>5. QED
    BY <2>1, <2>4, Frame
<1>11. QED
  BY <1>7, <1>8, <1>9, <1>10 DEF BoardsInv

(* A request is rejected: what was dropped still is.                        *)
LEMMA RejectStep ==
  ASSUME BoardsInv, NEW r \in Requests, Reject(r)
  PROVE  BoardsInv'
<1>1. TypeOK /\ RequestsRight /\ Busy(r) /\ req[r].stage \in {"sent", "read"} /\ req[r] \in Asked
  BY AskedType DEF BoardsInv, Reject
<1>2. PICK q : q = [req[r] EXCEPT !.stage = "rejected"]
  OBVIOUS
<1>3. /\ q \in Asked /\ q # NoOne /\ q.stage = "rejected" /\ q.by = req[r].by /\ q.kind = req[r].kind
      /\ q.issue = req[r].issue /\ q.status = req[r].status
  BY <1>1, <1>2, StageEffect DEF Stages
<1>4. req' = [req EXCEPT ![r] = q]
  BY <1>2 DEF Reject
<1>5. /\ req' \in [Requests -> Asked \cup {NoOne}] /\ req'[r] = q
      /\ \A p \in Requests \ {r} : req'[p] = req[p]
  BY <1>1, <1>3, <1>4 DEF TypeOK
<1>6. UNCHANGED <<rows, inbox, page, cache, query, astray, started, breaks>>
  BY DEF Reject
<1>7. TypeOK'
  BY <1>1, <1>5, <1>6 DEF TypeOK
<1>8. PagesRight'
  BY <1>6 DEF BoardsInv, PagesRight, Shown
<1>9. RequestsRight'
  <2>1. ASSUME NEW p \in Requests, req'[p] # NoOne
        PROVE  /\ req'[p].stage \in {"committed", "emitted"} => req'[p].issue \in Issues
               /\ req'[p].kind = "create" /\ req'[p].stage \in {"sent", "read", "rejected"} => req'[p].issue = NoCard
               /\ req'[p].kind # "create" => req'[p].issue \in Issues
               /\ req'[p].kind # "delete" => req'[p].status \in Statuses
    <3>1. CASE p = r
      BY <1>1, <1>3, <1>5, <3>1 DEF RequestsRight
    <3>2. CASE p # r
      <4>1. req'[p] = req[p]
        BY <1>5, <3>2
      <4>2. QED
        BY <1>1, <1>6, <2>1, <4>1 DEF RequestsRight, Busy
    <3>3. QED
      BY <3>1, <3>2
  <2>2. QED
    BY <2>1 DEF RequestsRight, Busy
<1>10. ASSUME NEW d \in Clients, NEW i \in Issues, i \notin astray'[d] PROVE Right(d, i)'
  <2>1. Right(d, i)
    BY <1>6, <1>10 DEF BoardsInv
  <2>2. \A p \in Requests : /\ Committed(p, i)' <=> Committed(p, i)
                            /\ Committed(p, i) => req'[p] = req[p]
    BY <1>1, <1>3, <1>5 DEF Committed, About, Busy
  <2>3. Dropped(d, i) => Dropped(d, i)'
    <3>1. SUFFICES ASSUME NEW p \in Requests, About(p, i), req[p].by = d, req[p].kind = "move",
                          req[p].stage \in {"sent", "read", "rejected"}
                   PROVE  Dropped(d, i)'
      BY DEF Dropped
    <3>2. /\ req'[p] # NoOne /\ req'[p].issue = i /\ req'[p].by = d /\ req'[p].kind = "move"
          /\ req'[p].stage \in {"sent", "read", "rejected"}
      BY <1>3, <1>5, <3>1 DEF About, Busy
    <3>3. QED
      BY <3>2 DEF Dropped, About, Busy
  <2>4. SameNews(d, i) /\ Covered(d, i)
    BY <1>6, <2>2, <2>3 DEF SameNews, Covered
  <2>5. QED
    BY <2>1, <2>4, Frame
<1>11. QED
  BY <1>7, <1>8, <1>9, <1>10 DEF BoardsInv

(* A request is over.  The sender of a drop that was rejected, or got no    *)
(* answer, has the board fetched again.                                     *)
LEMMA OverStep ==
  ASSUME BoardsInv, NEW r \in Requests, Answer(r) \/ LoseAnswer(r)
  PROVE  BoardsInv'
<1>1. TypeOK /\ RequestsRight /\ Busy(r) /\ req[r].stage \in {"emitted", "rejected"}
  BY DEF BoardsInv, Answer, LoseAnswer
<1>2. req' = [req EXCEPT ![r] = NoOne] /\ UNCHANGED <<rows, inbox, page, cache, astray, started, breaks>>
  BY DEF Answer, LoseAnswer
<1>3. /\ req' \in [Requests -> Asked \cup {NoOne}] /\ req'[r] = NoOne
      /\ \A p \in Requests \ {r} : req'[p] = req[p]
  BY <1>1, <1>2 DEF TypeOK
<1>4. \/ query' = query /\ ~(req[r].kind = "move" /\ req[r].stage = "rejected" /\ req[r].by \in Clients)
      \/ req[r].by \in Clients /\ query' = Invalidated(req[r].by)
  BY DEF Answer, LoseAnswer, Refetches
<1>5. ASSUME NEW d \in Clients
      PROVE  /\ query'[d] \in Queries /\ query'[d].failed = query[d].failed
             /\ query'[d] = query[d] \/ query'[d].due
             /\ query'[d].fetch = "sent" \/ (query'[d].fetch = query[d].fetch /\ query'[d].board = query[d].board)
             /\ page[d] # "away" /\ query'[d] # query[d] => query'[d].fetch = "sent"
             /\ query'[d] = query[d] => query'[d].fetch = "sent" \/ query'[d].due
                                        \/ ~(req[r].kind = "move" /\ req[r].stage = "rejected" /\ req[r].by = d)
  <2>1. query[d] \in Queries
    BY <1>1 DEF TypeOK
  <2>2. CASE query' = query /\ ~(req[r].kind = "move" /\ req[r].stage = "rejected" /\ req[r].by \in Clients)
    BY <2>1, <2>2
  <2>3. CASE req[r].by \in Clients /\ query' = Invalidated(req[r].by)
    <3>1. PICK c \in Clients : c = req[r].by
      BY <2>3
    <3>2. /\ query' \in [Clients -> Queries]
          /\ \A e \in Clients \ {c} : query'[e] = query[e]
          /\ query'[c].due /\ query'[c].failed = query[c].failed
          /\ page[c] # "away" => query'[c].fetch = "sent"
          /\ page[c] = "away" => query'[c].fetch = query[c].fetch /\ query'[c].board = query[c].board
      BY <1>1, <2>3, <3>1, InvalidatedEffect
    <3>3. CASE d = c
      BY <3>2, <3>3
    <3>4. CASE d # c
      BY <3>1, <3>2, <3>4
    <3>5. QED
      BY <3>3, <3>4
  <2>4. QED
    BY <1>4, <2>2, <2>3
<1>6. query' \in [Clients -> Queries]
  <2>1. query' \in [Clients -> Queries] \/ query' = query
    BY <1>1, <1>4, InvalidatedEffect
  <2>2. QED
    BY <1>1, <2>1 DEF TypeOK
<1>7. TypeOK'
  BY <1>1, <1>2, <1>3, <1>6 DEF TypeOK
<1>8. PagesRight'
  <2>1. SUFFICES ASSUME NEW d \in Clients
                 PROVE  /\ inbox'[d] # <<>> => page'[d] = "joined"
                        /\ page'[d] = "joined" => ~query'[d].failed
                        /\ page'[d] # "away" /\ ~query'[d].failed /\ query'[d].due => query'[d].fetch # "none"
    BY DEF PagesRight, Shown
  <2>2. inbox' = inbox /\ page' = page
    BY <1>2
  <2>3. QED
    BY <1>5, <2>2 DEF PagesRight, BoardsInv, Shown
<1>9. RequestsRight'
  <2>1. \A p \in Requests : req'[p] # NoOne => req'[p] = req[p]
    BY <1>3
  <2>2. QED
    BY <1>1, <2>1 DEF RequestsRight, Busy
<1>10. ASSUME NEW d \in Clients, NEW i \in Issues, i \notin astray'[d] PROVE Right(d, i)'
  <2>1. Right(d, i)
    BY <1>2, <1>10 DEF BoardsInv
  <2>2. \A p \in Requests : /\ Committed(p, i)' <=> Committed(p, i)
                            /\ Committed(p, i) => req'[p] = req[p]
    BY <1>1, <1>3 DEF Committed, About, Busy
  <2>3. SameNews(d, i) /\ cache' = cache
    BY <1>2, <2>2 DEF SameNews
  <2>4. CASE query'[d].fetch = "sent"
    BY <2>1, <2>3, <2>4, Frame DEF Covered
  <2>5. CASE query'[d].fetch # "sent"
    <3>1. query'[d].fetch = query[d].fetch /\ query'[d].board = query[d].board
      BY <1>5, <2>5
    <3>2. query'[d].due \/ ~query[d].due
      BY <1>5
    <3>3. query'[d].due \/ (Dropped(d, i) => Dropped(d, i)')
      <4>1. SUFFICES ASSUME ~query'[d].due, NEW p \in Requests, About(p, i), req[p].by = d, req[p].kind = "move",
                            req[p].stage \in {"sent", "read", "rejected"}
                     PROVE  Dropped(d, i)'
        BY DEF Dropped
      <4>2. p # r
        BY <1>1, <1>5, <2>5, <4>1
      <4>3. req'[p] = req[p]
        BY <1>3, <4>2
      <4>4. QED
        BY <4>1, <4>3 DEF Dropped, About, Busy
    <3>4. Covered(d, i)
      BY <2>3, <3>1, <3>2, <3>3 DEF Covered
    <3>5. QED
      BY <2>1, <2>3, <3>4, Frame
  <2>6. QED
    BY <2>4, <2>5
<1>11. QED
  BY <1>7, <1>8, <1>9, <1>10 DEF BoardsInv

(* A request takes effect.  Its issue is announced next, or is astray.      *)
LEMMA CommitStep ==
  ASSUME BoardsInv, NEW r \in Requests, Commit(r)
  PROVE  BoardsInv'
<1>1. /\ TypeOK /\ RequestsRight /\ Busy(r) /\ req[r] \in Asked
      /\ req[r].stage = (IF req[r].kind = "create" THEN "sent" ELSE "read")
  BY AskedType DEF BoardsInv, Commit
<1>2. PICK o \in Outcomes(r) :
        /\ rows' = o.rows
        /\ req' = [req EXCEPT ![r] = [req[r] EXCEPT !.stage = "committed", !.issue = o.issue]]
        /\ astray' = [c \in Clients |-> astray[c] \cup Untold(r, o.issue, o.rows)]
  BY ZenonT(60) DEF Commit
<1>3. PICK x, t : x = o.issue /\ t = o.rows
  OBVIOUS
<1>4. /\ x \in Issues /\ t \in Table
      /\ req[r].kind = "create" => rows[x] = NoCard /\ t[x] \in Card
      /\ req[r].kind # "create" => x = req[r].issue
      /\ req[r].kind = "delete" => t = [rows EXCEPT ![x] = Removed]
      /\ req[r].kind # "delete" => t[x] \in Card
      /\ req[r].kind = "move" => t[x].status = req[r].status
      /\ \A j \in Issues \ {x} : t[j] # rows[j] => rows[j] \in Card /\ t[j] \in Card
  BY <1>1, <1>3, OutcomeEffect
<1>5. PICK q : q = [req[r] EXCEPT !.stage = "committed", !.issue = x]
  OBVIOUS
<1>6. /\ q \in Asked /\ q # NoOne /\ q.stage = "committed" /\ q.issue = x
      /\ q.by = req[r].by /\ q.kind = req[r].kind /\ q.status = req[r].status /\ q.order = req[r].order
  <2>1. \A i \in Issues : \A p : p = [req[r] EXCEPT !.stage = "committed", !.issue = i] =>
          /\ p \in Asked /\ p # NoOne /\ p.stage = "committed" /\ p.issue = i
          /\ p.by = req[r].by /\ p.kind = req[r].kind /\ p.status = req[r].status /\ p.order = req[r].order
    BY <1>1, CommitEffect
  <2>2. QED
    BY <1>4, <1>5, <2>1
<1>7. rows' = t /\ req' = [req EXCEPT ![r] = q]
  BY <1>2, <1>3, <1>5
<1>8. /\ req' \in [Requests -> Asked \cup {NoOne}] /\ req'[r] = q
      /\ \A p \in Requests \ {r} : req'[p] = req[p]
  BY <1>1, <1>6, <1>7 DEF TypeOK
<1>9. UNCHANGED <<inbox, page, cache, query, started, breaks>>
  BY DEF Commit
<1>10. ASSUME NEW c \in Clients
       PROVE  /\ astray'[c] = astray[c] \cup Untold(r, x, t)
              /\ astray'[c] \in SUBSET Issues
  <2>1. astray'[c] = astray[c] \cup Untold(r, x, t)
    BY <1>2, <1>3
  <2>2. Untold(r, x, t) \subseteq Issues
    BY <1>4 DEF Untold
  <2>3. QED
    BY <1>1, <2>1, <2>2 DEF TypeOK
<1>11. TypeOK'
  <2>1. astray' \in [Clients -> SUBSET Issues]
    BY <1>2, <1>10
  <2>2. rows' \in [Issues -> Card \cup {NoCard, Removed}]
    BY <1>4, <1>7 DEF Table
  <2>3. QED
    BY <1>1, <1>8, <1>9, <2>1, <2>2 DEF TypeOK
<1>12. PagesRight'
  BY <1>9 DEF BoardsInv, PagesRight, Shown
<1>13. RequestsRight'
  <2>1. ASSUME NEW p \in Requests, req'[p] # NoOne
        PROVE  /\ req'[p].stage \in {"committed", "emitted"} => req'[p].issue \in Issues
               /\ req'[p].kind = "create" /\ req'[p].stage \in {"sent", "read", "rejected"} => req'[p].issue = NoCard
               /\ req'[p].kind # "create" => req'[p].issue \in Issues
               /\ req'[p].kind # "delete" => req'[p].status \in Statuses
    <3>1. CASE p = r
      <4>1. req[r].kind # "delete" => req[r].status \in Statuses
        BY <1>1 DEF RequestsRight
      <4>2. QED
        BY <1>4, <1>6, <1>7, <1>8, <3>1, <4>1
    <3>2. CASE p # r
      <4>1. req'[p] = req[p] /\ req[p] # NoOne
        BY <1>8, <2>1, <3>2
      <4>2. QED
        BY <1>1, <4>1 DEF RequestsRight, Busy
    <3>3. QED
      BY <3>1, <3>2
  <2>2. QED
    BY <2>1 DEF RequestsRight, Busy
<1>14. ASSUME NEW d \in Clients, NEW i \in Issues, i \notin astray'[d] PROVE Right(d, i)'
  <2>1. Right(d, i) /\ i \notin Untold(r, x, t)
    BY <1>10, <1>14 DEF BoardsInv
  <2>2. Dropped(d, i) /\ i # x => Dropped(d, i)'
    <3>1. SUFFICES ASSUME i # x, NEW p \in Requests, About(p, i), req[p].by = d, req[p].kind = "move",
                          req[p].stage \in {"sent", "read", "rejected"}
                   PROVE  Dropped(d, i)'
      BY DEF Dropped
    <3>2. p # r
      BY <1>4, <3>1 DEF About
    <3>3. req'[p] = req[p]
      BY <1>8, <3>2
    <3>4. QED
      BY <3>1, <3>3 DEF Dropped, About, Busy
  <2>3. CASE i # x
    <3>1. rows'[i] = rows[i]
      BY <1>7, <2>1, <2>3 DEF Untold
    <3>2. \A p \in Requests : /\ Committed(p, i)' <=> Committed(p, i)
                              /\ Committed(p, i) => req'[p] = req[p]
      BY <1>1, <1>6, <1>8, <2>3 DEF Committed, About, Busy
    <3>3. SameNews(d, i) /\ Covered(d, i)
      BY <1>9, <2>2, <2>3, <3>1, <3>2 DEF SameNews, Covered
    <3>4. QED
      BY <2>1, <3>3, Frame
  <2>4. CASE i = x
    <3>1. ASSUME NEW p \in Requests, Committed(p, i)' \/ Committed(p, i) PROVE p = r
      <4>1. SUFFICES ASSUME p # r PROVE FALSE
        OBVIOUS
      <4>2. req'[p] = req[p]
        BY <1>8, <4>1
      <4>3. Busy(p) /\ req[p].issue = x /\ req[p].stage = "committed"
        BY <2>4, <3>1, <4>2 DEF Committed, About, Busy
      <4>4. QED
        BY <1>4, <2>1, <2>4, <4>3 DEF Untold
    <3>2. Committed(r, i)' /\ ~Committed(r, i)
      BY <1>1, <1>6, <1>8, <2>4 DEF Committed, About, Busy
    <3>3. Pending(i)'
      BY <3>2 DEF Pending
    <3>4. Tells(EventOf(req[r]), i)'
      <4>1. req[r].kind # "delete" => req[r].status \in Statuses
        BY <1>1 DEF RequestsRight
      <4>2. /\ EventOf(q).type = "moved" => q.kind = "move" /\ EventOf(q).status = q.status /\ EventOf(q).order = q.order
            /\ EventOf(q).type = "deleted" => q.kind = "delete"
        BY <1>4, <1>6, <4>1, EventOfType
      <4>3. q.kind = "move" => t[x] = [status |-> q.status, order |-> q.order]
        <5>1. q.kind = "move" => t[x] \in Card /\ t[x].status = q.status
          BY <1>4, <1>6
        <5>2. q.kind = "move" => t[x].order = q.order
          BY <1>6, <2>1, <2>4 DEF Untold
        <5>3. QED
          BY <5>1, <5>2 DEF Card
      <4>4. q.kind = "delete" => t[x] = Removed
        BY <1>1, <1>4, <1>6 DEF TypeOK
      <4>5. EventOf(q).type = "moved" => rows'[i] = [status |-> EventOf(q).status, order |-> EventOf(q).order]
        BY <1>7, <2>4, <4>2, <4>3
      <4>6. EventOf(q).type = "deleted" => rows'[i] = Removed
        BY <1>7, <2>4, <4>2, <4>4
      <4>7. EventOf(req'[r]) = EventOf(q)
        BY <1>8
      <4>8. QED
        BY <4>5, <4>6, <4>7 DEF Tells
    <3>5. LastIsRight(d, i)'
      <4>1. \A p \in Requests : Committed(p, i)' => Tells(EventOf(req[p]), i)'
        <5>1. SUFFICES ASSUME NEW p \in Requests, Committed(p, i)' PROVE Tells(EventOf(req[p]), i)'
          OBVIOUS
        <5>2. p = r
          BY <3>1, <5>1
        <5>3. QED
          BY <3>4, <5>2
      <4>2. QED
        BY <3>3, <4>1 DEF LastIsRight
    <3>6. FetchIsRight(d, i)' /\ CacheIsRight(d, i)'
      BY <3>3 DEF FetchIsRight, CacheIsRight
    <3>7. Live(i)' /\ ~WillFetch(d, i)' => Live(i) /\ ~WillFetch(d, i)
      <4>1. SUFFICES ASSUME Live(i)', ~WillFetch(d, i)' PROVE Live(i) /\ ~WillFetch(d, i)
        OBVIOUS
      <4>2. req[r].kind \notin {"create", "update"}
        BY <1>6, <1>8, <3>2, <4>1 DEF WillFetch
      <4>3. Live(i)
        <5>1. req[r].kind \in {"move", "delete"}
          BY <1>1, <4>2 DEF Asked
        <5>2. req[r].kind = "move" => Live(i)
          BY <2>1, <2>4 DEF Untold
        <5>3. req[r].kind = "delete" => t[x] = Removed
          BY <1>1, <1>4 DEF TypeOK
        <5>4. t[x] # Removed
          BY <1>7, <2>4, <4>1, BoardSyncAssumption DEF Live
        <5>5. QED
          BY <5>1, <5>2, <5>3, <5>4
      <4>4. \A p \in Requests : ~Committed(p, i)
        BY <3>1, <3>2
      <4>5. QED
        BY <1>9, <4>1, <4>3, <4>4 DEF WillFetch
    <3>8. Present(d, i)'
      BY <1>9, <2>1, <3>7 DEF Present, Right
    <3>9. GoneOrBack(d, i)'
      <4>1. SUFFICES ASSUME NEW n \in DOMAIN inbox[d], inbox[d][n].issue = i, inbox[d][n].type = "deleted",
                            ~\E m \in DOMAIN inbox[d] : m > n /\ inbox[d][m].issue = i /\ inbox[d][m].type = "updated",
                            req[r].kind # "update"
                     PROVE  t[i] = Removed
        BY <1>6, <1>7, <1>8, <1>9, <3>2 DEF GoneOrBack
      <4>2. \A p \in Requests : ~Committed(p, i)
        BY <3>1, <3>2
      <4>3. rows[i] = Removed
        BY <2>1, <4>1, <4>2 DEF Right, GoneOrBack
      <4>4. NoCard # Removed /\ Removed \notin Card
        BY BoardSyncAssumption
      <4>5. req[r].kind \notin {"create", "move"}
        BY <1>4, <2>1, <2>4, <4>3, <4>4 DEF Untold, Live
      <4>6. req[r].kind = "delete"
        BY <1>1, <4>1, <4>5 DEF Asked
      <4>7. QED
        BY <1>1, <1>4, <2>4, <4>6 DEF TypeOK
    <3>10. QED
      BY <3>5, <3>6, <3>8, <3>9 DEF Right
  <2>5. QED
    BY <2>3, <2>4
<1>15. QED
  BY <1>11, <1>12, <1>13, <1>14 DEF BoardsInv

(* An event is emitted to those in the room; the others are astray.         *)
LEMMA EmitStep ==
  ASSUME BoardsInv, NEW r \in Requests, Emit(r)
  PROVE  BoardsInv'
<1>1. TypeOK /\ RequestsRight /\ Busy(r) /\ req[r].stage = "committed" /\ req[r] \in Asked
  BY AskedType DEF BoardsInv, Emit
<1>2. PICK x, e : x = req[r].issue /\ e = EventOf(req[r])
  OBVIOUS
<1>3. x \in Issues /\ (req[r].kind # "delete" => req[r].status \in Statuses)
  BY <1>1, <1>2 DEF RequestsRight
<1>4. /\ e \in Events /\ e.issue = x
      /\ e.type = "deleted" => req[r].kind = "delete"
      /\ req[r].kind = "create" => e.type = "created"
      /\ req[r].kind = "update" => e.type = "updated"
  BY <1>1, <1>2, <1>3, EventOfType
<1>5. PICK q : q = [req[r] EXCEPT !.stage = "emitted"]
  OBVIOUS
<1>6. /\ q \in Asked /\ q # NoOne /\ q.stage = "emitted" /\ q.issue = x /\ q.kind = req[r].kind
      /\ q.status = req[r].status
  BY <1>1, <1>2, <1>5, StageEffect DEF Stages
<1>7. req' = [req EXCEPT ![r] = q]
  BY <1>5 DEF Emit
<1>8. /\ req' \in [Requests -> Asked \cup {NoOne}] /\ req'[r] = q
      /\ \A p \in Requests \ {r} : req'[p] = req[p]
  BY <1>1, <1>6, <1>7 DEF TypeOK
<1>9. UNCHANGED <<rows, page, cache, query, started, breaks>>
  BY DEF Emit
<1>10. ASSUME NEW d \in Clients
       PROVE  /\ inbox[d] \in Seq(Events) /\ inbox'[d] \in Seq(Events)
              /\ page[d] = "joined" => inbox'[d] = Append(inbox[d], e) /\ astray'[d] = astray[d]
              /\ page[d] # "joined" => inbox'[d] = inbox[d] /\ astray'[d] = astray[d] \cup {x}
              /\ astray'[d] \in SUBSET Issues
  <2>1. inbox[d] \in Seq(Events) /\ astray[d] \in SUBSET Issues
    BY <1>1 DEF TypeOK
  <2>2. /\ inbox'[d] = IF page[d] = "joined" THEN Append(inbox[d], e) ELSE inbox[d]
        /\ astray'[d] = IF page[d] = "joined" THEN astray[d] ELSE astray[d] \cup {x}
    BY <1>2 DEF Emit
  <2>3. Append(inbox[d], e) \in Seq(Events)
    BY <1>4, <2>1
  <2>4. QED
    BY <1>3, <2>1, <2>2, <2>3
<1>11. TypeOK'
  <2>1. inbox' \in [Clients -> Seq(Events)] /\ astray' \in [Clients -> SUBSET Issues]
    <3>1. /\ inbox' = [d \in Clients |-> inbox'[d]]
          /\ astray' = [d \in Clients |-> astray'[d]]
      BY DEF Emit
    <3>2. QED
      BY <1>10, <3>1
  <2>2. QED
    BY <1>1, <1>8, <1>9, <2>1 DEF TypeOK
<1>12. PagesRight'
  <2>1. SUFFICES ASSUME NEW d \in Clients
                 PROVE  /\ inbox'[d] # <<>> => page'[d] = "joined"
                        /\ page'[d] = "joined" => ~query'[d].failed
                        /\ page'[d] # "away" /\ ~query'[d].failed /\ query'[d].due => query'[d].fetch # "none"
    BY DEF PagesRight, Shown
  <2>2. page' = page /\ query' = query
    BY <1>9
  <2>3. inbox'[d] # <<>> => page'[d] = "joined"
    BY <1>10, <2>2 DEF BoardsInv, PagesRight
  <2>4. QED
    BY <2>2, <2>3 DEF BoardsInv, PagesRight, Shown
<1>13. ASSUME NEW d \in Clients, page[d] = "joined"
       PROVE  /\ DOMAIN inbox'[d] = 1..(Len(inbox[d]) + 1) /\ DOMAIN inbox[d] = 1..Len(inbox[d])
              /\ Len(inbox[d]) \in Nat
              /\ inbox'[d][Len(inbox[d]) + 1] = e
              /\ \A n \in DOMAIN inbox[d] : inbox'[d][n] = inbox[d][n]
  <2>1. inbox[d] \in Seq(Events) /\ inbox'[d] = Append(inbox[d], e)
    BY <1>10, <1>13
  <2>2. QED
    BY <1>4, <2>1
<1>14. RequestsRight'
  <2>1. ASSUME NEW p \in Requests, req'[p] # NoOne
        PROVE  /\ req'[p].stage \in {"committed", "emitted"} => req'[p].issue \in Issues
               /\ req'[p].kind = "create" /\ req'[p].stage \in {"sent", "read", "rejected"} => req'[p].issue = NoCard
               /\ req'[p].kind # "create" => req'[p].issue \in Issues
               /\ req'[p].kind # "delete" => req'[p].status \in Statuses
    <3>1. CASE p = r
      BY <1>3, <1>6, <1>8, <3>1
    <3>2. CASE p # r
      <4>1. req'[p] = req[p]
        BY <1>8, <3>2
      <4>2. QED
        BY <1>1, <2>1, <4>1 DEF RequestsRight, Busy
    <3>3. QED
      BY <3>1, <3>2
  <2>2. QED
    BY <2>1 DEF RequestsRight, Busy
<1>15. ASSUME NEW d \in Clients, NEW i \in Issues, i \notin astray'[d] PROVE Right(d, i)'
  <2>1. Right(d, i) /\ (page[d] = "joined" \/ i # x)
    BY <1>10, <1>15 DEF BoardsInv
  <2>2. Dropped(d, i)' <=> Dropped(d, i)
    <3>1. \A p \in Requests \ {r} : req'[p] = req[p]
      BY <1>8
    <3>2. req[r].stage \notin {"sent", "read", "rejected"} /\ req'[r].stage \notin {"sent", "read", "rejected"}
      BY <1>1, <1>6, <1>8
    <3>3. QED
      BY <3>1, <3>2 DEF Dropped, About, Busy
  <2>3. \A p \in Requests : /\ Committed(p, i)' => p # r /\ Committed(p, i) /\ req'[p] = req[p]
                            /\ Committed(p, i) /\ (i # x \/ p # r) => Committed(p, i)' /\ req'[p] = req[p]
    BY <1>2, <1>6, <1>8 DEF Committed, About, Busy
  <2>4. rows' = rows /\ (Live(i)' <=> Live(i)) /\ Board'[i] = Board[i]
    BY <1>9 DEF Live, Board
  <2>5. CASE page[d] # "joined"
    <3>1. SameNews(d, i) /\ Covered(d, i)
      BY <1>9, <1>10, <2>1, <2>2, <2>3, <2>5 DEF SameNews, Covered
    <3>2. QED
      BY <2>1, <3>1, Frame
  <2>6. CASE page[d] = "joined" /\ i # x
    <3>1. ASSUME NEW n \in DOMAIN inbox'[d], inbox'[d][n].issue = i
          PROVE  n \in DOMAIN inbox[d] /\ inbox'[d][n] = inbox[d][n]
      <4>1. n # Len(inbox[d]) + 1
        BY <1>4, <1>13, <2>6, <3>1
      <4>2. n \in DOMAIN inbox[d]
        BY <1>13, <2>6, <3>1, <4>1
      <4>3. QED
        BY <1>13, <2>6, <4>2
    <3>2. \A n \in DOMAIN inbox[d] : n \in DOMAIN inbox'[d] /\ inbox'[d][n] = inbox[d][n]
      BY <1>13, <2>6
    <3>3. (Pending(i)' <=> Pending(i)) /\ (Announced(d, i)' <=> Announced(d, i))
      <4>1. Pending(i)' <=> Pending(i)
        BY <2>3, <2>6 DEF Pending
      <4>2. Announced(d, i)' <=> Announced(d, i)
        BY <3>1, <3>2 DEF Announced
      <4>3. QED
        BY <4>1, <4>2
    <3>4. ~WillFetch(d, i)' => ~WillFetch(d, i)
      BY <2>3, <2>6, <3>2 DEF WillFetch
    <3>5. LastIsRight(d, i)'
      <4>1. ASSUME NEW p \in Requests, Committed(p, i)' PROVE Tells(EventOf(req[p]), i)'
        <5>1. Tells(EventOf(req[p]), i) /\ req'[p] = req[p]
          BY <2>1, <2>3, <4>1 DEF Right, LastIsRight
        <5>2. EventOf(req'[p]) = EventOf(req[p])
          BY <5>1
        <5>3. QED
          BY <2>4, <5>1, <5>2 DEF Tells
      <4>2. ASSUME ~Pending(i)', NEW n \in DOMAIN inbox'[d], inbox'[d][n].issue = i,
                   \A m \in DOMAIN inbox'[d] : m > n => inbox'[d][m].issue # i
            PROVE  Tells(inbox[d][n], i)'
        <5>1. n \in DOMAIN inbox[d] /\ inbox'[d][n] = inbox[d][n]
          BY <3>1, <4>2
        <5>2. \A m \in DOMAIN inbox[d] : m > n => inbox[d][m].issue # i
          BY <3>2, <4>2
        <5>3. Tells(inbox[d][n], i)
          BY <2>1, <3>3, <4>2, <5>1, <5>2 DEF Right, LastIsRight
        <5>4. QED
          BY <2>4, <5>1, <5>3 DEF Tells
      <4>3. QED
        BY <4>1, <4>2 DEF LastIsRight
    <3>6. FetchIsRight(d, i)' /\ CacheIsRight(d, i)'
      BY <1>9, <2>1, <2>2, <2>4, <3>3 DEF FetchIsRight, CacheIsRight, Right
    <3>7. Present(d, i)'
      BY <1>9, <2>1, <2>4, <3>4 DEF Present, Right
    <3>8. GoneOrBack(d, i)'
      <4>1. SUFFICES ASSUME NEW n \in DOMAIN inbox'[d], inbox'[d][n].issue = i, inbox'[d][n].type = "deleted"
                     PROVE  \/ rows[i] = Removed
                            \/ \E p \in Requests : Committed(p, i)' /\ req'[p].kind = "update"
                            \/ \E m \in DOMAIN inbox'[d] : /\ m > n /\ inbox'[d][m].issue = i
                                                           /\ inbox'[d][m].type = "updated"
        BY <2>4 DEF GoneOrBack
      <4>2. n \in DOMAIN inbox[d] /\ inbox[d][n].issue = i /\ inbox[d][n].type = "deleted"
        BY <3>1, <4>1
      <4>3. \/ rows[i] = Removed
            \/ \E p \in Requests : Committed(p, i) /\ req[p].kind = "update"
            \/ \E m \in DOMAIN inbox[d] : m > n /\ inbox[d][m].issue = i /\ inbox[d][m].type = "updated"
        BY <2>1, <4>2 DEF Right, GoneOrBack
      <4>4. QED
        BY <2>3, <2>6, <3>2, <4>3
    <3>9. QED
      BY <3>5, <3>6, <3>7, <3>8 DEF Right
  <2>7. CASE page[d] = "joined" /\ i = x
    <3>1. PICK k : k = Len(inbox[d]) + 1
      OBVIOUS
    <3>2. /\ k \in DOMAIN inbox'[d] /\ inbox'[d][k] = e
          /\ \A n \in DOMAIN inbox'[d] : n # k => k > n
      BY <1>13, <2>7, <3>1
    <3>3. Tells(e, i) /\ Announced(d, i)'
      <4>1. Committed(r, i)
        BY <1>1, <1>2, <2>7 DEF Committed, About
      <4>2. Tells(e, i)
        BY <1>2, <2>1, <4>1 DEF Right, LastIsRight
      <4>3. Announced(d, i)'
        BY <1>4, <2>7, <3>2 DEF Announced
      <4>4. QED
        BY <4>2, <4>3
    <3>4. LastIsRight(d, i)'
      <4>1. ASSUME NEW p \in Requests, Committed(p, i)' PROVE Tells(EventOf(req[p]), i)'
        <5>1. Tells(EventOf(req[p]), i) /\ req'[p] = req[p]
          BY <2>1, <2>3, <4>1 DEF Right, LastIsRight
        <5>2. EventOf(req'[p]) = EventOf(req[p])
          BY <5>1
        <5>3. QED
          BY <2>4, <5>1, <5>2 DEF Tells
      <4>2. ASSUME NEW n \in DOMAIN inbox'[d], inbox'[d][n].issue = i,
                   \A m \in DOMAIN inbox'[d] : m > n => inbox'[d][m].issue # i
            PROVE  Tells(inbox[d][n], i)'
        <5>1. n = k
          BY <1>4, <2>7, <3>2, <4>2
        <5>2. QED
          BY <2>4, <3>2, <3>3, <5>1 DEF Tells
      <4>3. QED
        BY <4>1, <4>2 DEF LastIsRight
    <3>5. FetchIsRight(d, i)' /\ CacheIsRight(d, i)'
      BY <3>3 DEF FetchIsRight, CacheIsRight
    <3>6. ~WillFetch(d, i)' => ~WillFetch(d, i)
      <4>1. SUFFICES ASSUME WillFetch(d, i) PROVE WillFetch(d, i)'
        OBVIOUS
      <4>2. CASE \E p \in Requests : Committed(p, i) /\ req[p].kind \in {"create", "update"}
        <5>1. PICK p \in Requests : Committed(p, i) /\ req[p].kind \in {"create", "update"}
          BY <4>2
        <5>2. CASE p = r
          BY <1>4, <2>7, <3>2, <5>1, <5>2 DEF WillFetch
        <5>3. CASE p # r
          BY <2>3, <5>1, <5>3 DEF WillFetch
        <5>4. QED
          BY <5>2, <5>3
      <4>3. CASE \E n \in DOMAIN inbox[d] : inbox[d][n].issue = i /\ inbox[d][n].type \in {"created", "updated"}
        <5>1. \A n \in DOMAIN inbox[d] : n \in DOMAIN inbox'[d] /\ inbox'[d][n] = inbox[d][n]
          BY <1>13, <2>7
        <5>2. QED
          BY <4>3, <5>1 DEF WillFetch
      <4>4. QED
        BY <4>1, <4>2, <4>3 DEF WillFetch
    <3>7. Present(d, i)'
      BY <1>9, <2>1, <2>4, <3>6 DEF Present, Right
    <3>8. GoneOrBack(d, i)'
      <4>1. SUFFICES ASSUME NEW n \in DOMAIN inbox'[d], inbox'[d][n].issue = i, inbox'[d][n].type = "deleted"
                     PROVE  \/ rows[i] = Removed
                            \/ \E p \in Requests : Committed(p, i)' /\ req'[p].kind = "update"
                            \/ \E m \in DOMAIN inbox'[d] : /\ m > n /\ inbox'[d][m].issue = i
                                                           /\ inbox'[d][m].type = "updated"
        BY <2>4 DEF GoneOrBack
      <4>2. CASE n = k
        BY <3>2, <3>3, <4>1, <4>2 DEF Tells
      <4>3. CASE n # k
        <5>1. n \in DOMAIN inbox[d] /\ inbox'[d][n] = inbox[d][n] /\ k > n
          BY <1>13, <2>7, <3>1, <3>2, <4>1, <4>3
        <5>2. \/ rows[i] = Removed
              \/ \E p \in Requests : Committed(p, i) /\ req[p].kind = "update"
              \/ \E m \in DOMAIN inbox[d] : m > n /\ inbox[d][m].issue = i /\ inbox[d][m].type = "updated"
          BY <2>1, <4>1, <5>1 DEF Right, GoneOrBack
        <5>3. CASE \E p \in Requests : Committed(p, i) /\ req[p].kind = "update"
          <6>1. PICK p \in Requests : Committed(p, i) /\ req[p].kind = "update"
            BY <5>3
          <6>2. CASE p = r
            BY <1>4, <2>7, <3>2, <5>1, <6>1, <6>2
          <6>3. CASE p # r
            BY <2>3, <6>1, <6>3
          <6>4. QED
            BY <6>2, <6>3
        <5>4. CASE \E m \in DOMAIN inbox[d] : m > n /\ inbox[d][m].issue = i /\ inbox[d][m].type = "updated"
          BY <1>13, <2>7, <5>4
        <5>5. QED
          BY <5>2, <5>3, <5>4
      <4>4. QED
        BY <4>2, <4>3
    <3>9. QED
      BY <3>4, <3>5, <3>7, <3>8 DEF Right
  <2>8. QED
    BY <2>1, <2>5, <2>6, <2>7
<1>16. QED
  BY <1>11, <1>12, <1>14, <1>15 DEF BoardsInv

(* An event is handled: a board on its way does not know of it, the board   *)
(* that is shown learns of it, and is right if nothing else is to come.     *)
LEMMA HandleStep ==
  ASSUME BoardsInv, NEW c \in Clients, Handle(c)
  PROVE  BoardsInv'
<1>1. TypeOK /\ RequestsRight /\ inbox[c] # <<>> /\ inbox[c] \in Seq(Events) /\ cache[c] \in Boards
  BY DEF BoardsInv, Handle, TypeOK
<1>2. page[c] = "joined" /\ ~query[c].failed /\ (query[c].fetch = "none" => ~query[c].due)
  BY <1>1 DEF BoardsInv, PagesRight, Shown
<1>3. PICK e : e = Head(inbox[c])
  OBVIOUS
<1>4. UNCHANGED <<rows, req, page, started, breaks>> /\ inbox' = [inbox EXCEPT ![c] = Tail(inbox[c])]
  BY DEF Handle
<1>5. /\ inbox' \in [Clients -> Seq(Events)] /\ inbox'[c] = Tail(inbox[c])
      /\ \A d \in Clients \ {c} : inbox'[d] = inbox[d]
  <2>1. Tail(inbox[c]) \in Seq(Events)
    BY <1>1
  <2>2. QED
    BY <1>1, <1>4, <2>1 DEF TypeOK
<1>6. PICK N : N = Len(inbox[c])
  OBVIOUS
<1>7. /\ N \in Nat /\ N > 0 /\ DOMAIN inbox[c] = 1..N /\ DOMAIN inbox'[c] = 1..(N - 1)
      /\ inbox[c][1] = e
      /\ \A n \in 1..(N - 1) : inbox'[c][n] = inbox[c][n + 1]
  BY <1>1, <1>3, <1>5, <1>6
<1>8. e \in Events /\ 1 \in DOMAIN inbox[c]
  BY <1>1, <1>7
<1>9. e.issue \in Issues /\ e.type \in {"moved", "updated", "created", "deleted"}
      /\ (e.type = "moved" => e.status \in Statuses /\ e.order \in Int)
  BY <1>8, EventType
<1>10. ASSUME NEW n \in 1..(N - 1) PROVE n + 1 \in DOMAIN inbox[c] /\ inbox'[c][n] = inbox[c][n + 1]
  BY <1>7
<1>11. ASSUME NEW n \in DOMAIN inbox[c], n # 1 PROVE n - 1 \in DOMAIN inbox'[c] /\ inbox'[c][n - 1] = inbox[c][n]
  <2>1. n - 1 \in 1..(N - 1)
    BY <1>7, <1>11
  <2>2. inbox'[c][n - 1] = inbox[c][(n - 1) + 1] /\ (n - 1) + 1 = n
    BY <1>7, <2>1
  <2>3. QED
    BY <1>7, <2>1, <2>2
<1>12. AfterEvent(cache[c], e) \in Boards
  BY <1>1, <1>9 DEF AfterEvent, Boards, Card
<1>13. PICK b : b = AfterEvent(cache[c], e)
  OBVIOUS
<1>14. \/ e.type \in {"updated", "created"} /\ query' = Invalidated(c) /\ UNCHANGED <<cache, astray>>
       \/ /\ e.type \notin {"updated", "created"} /\ Patch(c, b)
          /\ astray' = [astray EXCEPT ![c] = IF query[c].fetch = "served" THEN astray[c] \cup {e.issue} ELSE astray[c]]
  BY <1>3, <1>13 DEF Handle
<1>15. /\ cache' \in [Clients -> Boards] /\ query' \in [Clients -> Queries]
       /\ astray' \in [Clients -> SUBSET Issues]
       /\ \A d \in Clients \ {c} : query'[d] = query[d] /\ cache'[d] = cache[d] /\ astray'[d] = astray[d]
       /\ query'[c].failed = query[c].failed
       /\ \/ query'[c].fetch = "sent" /\ astray'[c] = astray[c]
          \/ /\ e.type \in {"moved", "deleted"} /\ cache'[c] = b
             /\ ~query'[c].due /\ query'[c].fetch = query[c].fetch /\ query'[c].board = query[c].board
             /\ astray'[c] = IF query[c].fetch = "served" THEN astray[c] \cup {e.issue} ELSE astray[c]
  <2>1. CASE e.type \in {"updated", "created"} /\ query' = Invalidated(c) /\ UNCHANGED <<cache, astray>>
    <3>1. /\ query' \in [Clients -> Queries]
          /\ \A d \in Clients \ {c} : query'[d] = query[d]
          /\ query'[c].failed = query[c].failed
          /\ query'[c].fetch = "sent"
      BY <1>1, <1>2, <2>1, InvalidatedEffect
    <3>2. cache' = cache /\ astray' = astray
      BY <2>1
    <3>3. QED
      BY <1>1, <3>1, <3>2 DEF TypeOK
  <2>2. CASE /\ e.type \notin {"updated", "created"} /\ Patch(c, b)
             /\ astray' = [astray EXCEPT ![c] = IF query[c].fetch = "served" THEN astray[c] \cup {e.issue} ELSE astray[c]]
    <3>1. /\ cache' \in [Clients -> Boards] /\ cache'[c] = b
          /\ query' \in [Clients -> Queries]
          /\ \A d \in Clients \ {c} : query'[d] = query[d] /\ cache'[d] = cache[d]
          /\ ~query'[c].due /\ query'[c].failed = query[c].failed
          /\ query'[c].fetch = query[c].fetch /\ query'[c].board = query[c].board
      BY <1>1, <1>12, <1>13, <2>2, PatchEffect
    <3>2. /\ astray' \in [Clients -> SUBSET Issues]
          /\ astray'[c] = IF query[c].fetch = "served" THEN astray[c] \cup {e.issue} ELSE astray[c]
          /\ \A d \in Clients \ {c} : astray'[d] = astray[d]
      BY <1>1, <1>9, <2>2 DEF TypeOK
    <3>3. QED
      BY <1>9, <2>2, <3>1, <3>2
  <2>3. QED
    BY <1>14, <2>1, <2>2
<1>16. TypeOK'
  BY <1>1, <1>4, <1>5, <1>15 DEF TypeOK
<1>17. PagesRight'
  <2>1. SUFFICES ASSUME NEW d \in Clients
                 PROVE  /\ inbox'[d] # <<>> => page'[d] = "joined"
                        /\ page'[d] = "joined" => ~query'[d].failed
                        /\ page'[d] # "away" /\ ~query'[d].failed /\ query'[d].due => query'[d].fetch # "none"
    BY DEF PagesRight, Shown
  <2>2. page' = page
    BY <1>4
  <2>3. CASE d = c
    BY <1>2, <1>15, <2>2, <2>3
  <2>4. CASE d # c
    BY <1>5, <1>15, <2>2, <2>4 DEF BoardsInv, PagesRight, Shown
  <2>5. QED
    BY <2>3, <2>4
<1>18. RequestsRight'
  BY <1>1, <1>4 DEF RequestsRight, Busy
<1>19. ASSUME NEW d \in Clients, NEW i \in Issues, i \notin astray'[d] PROVE Right(d, i)'
  <2>1. Right(d, i)
    BY <1>15, <1>19 DEF BoardsInv
  <2>2. CASE d # c
    <3>1. SameNews(d, i) /\ (Dropped(d, i)' <=> Dropped(d, i))
      BY <1>4, <1>5, <2>2, NothingMoves
    <3>2. Covered(d, i)
      BY <1>15, <2>2, <3>1 DEF Covered
    <3>3. QED
      BY <2>1, <3>1, <3>2, Frame
  <2>3. CASE d = c
    <3>1. rows' = rows /\ req' = req
      BY <1>4
    <3>2. /\ \A r \in Requests : Committed(r, i)' <=> Committed(r, i)
          /\ Pending(i)' <=> Pending(i)
          /\ Dropped(c, i)' <=> Dropped(c, i)
          /\ Live(i)' <=> Live(i)
          /\ Board'[i] = Board[i]
      BY <3>1 DEF Committed, Pending, Dropped, About, Busy, Live, Board
    <3>3. LastIsRight(c, i)'
      <4>1. ASSUME NEW p \in Requests, Committed(p, i)' PROVE Tells(EventOf(req[p]), i)'
        <5>1. Tells(EventOf(req[p]), i) /\ req'[p] = req[p]
          BY <2>1, <2>3, <3>1, <3>2, <4>1 DEF Right, LastIsRight
        <5>2. EventOf(req'[p]) = EventOf(req[p])
          BY <5>1
        <5>3. QED
          BY <3>1, <5>1, <5>2 DEF Tells
      <4>2. ASSUME ~Pending(i)', NEW n \in DOMAIN inbox'[c], inbox'[c][n].issue = i,
                   \A m \in DOMAIN inbox'[c] : m > n => inbox'[c][m].issue # i
            PROVE  Tells(inbox[c][n], i)'
        <5>1. n \in 1..(N - 1) /\ n + 1 \in DOMAIN inbox[c] /\ inbox'[c][n] = inbox[c][n + 1]
          BY <1>7, <1>10, <4>2
        <5>2. ASSUME NEW m \in DOMAIN inbox[c], m > n + 1 PROVE inbox[c][m].issue # i
          <6>1. m # 1 /\ m - 1 > n
            BY <1>7, <5>1, <5>2
          <6>2. QED
            BY <1>11, <4>2, <6>1
        <5>3. Tells(inbox[c][n + 1], i)
          BY <2>1, <2>3, <3>2, <4>2, <5>1, <5>2 DEF Right, LastIsRight
        <5>4. QED
          BY <3>1, <5>1, <5>3 DEF Tells
      <4>3. QED
        BY <4>1, <4>2 DEF LastIsRight
    <3>6. GoneOrBack(c, i)'
      <4>1. SUFFICES ASSUME NEW n \in DOMAIN inbox'[c], inbox'[c][n].issue = i, inbox'[c][n].type = "deleted"
                     PROVE  \/ rows[i] = Removed
                            \/ \E p \in Requests : Committed(p, i) /\ req[p].kind = "update"
                            \/ \E m \in DOMAIN inbox'[c] : /\ m > n /\ inbox'[c][m].issue = i
                                                           /\ inbox'[c][m].type = "updated"
        BY <3>1, <3>2 DEF GoneOrBack
      <4>2. n \in 1..(N - 1) /\ n + 1 \in DOMAIN inbox[c] /\ inbox'[c][n] = inbox[c][n + 1]
        BY <1>7, <1>10, <4>1
      <4>3. \/ rows[i] = Removed
            \/ \E p \in Requests : Committed(p, i) /\ req[p].kind = "update"
            \/ \E m \in DOMAIN inbox[c] : m > n + 1 /\ inbox[c][m].issue = i /\ inbox[c][m].type = "updated"
        BY <2>1, <2>3, <4>1, <4>2 DEF Right, GoneOrBack
      <4>4. ASSUME NEW m \in DOMAIN inbox[c], m > n + 1
            PROVE  m - 1 \in DOMAIN inbox'[c] /\ m - 1 > n /\ inbox'[c][m - 1] = inbox[c][m]
        <5>1. m # 1 /\ m - 1 > n
          BY <1>7, <4>2, <4>4
        <5>2. QED
          BY <1>11, <5>1
      <4>5. QED
        BY <4>3, <4>4
    <3>4. CASE query'[c].fetch = "sent"
      BY <2>3, <3>3, <3>4, <3>6 DEF Right, FetchIsRight, CacheIsRight, Present
    <3>5. CASE query'[c].fetch # "sent"
      <4>1. /\ e.type \in {"moved", "deleted"} /\ cache'[c] = b
            /\ query'[c].fetch = query[c].fetch /\ query'[c].board = query[c].board
            /\ i = e.issue => query[c].fetch # "served"
        BY <1>15, <1>19, <2>3, <3>5
      <4>2. i # e.issue => b[i] = cache[c][i]
        BY <1>1, <1>13 DEF AfterEvent, Boards
      <4>3. Announced(c, i) => i = e.issue \/ Announced(c, i)'
        BY <1>7, <1>11 DEF Announced
      <4>4. ~WillFetch(c, i)' => ~WillFetch(c, i)
        <5>1. SUFFICES ASSUME NEW n \in DOMAIN inbox[c], inbox[c][n].issue = i,
                              inbox[c][n].type \in {"created", "updated"}
                       PROVE  WillFetch(c, i)'
          BY <3>1, <3>2 DEF WillFetch
        <5>2. n # 1
          BY <1>7, <4>1, <5>1
        <5>3. QED
          BY <1>11, <5>1, <5>2 DEF WillFetch
      <4>5. CASE i # e.issue
        <5>1. FetchIsRight(c, i)'
          BY <2>1, <2>3, <3>2, <4>1, <4>3, <4>5 DEF Right, FetchIsRight
        <5>2. CacheIsRight(c, i)'
          BY <1>2, <2>1, <2>3, <3>2, <4>1, <4>2, <4>3, <4>5 DEF Right, CacheIsRight
        <5>3. Present(c, i)'
          BY <2>1, <2>3, <3>2, <4>1, <4>2, <4>4, <4>5 DEF Right, Present
        <5>4. QED
          BY <2>3, <3>3, <3>6, <5>1, <5>2, <5>3 DEF Right
      <4>6. CASE i = e.issue
        <5>1. FetchIsRight(c, i)'
          BY <4>1, <4>6 DEF FetchIsRight
        <5>2. Live(i) /\ ~WillFetch(c, i) /\ query[c].fetch = "none" => cache[c][i] \in Card
          BY <2>1, <2>3 DEF Right, Present
        <5>3. e.type = "deleted" => (~Live(i) \/ WillFetch(c, i)') /\ b[i] = NoCard
          <6>1. e.type = "deleted" => rows[i] = Removed \/ WillFetch(c, i)'
            <7>1. SUFFICES ASSUME e.type = "deleted", rows[i] # Removed PROVE WillFetch(c, i)'
              OBVIOUS
            <7>2. \/ \E p \in Requests : Committed(p, i) /\ req[p].kind = "update"
                  \/ \E m \in DOMAIN inbox[c] : m > 1 /\ inbox[c][m].issue = i /\ inbox[c][m].type = "updated"
              BY <1>7, <1>8, <2>1, <2>3, <4>6, <7>1 DEF Right, GoneOrBack
            <7>3. ASSUME NEW m \in DOMAIN inbox[c], m > 1
                  PROVE  m - 1 \in DOMAIN inbox'[c] /\ inbox'[c][m - 1] = inbox[c][m]
              <8>1. m # 1
                BY <7>3
              <8>2. QED
                BY <1>11, <8>1
            <7>4. QED
              BY <3>1, <3>2, <7>2, <7>3 DEF WillFetch
          <6>2. e.type = "deleted" => b[i] = NoCard
            BY <1>1, <1>13, <4>6 DEF AfterEvent, Boards
          <6>3. QED
            BY <6>1, <6>2, BoardSyncAssumption DEF Live
        <5>4. e.type = "moved" /\ cache[c][i] \in Card => b[i] = [status |-> e.status, order |-> e.order] /\ b[i] \in Card
          BY <1>1, <1>9, <1>13, <4>6 DEF AfterEvent, Boards, Card
        <5>5. CacheIsRight(c, i)'
          <6>1. SUFFICES ASSUME query'[c].fetch = "none", ~Pending(i), ~Announced(c, i)'
                         PROVE  b[i] = Board[i]
            BY <3>2, <4>1 DEF CacheIsRight
          <6>2. \A m \in DOMAIN inbox[c] : m > 1 => inbox[c][m].issue # i
            <7>1. SUFFICES ASSUME NEW m \in DOMAIN inbox[c], m > 1 PROVE inbox[c][m].issue # i
              OBVIOUS
            <7>2. m # 1
              BY <7>1
            <7>3. QED
              BY <1>11, <6>1, <7>2 DEF Announced
          <6>3. Tells(e, i)
            BY <1>7, <1>8, <2>1, <2>3, <4>6, <6>1, <6>2 DEF Right, LastIsRight
          <6>4. CASE e.type = "deleted"
            <7>1. rows[i] = Removed /\ b[i] = NoCard
              BY <5>3, <6>3, <6>4 DEF Tells
            <7>2. QED
              BY <1>1, <7>1, BoardType, BoardSyncAssumption DEF Live
          <6>5. CASE e.type = "moved"
            <7>1. rows[i] = [status |-> e.status, order |-> e.order]
              BY <6>3, <6>5 DEF Tells
            <7>2. Live(i)
              BY <1>9, <6>5, <7>1 DEF Live, Card
            <7>3. ~WillFetch(c, i)
              <8>1. \A m \in DOMAIN inbox[c] :
                      ~(inbox[c][m].issue = i /\ inbox[c][m].type \in {"created", "updated"})
                <9>1. SUFFICES ASSUME NEW m \in DOMAIN inbox[c], inbox[c][m].issue = i,
                                      inbox[c][m].type \in {"created", "updated"}
                               PROVE  FALSE
                  OBVIOUS
                <9>2. inbox[c][m].type \in {"created", "updated"} /\ inbox[c][m].issue = i
                  BY <9>1
                <9>3. m # 1
                  BY <1>7, <4>1, <9>2
                <9>4. m > 1
                  BY <1>7, <9>3
                <9>5. QED
                  BY <6>2, <9>2, <9>4
              <8>2. QED
                BY <6>1, <8>1 DEF WillFetch, Pending
            <7>4. cache[c][i] \in Card
              BY <4>1, <5>2, <6>1, <7>2, <7>3
            <7>5. QED
              BY <1>1, <5>4, <6>5, <7>1, <7>2, <7>4, BoardType
          <6>6. QED
            BY <4>1, <6>4, <6>5
        <5>6. Present(c, i)'
          BY <3>2, <4>1, <4>4, <4>6, <5>2, <5>3, <5>4 DEF Present
        <5>7. QED
          BY <2>3, <3>3, <3>6, <5>1, <5>5, <5>6 DEF Right
      <4>7. QED
        BY <4>5, <4>6
    <3>7. QED
      BY <3>4, <3>5
  <2>4. QED
    BY <2>2, <2>3
<1>20. QED
  BY <1>16, <1>17, <1>18, <1>19 DEF BoardsInv

-----------------------------------------------------------------------------
(* The theorems.                                                            *)

(* Every board starts with what the server has.                             *)
LEMMA BoardsInvInit ==
  ASSUME Init
  PROVE  BoardsInv
<1>1. /\ InitRows \in [Issues -> Card \cup {NoCard}] /\ NoCard \notin Card
      /\ MaxRequests \in Nat /\ MaxBreaks \in Nat
  BY BoardSyncAssumption
<1>2. NoBoard \in Boards
  BY DEF NoBoard, Boards
<1>3. TypeOK
  <2>1. [fetch |-> "none", board |-> NoBoard, due |-> FALSE, failed |-> FALSE] \in Queries
    BY <1>2 DEF Queries
  <2>2. query \in [Clients -> Queries]
    BY <2>1 DEF Init
  <2>3. inbox \in [Clients -> Seq(Events)]
    BY DEF Init
  <2>4. rows \in [Issues -> Card \cup {NoCard, Removed}] /\ cache \in [Clients -> Boards]
    BY <1>1 DEF Init, Boards
  <2>5. started \in 0..MaxRequests /\ breaks \in 0..MaxBreaks
    BY <1>1 DEF Init
  <2>6. /\ req \in [Requests -> Asked \cup {NoOne}] /\ page \in [Clients -> {"away", "open", "joined"}]
        /\ astray \in [Clients -> SUBSET Issues]
    BY DEF Init
  <2>7. QED
    BY <2>2, <2>3, <2>4, <2>5, <2>6 DEF TypeOK
<1>4. /\ \A r \in Requests : ~Busy(r)
      /\ \A c \in Clients : /\ inbox[c] = <<>> /\ page[c] = "joined" /\ cache[c] = rows
                            /\ query[c].fetch = "none" /\ ~query[c].due /\ ~query[c].failed
  BY DEF Init, Busy
<1>5. \A c \in Clients : DOMAIN inbox[c] = {}
  BY <1>4
<1>6. RequestsRight /\ PagesRight
  BY <1>4, <1>5 DEF RequestsRight, PagesRight
<1>7. ASSUME NEW c \in Clients, NEW i \in Issues PROVE Right(c, i)
  <2>1. rows[i] = Board[i]
    BY <1>1 DEF Init, Board, Live
  <2>2. LastIsRight(c, i)
    BY <1>4, <1>5 DEF LastIsRight, Committed, About
  <2>3. FetchIsRight(c, i) /\ CacheIsRight(c, i)
    BY <1>4, <2>1 DEF FetchIsRight, CacheIsRight
  <2>4. Present(c, i) /\ GoneOrBack(c, i)
    BY <1>4, <1>5 DEF Present, Live, GoneOrBack
  <2>5. QED
    BY <2>2, <2>3, <2>4 DEF Right
<1>8. QED
  BY <1>3, <1>6, <1>7 DEF BoardsInv

(* Every step keeps the invariant.                                          *)
LEMMA BoardsInvStep ==
  ASSUME BoardsInv, [Next]_vars
  PROVE  BoardsInv'
<1>1. CASE \E r \in Requests : Read(r) \/ Commit(r) \/ Reject(r) \/ Emit(r) \/ Answer(r) \/ LoseAnswer(r)
  BY <1>1, ReadStep, CommitStep, RejectStep, EmitStep, OverStep
<1>2. ASSUME NEW c \in Clients,
             \/ ServeBoard(c) \/ ReceiveBoard(c) \/ FailBoard(c)
             \/ Leave(c) \/ Return(c) \/ Join(c) \/ Handle(c)
             \/ \E s \in Statuses : Create(c, s)
             \/ \E i \in Issues, s \in Statuses : Drop(c, i, s) \/ Update(c, i, s)
      PROVE  BoardsInv'
  <2>1. CASE ServeBoard(c) \/ ReceiveBoard(c) \/ FailBoard(c)
    BY <2>1, ServeBoardStep, ReceiveBoardStep, FailBoardStep
  <2>2. CASE Leave(c) \/ Return(c) \/ Join(c) \/ Handle(c)
    BY <2>2, LeaveStep, ReturnStep, JoinStep, HandleStep
  <2>3. CASE \E s \in Statuses : Create(c, s)
    BY <2>3, CreateStep
  <2>4. CASE \E i \in Issues, s \in Statuses : Drop(c, i, s) \/ Update(c, i, s)
    BY <2>4, DropStep, UpdateStep
  <2>5. QED
    BY <1>2, <2>1, <2>2, <2>3, <2>4
<1>3. CASE SendElsewhere
  BY <1>3, SendElsewhereStep
<1>4. CASE UNCHANGED vars
  <2>1. UNCHANGED <<rows, req, inbox, page, cache, query, astray, started, breaks>>
    BY <1>4 DEF vars
  <2>2. TypeOK' /\ PagesRight' /\ RequestsRight'
    BY <2>1, PagesStay DEF BoardsInv, TypeOK, PagesRight, Shown
  <2>3. ASSUME NEW d \in Clients, NEW i \in Issues, i \notin astray'[d] PROVE Right(d, i)'
    <3>1. Right(d, i) /\ SameNews(d, i) /\ (Dropped(d, i)' <=> Dropped(d, i))
      BY <2>1, <2>3, NothingMoves DEF BoardsInv
    <3>2. Covered(d, i)
      BY <2>1, <3>1 DEF Covered
    <3>3. QED
      BY <3>1, <3>2, Frame
  <2>4. QED
    BY <2>2, <2>3 DEF BoardsInv
<1>5. QED
  BY <1>1, <1>2, <1>3, <1>4 DEF Next

(* A card of which nothing is under way is where the server has it.         *)
LEMMA BoardsInvImplies ==
  ASSUME BoardsInv
  PROVE  BoardInv
<1>1. SUFFICES ASSUME NEW c \in Clients, NEW i \in Issues, Calm(c, i), i \notin astray[c]
               PROVE  cache[c][i] = Board[i]
  BY DEF BoardInv, BoardsAgree, BoardsInv
<1>2. ~Pending(i) /\ ~Dropped(c, i)
  BY <1>1 DEF Calm, Underway, Pending, Committed, About, Dropped
<1>3. query[c].fetch = "none" /\ ~query[c].due
  BY <1>1 DEF Calm, BoardsInv, PagesRight, Shown
<1>4. CacheIsRight(c, i) /\ ~Announced(c, i)
  BY <1>1 DEF BoardsInv, Right, Calm
<1>5. QED
  BY <1>2, <1>3, <1>4 DEF CacheIsRight

(* Once its requests are answered and its events handled, a card that is    *)
(* not astray is where the server has it, on every board: an optimistic     *)
(* drop, a rejection, an event and a board fetched meanwhile never leave it *)
(* anywhere else, whatever order they come in.                              *)
THEOREM BoardsShowTheRows == Spec => []BoardInv
<1>1. Init => BoardsInv
  BY BoardsInvInit
<1>2. BoardsInv /\ [Next]_vars => BoardsInv'
  BY BoardsInvStep
<1>3. BoardsInv => BoardInv
  BY BoardsInvImplies
<1>4. QED
  BY <1>1, <1>2, <1>3, PTL DEF Spec

(* A step either commits a request or leaves the rows alone.                *)
LEMMA RowsStep ==
  ASSUME BoardsInv, [Next]_vars
  PROVE  [Rows!Next]_Board
<1>1. TypeOK /\ RequestsRight
  BY DEF BoardsInv
<1>2. ASSUME NEW r \in Requests, Commit(r) PROVE Rows!Next \/ Board' = Board
  <2>1. Busy(r)
    BY <1>2 DEF Commit
  <2>2. PICK o \in Outcomes(r) : rows' = o.rows
    BY <1>2 DEF Commit
  <2>3. PICK x, t : x = o.issue /\ t = o.rows
    OBVIOUS
  <2>4. /\ x \in Issues /\ t \in Table
        /\ req[r].kind = "create" => t[x] \in Card
        /\ req[r].kind = "delete" => t = [rows EXCEPT ![x] = Removed]
        /\ req[r].kind # "delete" => t[x] \in Card
        /\ \A j \in Issues \ {x} : t[j] # rows[j] =>
             /\ rows[j] \in Card /\ t[j] \in Card /\ t[j].status = rows[j].status
             /\ t[j].order \in {n * One : n \in 1..Cardinality(Issues)}
             /\ \A k \in Issues \ {x, j} : t[k] # rows[k] => t[k].order # t[j].order
    BY <1>1, <2>1, <2>3, OutcomeEffect
  <2>5. rows' = t
    BY <2>2, <2>3
  <2>6. NoCard \notin Card /\ Removed \notin Card /\ NoCard # Removed
    BY BoardSyncAssumption
  <2>7. PICK B, C : B = Board /\ C = Board'
    OBVIOUS
  <2>8. /\ B = [i \in Issues |-> IF rows[i] \in Card THEN rows[i] ELSE NoCard]
        /\ C = [i \in Issues |-> IF t[i] \in Card THEN t[i] ELSE NoCard]
    BY <2>5, <2>7 DEF Board, Live
  <2>9. C \in [Issues -> Card \cup {NoCard}]
    BY <2>8
  <2>10. CASE req[r].kind = "delete"
    <3>2. t[x] = Removed /\ \A j \in Issues \ {x} : t[j] = rows[j]
      BY <1>1, <2>4, <2>10 DEF TypeOK
    <3>3. C = [B EXCEPT ![x] = NoCard]
      BY <2>4, <2>6, <2>8, <3>2
    <3>4. Board' = [Board EXCEPT ![x] = NoCard]
      BY <2>7, <3>3
    <3>5. CASE Board[x] \in Card
      BY <2>4, <3>4, <3>5 DEF Rows!Next, Rows!Remove, Rows!Card, Card
    <3>6. CASE Board[x] \notin Card
      <4>1. Board[x] = NoCard /\ Board \in [Issues -> Card \cup {NoCard}]
        BY <2>4, <2>7, <2>8, <3>6
      <4>2. QED
        BY <3>4, <4>1
    <3>7. QED
      BY <3>5, <3>6
  <2>11. CASE req[r].kind # "delete"
    <3>1. C[x] \in Card
      BY <2>4, <2>8, <2>11
    <3>2. ASSUME NEW j \in Issues \ {x}, C[j] # B[j]
          PROVE  /\ t[j] # rows[j] /\ B[j] = rows[j] /\ C[j] = t[j]
                 /\ B[j] \in Card /\ C[j] \in Card /\ C[j].status = B[j].status
                 /\ C[j].order \in {n * One : n \in 1..Cardinality(Issues)}
      <4>1. t[j] # rows[j]
        BY <2>8, <3>2
      <4>2. /\ rows[j] \in Card /\ t[j] \in Card /\ t[j].status = rows[j].status
            /\ t[j].order \in {n * One : n \in 1..Cardinality(Issues)}
        BY <2>4, <4>1
      <4>3. B[j] = rows[j] /\ C[j] = t[j]
        BY <2>8, <4>2
      <4>4. QED
        BY <4>1, <4>2, <4>3
    <3>3. ASSUME NEW j \in Issues \ {x}, C[j] # B[j], NEW k \in Issues \ {x}, k # j, C[k] # B[k]
          PROVE  C[k].order # C[j].order
      <4>1. t[j] # rows[j] /\ C[j] = t[j] /\ t[k] # rows[k] /\ C[k] = t[k]
        BY <3>2, <3>3
      <4>2. QED
        BY <2>4, <3>3, <4>1
    <3>4. /\ Board' \in [Issues -> Card \cup {NoCard}] /\ Board'[x] \in Card
          /\ \A j \in Issues \ {x} : Board'[j] # Board[j] =>
               /\ Board[j] \in Card /\ Board'[j] \in Card
               /\ Board'[j].status = Board[j].status
               /\ Board'[j].order \in {n * One : n \in 1..Cardinality(Issues)}
               /\ \A k \in Issues \ {x} : k # j /\ Board'[k] # Board[k] => Board'[k].order # Board'[j].order
      BY <2>7, <2>9, <3>1, <3>2, <3>3
    <3>5. Rows!Write(x)
      <4>1. \A j \in Rows!Renumbered(x) : j \in Issues \ {x} /\ Board'[j] # Board[j]
        BY DEF Rows!Renumbered
      <4>2. Rows!Card = Card /\ Rows!Ranks = {n * One : n \in 1..Cardinality(Issues)}
        BY Zenon DEF Rows!Card, Card, Rows!Ranks, Rows!Cardinality, Cardinality
      <4>3. ASSUME NEW j \in Rows!Renumbered(x)
            PROVE  /\ Board[j] \in Card /\ Board'[j] \in Card
                   /\ Board'[j].status = Board[j].status
                   /\ Board'[j].order \in {n * One : n \in 1..Cardinality(Issues)}
                   /\ \A k \in Rows!Renumbered(x) \ {j} : Board'[k].order # Board'[j].order
        BY <3>4, <4>1, <4>3
      <4>4. QED
        BY <3>4, <4>2, <4>3 DEF Rows!Write
    <3>6. QED
      BY <2>4, <3>5 DEF Rows!Next
  <2>12. QED
    BY <2>10, <2>11
<1>3. rows' = rows => Board' = Board
  BY DEF Board, Live
<1>4. (\E r \in Requests : Commit(r)) \/ rows' = rows
  <2>1. CASE \E r \in Requests : Read(r) \/ Commit(r) \/ Reject(r) \/ Emit(r) \/ Answer(r) \/ LoseAnswer(r)
    BY <2>1 DEF Read, Reject, Emit, Answer, LoseAnswer
  <2>2. CASE \E c \in Clients : ServeBoard(c) \/ ReceiveBoard(c) \/ FailBoard(c) \/ Leave(c) \/ Return(c) \/ Join(c) \/ Handle(c)
    BY <2>2 DEF ServeBoard, ReceiveBoard, FailBoard, Leave, Return, Join, Handle
  <2>3. CASE \E c \in Clients : \E s \in Statuses : Create(c, s)
    BY <2>3 DEF Create, Send
  <2>4. CASE \E c \in Clients : \E i \in Issues, s \in Statuses : Drop(c, i, s) \/ Update(c, i, s)
    <3>1. ASSUME NEW c \in Clients, NEW i \in Issues, NEW s \in Statuses, Drop(c, i, s) PROVE rows' = rows
      <4>1. \E o : Send(c, "move", i, s, o)
        BY <3>1 DEF Drop
      <4>2. QED
        BY <4>1 DEF Send
    <3>2. QED
      BY <2>4, <3>1 DEF Update, Send
  <2>5. CASE SendElsewhere
    BY <2>5 DEF SendElsewhere, Send
  <2>6. CASE UNCHANGED vars
    BY <2>6 DEF vars
  <2>7. QED
    BY <2>1, <2>2, <2>3, <2>4, <2>5, <2>6 DEF Next
<1>5. QED
  BY <1>2, <1>3, <1>4

(* The rows the boards are read from promise what IssueRows says: a commit  *)
(* puts its own issue where it is asked to or takes it away, and at most    *)
(* renumbers the others where they are, no two of them alike.               *)
THEOREM RowsMoveOneByOne == Spec => ImplementsIssueRows
<1>1. Init => BoardsInv
  BY BoardsInvInit
<1>2. BoardsInv /\ [Next]_vars => BoardsInv'
  BY BoardsInvStep
<1>3. Init => Rows!Init
  <2>1. SUFFICES ASSUME Init PROVE Board \in [Issues -> Card \cup {NoCard}]
    BY DEF Rows!Init, Rows!Card, Card
  <2>2. QED
    <3>1. TypeOK
      BY <1>1, <2>1 DEF BoardsInv
    <3>2. QED
      BY <3>1, BoardType DEF Boards
<1>4. BoardsInv /\ [Next]_vars => [Rows!Next]_Board
  BY RowsStep
<1>5. QED
  BY <1>1, <1>2, <1>3, <1>4, PTL DEF Spec, ImplementsIssueRows, Rows!Spec
=============================================================================
