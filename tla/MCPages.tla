-------------------------------- MODULE MCPages --------------------------------
(* Five parts that share nothing, one at a time: the issue drawer, the pages of   *)
(* the list of issues, the registration, the members, and the notifications of two *)
(* events among three users, two of them managers.                                *)
EXTENDS IssueDrawer, IssuePages, Registration, Members, Notifications, TLC

CONSTANTS
  boss, ann, bob,
  MaxCounted     \* bound: what the drawer's counters count, in all

VARIABLE part

Parts == {"drawer", "pages", "registration", "members", "notifications"}

\* The requests of the members part.
Symmetry == Permutations(Asks)

Init ==
  /\ part \in Parts
  /\ DrawerInit /\ PagesInit /\ RegisterInit /\ MembersInit /\ NotifyInit
  /\ part = "pages" \/ order = [i \in Ids |-> Out]

Next ==
  /\ UNCHANGED part
  /\ part = "drawer" \/ UNCHANGED drawerVars
  /\ part = "pages" \/ UNCHANGED pagesVars
  /\ part = "registration" \/ UNCHANGED registerVars
  /\ part = "members" \/ UNCHANGED membersVars
  /\ part = "notifications" \/ UNCHANGED notifyVars
  /\ \/ part = "drawer" /\ DrawerNext
     \/ part = "pages" /\ PagesNext
     \/ part = "registration" /\ RegisterNext
     \/ part = "members" /\ MembersNext
     \/ part = "notifications" /\ NotifyNext

Spec == Init /\ [][Next]_<<part, drawerVars, pagesVars, registerVars, membersVars, notifyVars>>

\* The states explored further.
Bounded == posted + edits + visits + losses <= MaxCounted
================================================================================
