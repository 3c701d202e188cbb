-------------------------- MODULE MCNotificationBell --------------------------
(* NotificationBell with small numbers. *)
EXTENDS NotificationBell
=============================================================================
