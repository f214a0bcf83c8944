--------------------------- MODULE MCNotifications ---------------------------
(* Instances of Notifications for TLC.                                       *)
EXTENDS Notifications

CONSTANTS amy, ben
=============================================================================
