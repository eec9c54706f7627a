--------------------------- MODULE MCNotifications ---------------------------
(* Notifications for TLC; its constants are model values of the .cfg files.  *)
EXTENDS Notifications
=============================================================================
