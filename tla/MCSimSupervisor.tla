--------------------------- MODULE MCSimSupervisor ---------------------------
(* Two Core members, with a list of N2 addresses that starts with one of   *)
(* them and without a list; both processes of a ueransim attachment.       *)
EXTENDS SimSupervisor
=============================================================================
