--------------------------- MODULE MCCoreBootstrap ---------------------------
(* Two members, both data networks and one subscriber: the smallest Job in *)
(* which every loop goes round and an attempt can die inside each.         *)
EXTENDS CoreBootstrap
=============================================================================
