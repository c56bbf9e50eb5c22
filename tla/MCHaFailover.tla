----------------------------- MODULE MCHaFailover -----------------------------
(* What a release installs: the controller with a phone, with and without the *)
(* IMS; and the gateway, which shares nothing with them but the Core.         *)
EXTENDS HaFailover

MCDeployments ==
  { {"controller", "peers", "phone"}, {"controller", "phone"}, {"gateway"} }
=============================================================================
