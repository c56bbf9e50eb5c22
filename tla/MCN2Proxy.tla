------------------------------ MODULE MCN2Proxy ------------------------------
(* The slots are model values; the bounds are in the configuration.          *)
EXTENDS N2Proxy
=============================================================================
