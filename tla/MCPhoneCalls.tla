--------------------------- MODULE MCPhoneCalls ---------------------------
(* The constants of PhoneCalls are model values of the configurations. *)
EXTENDS PhoneCalls
=============================================================================
