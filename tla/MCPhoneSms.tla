----------------------------- MODULE MCPhoneSms -----------------------------
(* Texts are model values; the bounds are given in the configurations.     *)
EXTENDS PhoneSms, TLC

\* No definition tells one text from another, and no run of this module checks
\* liveness.
TextSymmetry == Permutations(Texts)
=============================================================================
