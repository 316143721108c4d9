-------------------------- MODULE MCEmailTemplates --------------------------
(***************************************************************************)
(* An instance of EmailTemplates for TLC: two names with a default, on     *)
(* both sides of one without.                                              *)
(***************************************************************************)
EXTENDS EmailTemplates, TLC

Symmetry == Permutations(Request)
=============================================================================
