---------------------------- MODULE MCJobClients ----------------------------
(***************************************************************************)
(* An instance of JobClients for TLC: a mail, which can be sent a second   *)
(* time under a second id, and a program.                                  *)
(***************************************************************************)
EXTENDS JobClients, TLC

CONSTANTS k1, k2, j1, j2, p1, mail, prog

\* Neither calls nor the two ids of the mail are told apart by anything.
Symmetry == Permutations({k1, k2}) \union Permutations({j1, j2})
=============================================================================
