--------------------------- MODULE MCOAuthTokens ---------------------------
(***************************************************************************)
(* Instances of OAuthTokens for TLC.                                       *)
(***************************************************************************)
EXTENDS OAuthTokens, TLC

\* Requests differ in nothing but their names.
Symmetry == Permutations(Request)
=============================================================================
