------------------------- MODULE MCProviderConfigs -------------------------
(***************************************************************************)
(* Instances of ProviderConfigs for TLC.                                   *)
(***************************************************************************)
EXTENDS ProviderConfigs, TLC

\* Executions differ in nothing but their names.
Symmetry == Permutations(Execution)
=============================================================================
