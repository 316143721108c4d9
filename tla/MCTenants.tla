------------------------------ MODULE MCTenants ------------------------------
(***************************************************************************)
(* An instance of Tenants for TLC: two processes that serve the API, and   *)
(* that may or may not share a root key.                                   *)
(***************************************************************************)
EXTENDS Tenants, TLC

CONSTANTS p1, p2, k1, k2, t1, t2, r1, r2, x1, x2

\* Processes, root keys, tenants and requests differ in nothing but their name.
Symmetry == Permutations({p1, p2}) \union Permutations({k1, k2})
            \union Permutations({t1, t2}) \union Permutations({r1, r2})
            \union Permutations({x1, x2})
=============================================================================
