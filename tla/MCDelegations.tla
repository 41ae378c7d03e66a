--------------------------- MODULE MCDelegations ---------------------------
(* Instances of Delegations for TLC. *)
EXTENDS Delegations

CONSTANTS a, d, f, A, D, i1, i2

\* Bot A hands over to bot D: into its active thread d, or into f.
MCOwner == a :> A @@ d :> D @@ f :> D
MCHome == A :> a @@ D :> d
MCFrom == i1 :> a @@ i2 :> a
MCTo == i1 :> d @@ i2 :> f
=============================================================================
