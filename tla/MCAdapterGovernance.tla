------------------------ MODULE MCAdapterGovernance ------------------------
(***************************************************************************)
(* Model-checking definitions for AdapterGovernance: two adapters, with  *)
(* one evaluation each on one suite.                                       *)
(***************************************************************************)
EXTENDS AdapterGovernance, TLC

CONSTANTS a1, a2, s1, e1, e2

MCAdapterOf == (e1 :> a1) @@ (e2 :> a2)
MCSuiteOf == [e \in {e1, e2} |-> s1]
Symmetry == Permutations(Workers)
=============================================================================
