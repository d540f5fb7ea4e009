----------------------- MODULE MCTrainingPublication -----------------------
(***************************************************************************)
(* Model-checking definitions for TrainingPublication: workers, and the    *)
(* processes of the reconcile command, are interchangeable.                *)
(***************************************************************************)
EXTENDS TrainingPublication, TLC

Symmetry == Permutations(Workers) \union Permutations(Reconcilers)
=============================================================================
