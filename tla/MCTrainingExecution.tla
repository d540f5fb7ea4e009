------------------------ MODULE MCTrainingExecution ------------------------
(***************************************************************************)
(* Model-checking definitions for TrainingExecution.                       *)
(***************************************************************************)
EXTENDS TrainingExecution, TLC

\* Sound for safety: users and workers are interchangeable.
Symmetry == Permutations(Users) \union Permutations(Workers)
=============================================================================
