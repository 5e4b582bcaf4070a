------------------------- MODULE MCIsolatedExecution -------------------------
(* Instances of IsolatedExecution for TLC. *)
EXTENDS IsolatedExecution, TLC

\* Passes are interchangeable: no action or property tells one from another.
PassSymmetry == Permutations(Passes)

=============================================================================
