------------------------- MODULE MCIncidentWorkflow -------------------------
(* Instances of IncidentWorkflow for TLC. *)
EXTENDS IncidentWorkflow, TLC

\* Passes are interchangeable: no action or property tells one from another.
PassSymmetry == Permutations(Passes)

=============================================================================
