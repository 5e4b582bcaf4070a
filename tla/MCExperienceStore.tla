--------------------------- MODULE MCExperienceStore ---------------------------
(* Instances of ExperienceStore for TLC. *)
EXTENDS ExperienceStore, TLC

ExporterSymmetry == Permutations(Exporters)

\* Of good runs for training, and of all that completed for evaluation.
TwoCriteria ==
    {[purpose |-> "training", labels |-> {"good"}, outcomes |-> {}],
     [purpose |-> "evaluation", labels |-> {"good", "bad"},
      outcomes |-> {"completed"}]}

=============================================================================
