---------------------------- MODULE MCMaintenance ----------------------------
(* Instances of Maintenance for TLC. *)
EXTENDS Maintenance, TLC

\* Processes are interchangeable: no action or property tells one from another.
WriterSymmetry == Permutations(Writers)

\* A development process, as the defaults leave it.
DevelopmentSettings ==
    [environment |-> "development", required |-> FALSE, denials |-> NoDenials]

\* What an operator may write: a stop of the benchmarks, which leaves the rollback
\* of an index, and a file that is not yet whole, which stops everything.
SomeControls ==
    {[state |-> "readable",
      denials |-> [switches |-> {"benchmarks"}, actions |-> {}]],
     [state |-> "malformed", denials |-> NoDenials]}

=============================================================================
